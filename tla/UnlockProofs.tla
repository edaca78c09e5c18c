---------------------------- MODULE UnlockProofs ----------------------------
(***************************************************************************)
(* What is proved about Unlock for every set of tiers and every number of  *)
(* attempts and lock triggers: its type invariant; that the tier machine   *)
(* never stays Unlocking without an attempt that will answer; and that a   *)
(* state at rest has the overlay, the machine, the database handle and the *)
(* key agree.  Every action has one lemma for the types, one step of the   *)
(* proof of NeverWedged where it touches the machine or an attempt, and    *)
(* one lemma for Story, the invariant behind the other three.              *)
(***************************************************************************)
EXTENDS Unlock, TLAPS

\* The initial state has the types of Unlock's variables.
LEMMA TypeInit == Init => TypeOK
<1> SUFFICES ASSUME Init PROVE TypeOK
  OBVIOUS
<1>1. ControlTypes
  BY DEF Init, ControlTypes
<1>5. FlagTypes
  BY DEF Init, FlagTypes
<1>6. QueueTypes
  BY DEF Init, QueueTypes
<1>2. AttemptTypes
  BY DEF Init, AttemptTypes, Surfaces, Quiet
<1>3. WaitTypes
  BY DEF Init, WaitTypes, Nobody, Surfaces
<1>4. CountTypes
  BY UnlockAssumption DEF Init, CountTypes, Oddities
<1> QED
  BY <1>1, <1>2, <1>3, <1>4, <1>5, <1>6 DEF TypeOK

\* What the machine publishes is of its type.
LEMMA DispatchTypes ==
    ASSUME TypeOK, NEW e, Dispatch(e)
    PROVE  QueueTypes'
  BY DEF TypeOK, QueueTypes, Dispatch

\* A success is well typed.
LEMMA GrantTypes ==
    ASSUME TypeOK, NEW s \in Surfaces, Grant(s)
    PROVE  AttemptTypes' /\ QueueTypes'
<1>1. QueueTypes'
  BY DispatchTypes DEF Grant
<1>2. AttemptTypes'
  BY DEF TypeOK, AttemptTypes, Grant, Surfaces
<1> QED
  BY <1>1, <1>2

\* A failing exit is well typed.
LEMMA RefuseTypes ==
    ASSUME TypeOK, NEW s \in Surfaces, NEW o \in {"wrong", "error"}, Refuse(s, o)
    PROVE  AttemptTypes' /\ QueueTypes'
<1>1. QueueTypes'
  BY DispatchTypes DEF Refuse
<1>2. AttemptTypes'
  <2>1. Quiet \in [pc : {"idle", "verify", "read", "open", "opening", "publish"}, good : BOOLEAN]
    BY DEF Quiet
  <2> QED
    BY <2>1 DEF TypeOK, AttemptTypes, Refuse, Surfaces
<1> QED
  BY <1>1, <1>2

\* No wait is of the type of a wait.
LEMMA NobodyTyped == Nobody \in [who : Surfaces \cup {"nobody"}, only : BOOLEAN]
  BY DEF Nobody

\* Completing the wait leaves it well typed.
LEMMA ResolveTypes ==
    ASSUME NEW o, Resolve(o)
    PROVE  WaitTypes'
  BY DEF Resolve, WaitTypes, Nobody, Surfaces

\* Steps that do not touch the wait keep its type.
LEMMA WaitKept ==
    ASSUME TypeOK, UNCHANGED <<waiter, dlg>>
    PROVE  WaitTypes'
  BY DEF TypeOK, WaitTypes

\* Verify keeps the types.
LEMMA TypeVerify ==
    ASSUME TypeOK, NEW s \in Surfaces, Verify(s)
    PROVE  TypeOK'
<1>1. ControlTypes'
  BY UnlockAssumption DEF TypeOK, ControlTypes, FlagTypes, Surfaces, Oddities, autoLockVars,
      dartVars, history, Verify, Grant, Refuse, Dispatch, NextState, Quiet, Verifier
<1>2. AttemptTypes' /\ QueueTypes'
  <2>1. CASE Grant(s)
    BY <2>1, GrantTypes
  <2>2. CASE \E o \in {"wrong", "error"} : Refuse(s, o)
    BY <2>2, RefuseTypes
  <2>3. CASE att' = [att EXCEPT ![s].pc = "read"] /\ UNCHANGED <<reply, tierQ>>
    BY <2>3 DEF TypeOK, AttemptTypes, QueueTypes, Surfaces
  <2> QED
    BY <2>1, <2>2, <2>3 DEF Verify
<1>3. FlagTypes'
  BY UnlockAssumption DEF TypeOK, FlagTypes, Surfaces, Oddities, autoLockVars, dartVars,
      history, Verify, Grant, Refuse, Dispatch, NextState, Quiet, Verifier
<1>5. WaitTypes'
  BY UnlockAssumption DEF TypeOK, WaitTypes, Surfaces, Oddities, autoLockVars, dartVars,
      history, Verify, Grant, Refuse, Dispatch, NextState, Quiet, Verifier
<1>6. CountTypes'
  BY UnlockAssumption DEF TypeOK, CountTypes, Surfaces, Oddities, autoLockVars, dartVars,
      history, Verify, Grant, Refuse, Dispatch, NextState, Quiet, Verifier
<1> QED
  BY <1>1, <1>2, <1>3, <1>5, <1>6 DEF TypeOK

\* ReadKey keeps the types.
LEMMA TypeReadKey ==
    ASSUME TypeOK, NEW s \in Surfaces, ReadKey(s)
    PROVE  TypeOK'
<1>1. ControlTypes'
  BY UnlockAssumption DEF TypeOK, ControlTypes, FlagTypes, Surfaces, Oddities, autoLockVars,
      dartVars, history, ReadKey, Grant, Refuse, Dispatch, NextState, Quiet
<1>2. AttemptTypes' /\ QueueTypes'
  BY GrantTypes, RefuseTypes DEF ReadKey
<1>3. FlagTypes'
  BY UnlockAssumption DEF TypeOK, FlagTypes, Surfaces, Oddities, autoLockVars, dartVars,
      history, ReadKey, Grant, Refuse, Dispatch, NextState, Quiet
<1>5. WaitTypes'
  BY UnlockAssumption DEF TypeOK, WaitTypes, Surfaces, Oddities, autoLockVars, dartVars,
      history, ReadKey, Grant, Refuse, Dispatch, NextState, Quiet
<1>6. CountTypes'
  BY UnlockAssumption DEF TypeOK, CountTypes, Surfaces, Oddities, autoLockVars, dartVars,
      history, ReadKey, Grant, Refuse, Dispatch, NextState, Quiet
<1> QED
  BY <1>1, <1>2, <1>3, <1>5, <1>6 DEF TypeOK

\* CascadeCopy keeps the types.
LEMMA TypeCascadeCopy ==
    ASSUME TypeOK, NEW s \in Surfaces, CascadeCopy(s)
    PROVE  TypeOK'
<1>1. ControlTypes'
  BY UnlockAssumption DEF TypeOK, ControlTypes, FlagTypes, Surfaces, Oddities, autoLockVars,
      dartVars, history, CascadeCopy
<1>2. AttemptTypes'
  BY UnlockAssumption DEF TypeOK, AttemptTypes, FlagTypes, Surfaces, Oddities, autoLockVars,
      dartVars, history, CascadeCopy
<1>3. FlagTypes'
  BY UnlockAssumption DEF TypeOK, FlagTypes, Surfaces, Oddities, autoLockVars, dartVars,
      history, CascadeCopy
<1>4. QueueTypes'
  BY UnlockAssumption DEF TypeOK, QueueTypes, Surfaces, Oddities, autoLockVars, dartVars,
      history, CascadeCopy
<1>5. WaitTypes'
  BY UnlockAssumption DEF TypeOK, WaitTypes, Surfaces, Oddities, autoLockVars, dartVars,
      history, CascadeCopy
<1>6. CountTypes'
  BY UnlockAssumption DEF TypeOK, CountTypes, Surfaces, Oddities, autoLockVars, dartVars,
      history, CascadeCopy
<1> QED
  BY <1>1, <1>2, <1>3, <1>4, <1>5, <1>6 DEF TypeOK

\* CascadeOpen keeps the types.
LEMMA TypeCascadeOpen ==
    ASSUME TypeOK, NEW s \in Surfaces, CascadeOpen(s)
    PROVE  TypeOK'
<1>1. ControlTypes'
  BY UnlockAssumption DEF TypeOK, ControlTypes, FlagTypes, Surfaces, Oddities, autoLockVars,
      dartVars, history, CascadeOpen
<1>2. AttemptTypes'
  BY UnlockAssumption DEF TypeOK, AttemptTypes, FlagTypes, Surfaces, Oddities, autoLockVars,
      dartVars, history, CascadeOpen
<1>3. FlagTypes'
  BY UnlockAssumption DEF TypeOK, FlagTypes, Surfaces, Oddities, autoLockVars, dartVars,
      history, CascadeOpen
<1>4. QueueTypes'
  BY UnlockAssumption DEF TypeOK, QueueTypes, Surfaces, Oddities, autoLockVars, dartVars,
      history, CascadeOpen
<1>5. WaitTypes'
  BY UnlockAssumption DEF TypeOK, WaitTypes, Surfaces, Oddities, autoLockVars, dartVars,
      history, CascadeOpen
<1>6. CountTypes'
  BY UnlockAssumption DEF TypeOK, CountTypes, Surfaces, Oddities, autoLockVars, dartVars,
      history, CascadeOpen
<1> QED
  BY <1>1, <1>2, <1>3, <1>4, <1>5, <1>6 DEF TypeOK

\* CascadePublish keeps the types.
LEMMA TypeCascadePublish ==
    ASSUME TypeOK, NEW s \in Surfaces, CascadePublish(s)
    PROVE  TypeOK'
<1>1. ControlTypes'
  BY UnlockAssumption DEF TypeOK, ControlTypes, FlagTypes, Surfaces, Oddities, autoLockVars,
      dartVars, history, CascadePublish, Quiet
<1>2. AttemptTypes'
  BY UnlockAssumption DEF TypeOK, AttemptTypes, FlagTypes, Surfaces, Oddities, autoLockVars,
      dartVars, history, CascadePublish, Quiet
<1>3. FlagTypes'
  BY UnlockAssumption DEF TypeOK, FlagTypes, Surfaces, Oddities, autoLockVars, dartVars,
      history, CascadePublish, Quiet
<1>4. QueueTypes'
  BY UnlockAssumption DEF TypeOK, QueueTypes, Surfaces, Oddities, autoLockVars, dartVars,
      history, CascadePublish, Quiet
<1>5. WaitTypes'
  BY UnlockAssumption DEF TypeOK, WaitTypes, Surfaces, Oddities, autoLockVars, dartVars,
      history, CascadePublish, Quiet
<1>6. CountTypes'
  BY UnlockAssumption DEF TypeOK, CountTypes, Surfaces, Oddities, autoLockVars, dartVars,
      history, CascadePublish, Quiet
<1> QED
  BY <1>1, <1>2, <1>3, <1>4, <1>5, <1>6 DEF TypeOK

\* CoolDown keeps the types.
LEMMA TypeCoolDown ==
    ASSUME TypeOK, CoolDown
    PROVE  TypeOK'
<1>1. ControlTypes'
  BY UnlockAssumption DEF TypeOK, ControlTypes, FlagTypes, Surfaces, Oddities, autoLockVars,
      dartVars, history, CoolDown
<1>2. AttemptTypes'
  BY UnlockAssumption DEF TypeOK, AttemptTypes, FlagTypes, Surfaces, Oddities, autoLockVars,
      dartVars, history, CoolDown
<1>3. FlagTypes'
  BY UnlockAssumption DEF TypeOK, FlagTypes, Surfaces, Oddities, autoLockVars, dartVars,
      history, CoolDown
<1>4. QueueTypes'
  BY UnlockAssumption DEF TypeOK, QueueTypes, Surfaces, Oddities, autoLockVars, dartVars,
      history, CoolDown
<1>5. WaitTypes'
  BY UnlockAssumption DEF TypeOK, WaitTypes, Surfaces, Oddities, autoLockVars, dartVars,
      history, CoolDown
<1>6. CountTypes'
  BY UnlockAssumption DEF TypeOK, CountTypes, Surfaces, Oddities, autoLockVars, dartVars,
      history, CoolDown
<1> QED
  BY <1>1, <1>2, <1>3, <1>4, <1>5, <1>6 DEF TypeOK

\* TickerDecides keeps the types.
LEMMA TypeTickerDecides ==
    ASSUME TypeOK, TickerDecides
    PROVE  TypeOK'
<1>1. ControlTypes'
  BY UnlockAssumption DEF TypeOK, ControlTypes, FlagTypes, Surfaces, Oddities, autoLockVars,
      dartVars, history, TickerDecides, Trigger
<1>2. AttemptTypes'
  BY UnlockAssumption DEF TypeOK, AttemptTypes, FlagTypes, Surfaces, Oddities, autoLockVars,
      dartVars, history, TickerDecides, Trigger
<1>3. FlagTypes'
  BY UnlockAssumption DEF TypeOK, FlagTypes, Surfaces, Oddities, autoLockVars, dartVars,
      history, TickerDecides, Trigger
<1>4. QueueTypes'
  BY UnlockAssumption DEF TypeOK, QueueTypes, Surfaces, Oddities, autoLockVars, dartVars,
      history, TickerDecides, Trigger
<1>5. WaitTypes'
  BY UnlockAssumption DEF TypeOK, WaitTypes, Surfaces, Oddities, autoLockVars, dartVars,
      history, TickerDecides, Trigger
<1>6. CountTypes'
  BY UnlockAssumption DEF TypeOK, CountTypes, Surfaces, Oddities, autoLockVars, dartVars,
      history, TickerDecides, Trigger
<1> QED
  BY <1>1, <1>2, <1>3, <1>4, <1>5, <1>6 DEF TypeOK

\* TickerLocks keeps the types.
LEMMA TypeTickerLocks ==
    ASSUME TypeOK, TickerLocks
    PROVE  TypeOK'
<1>1. ControlTypes'
  BY UnlockAssumption DEF TypeOK, ControlTypes, FlagTypes, Surfaces, Oddities, autoLockVars,
      dartVars, history, TickerLocks
<1>2. AttemptTypes'
  BY UnlockAssumption DEF TypeOK, AttemptTypes, FlagTypes, Surfaces, Oddities, autoLockVars,
      dartVars, history, TickerLocks
<1>3. FlagTypes'
  BY UnlockAssumption DEF TypeOK, FlagTypes, Surfaces, Oddities, autoLockVars, dartVars,
      history, TickerLocks
<1>4. QueueTypes'
  BY UnlockAssumption DEF TypeOK, QueueTypes, Surfaces, Oddities, autoLockVars, dartVars,
      history, TickerLocks
<1>5. WaitTypes'
  BY UnlockAssumption DEF TypeOK, WaitTypes, Surfaces, Oddities, autoLockVars, dartVars,
      history, TickerLocks
<1>6. CountTypes'
  BY UnlockAssumption DEF TypeOK, CountTypes, Surfaces, Oddities, autoLockVars, dartVars,
      history, TickerLocks
<1> QED
  BY <1>1, <1>2, <1>3, <1>4, <1>5, <1>6 DEF TypeOK

\* Fire keeps the types.
LEMMA TypeFire ==
    ASSUME TypeOK, Fire
    PROVE  TypeOK'
<1>1. ControlTypes'
  BY UnlockAssumption DEF TypeOK, ControlTypes, FlagTypes, Surfaces, Oddities, autoLockVars,
      dartVars, history, Fire, FireStep
<1>2. AttemptTypes'
  BY UnlockAssumption DEF TypeOK, AttemptTypes, FlagTypes, Surfaces, Oddities, autoLockVars,
      dartVars, history, Fire, FireStep
<1>3. FlagTypes'
  BY UnlockAssumption DEF TypeOK, FlagTypes, Surfaces, Oddities, autoLockVars, dartVars,
      history, Fire, FireStep
<1>4. QueueTypes'
  BY UnlockAssumption DEF TypeOK, QueueTypes, Surfaces, Oddities, autoLockVars, dartVars,
      history, Fire, FireStep
<1>5. WaitTypes'
  BY UnlockAssumption DEF TypeOK, WaitTypes, Surfaces, Oddities, autoLockVars, dartVars,
      history, Fire, FireStep
<1>6. CountTypes'
  BY UnlockAssumption DEF TypeOK, CountTypes, Surfaces, Oddities, autoLockVars, dartVars,
      history, Fire, FireStep
<1> QED
  BY <1>1, <1>2, <1>3, <1>4, <1>5, <1>6 DEF TypeOK

\* IdleTimer keeps the types.
LEMMA TypeIdleTimer ==
    ASSUME TypeOK, IdleTimer
    PROVE  TypeOK'
<1>1. ControlTypes'
  BY UnlockAssumption DEF TypeOK, ControlTypes, FlagTypes, Surfaces, Oddities, autoLockVars,
      dartVars, history, IdleTimer, Trigger, TriggerLock, Dispatch, NextState
<1>2. AttemptTypes'
  BY UnlockAssumption DEF TypeOK, AttemptTypes, FlagTypes, Surfaces, Oddities, autoLockVars,
      dartVars, history, IdleTimer, Trigger, TriggerLock, Dispatch, NextState
<1>3. FlagTypes'
  BY UnlockAssumption DEF TypeOK, FlagTypes, Surfaces, Oddities, autoLockVars, dartVars,
      history, IdleTimer, Trigger, TriggerLock, Dispatch, NextState
<1>4. QueueTypes'
  BY UnlockAssumption DEF TypeOK, QueueTypes, Surfaces, Oddities, autoLockVars, dartVars,
      history, IdleTimer, Trigger, TriggerLock, Dispatch, NextState
<1>5. WaitTypes'
  BY UnlockAssumption DEF TypeOK, WaitTypes, Surfaces, Oddities, autoLockVars, dartVars,
      history, IdleTimer, Trigger, TriggerLock, Dispatch, NextState
<1>6. CountTypes'
  BY UnlockAssumption DEF TypeOK, CountTypes, Surfaces, Oddities, autoLockVars, dartVars,
      history, IdleTimer, Trigger, TriggerLock, Dispatch, NextState
<1> QED
  BY <1>1, <1>2, <1>3, <1>4, <1>5, <1>6 DEF TypeOK

\* SystemLock keeps the types.
LEMMA TypeSystemLock ==
    ASSUME TypeOK, SystemLock
    PROVE  TypeOK'
<1>1. ControlTypes'
  BY UnlockAssumption DEF TypeOK, ControlTypes, FlagTypes, Surfaces, Oddities, autoLockVars,
      dartVars, history, SystemLock, Trigger, NoTrigger, TriggerLock, RequestLock, Dispatch,
      NextState
<1>2. AttemptTypes'
  BY UnlockAssumption DEF TypeOK, AttemptTypes, FlagTypes, Surfaces, Oddities, autoLockVars,
      dartVars, history, SystemLock, Trigger, NoTrigger, TriggerLock, RequestLock, Dispatch,
      NextState
<1>3. FlagTypes'
  BY UnlockAssumption DEF TypeOK, FlagTypes, Surfaces, Oddities, autoLockVars, dartVars,
      history, SystemLock, Trigger, NoTrigger, TriggerLock, RequestLock, Dispatch, NextState
<1>4. QueueTypes'
  BY UnlockAssumption DEF TypeOK, QueueTypes, Surfaces, Oddities, autoLockVars, dartVars,
      history, SystemLock, Trigger, NoTrigger, TriggerLock, RequestLock, Dispatch, NextState
<1>5. WaitTypes'
  BY UnlockAssumption DEF TypeOK, WaitTypes, Surfaces, Oddities, autoLockVars, dartVars,
      history, SystemLock, Trigger, NoTrigger, TriggerLock, RequestLock, Dispatch, NextState
<1>6. CountTypes'
  BY UnlockAssumption DEF TypeOK, CountTypes, Surfaces, Oddities, autoLockVars, dartVars,
      history, SystemLock, Trigger, NoTrigger, TriggerLock, RequestLock, Dispatch, NextState
<1> QED
  BY <1>1, <1>2, <1>3, <1>4, <1>5, <1>6 DEF TypeOK

\* OnAutoLockLocked keeps the types.
LEMMA TypeOnAutoLockLocked ==
    ASSUME TypeOK, OnAutoLockLocked
    PROVE  TypeOK'
<1>1. ControlTypes'
  BY UnlockAssumption DEF TypeOK, ControlTypes, FlagTypes, Surfaces, Oddities, autoLockVars,
      dartVars, history, OnAutoLockLocked, NoTrigger, TriggerLock, Dispatch, NextState
<1>2. AttemptTypes'
  BY UnlockAssumption DEF TypeOK, AttemptTypes, FlagTypes, Surfaces, Oddities, autoLockVars,
      dartVars, history, OnAutoLockLocked, NoTrigger, TriggerLock, Dispatch, NextState
<1>3. FlagTypes'
  BY UnlockAssumption DEF TypeOK, FlagTypes, Surfaces, Oddities, autoLockVars, dartVars,
      history, OnAutoLockLocked, NoTrigger, TriggerLock, Dispatch, NextState
<1>4. QueueTypes'
  BY UnlockAssumption DEF TypeOK, QueueTypes, Surfaces, Oddities, autoLockVars, dartVars,
      history, OnAutoLockLocked, NoTrigger, TriggerLock, Dispatch, NextState
<1>5. WaitTypes'
  BY UnlockAssumption DEF TypeOK, WaitTypes, Surfaces, Oddities, autoLockVars, dartVars,
      history, OnAutoLockLocked, NoTrigger, TriggerLock, Dispatch, NextState
<1>6. CountTypes'
  BY UnlockAssumption DEF TypeOK, CountTypes, Surfaces, Oddities, autoLockVars, dartVars,
      history, OnAutoLockLocked, NoTrigger, TriggerLock, Dispatch, NextState
<1> QED
  BY <1>1, <1>2, <1>3, <1>4, <1>5, <1>6 DEF TypeOK

\* OnLocked keeps the types.
LEMMA TypeOnLocked ==
    ASSUME TypeOK, OnLocked
    PROVE  TypeOK'
<1>1. ControlTypes'
  BY UnlockAssumption DEF TypeOK, ControlTypes, FlagTypes, Surfaces, Oddities, autoLockVars,
      dartVars, history, OnLocked, Resolve, Nobody
<1>2. AttemptTypes'
  BY UnlockAssumption DEF TypeOK, AttemptTypes, FlagTypes, Surfaces, Oddities, autoLockVars,
      dartVars, history, OnLocked, Resolve, Nobody
<1>3. FlagTypes'
  BY UnlockAssumption DEF TypeOK, FlagTypes, Surfaces, Oddities, autoLockVars, dartVars,
      history, OnLocked, Resolve, Nobody
<1>4. QueueTypes'
  BY UnlockAssumption DEF TypeOK, QueueTypes, Surfaces, Oddities, autoLockVars, dartVars,
      history, OnLocked, Resolve, Nobody
<1>5. WaitTypes'
  BY ResolveTypes, WaitKept DEF OnLocked
<1>6. CountTypes'
  BY UnlockAssumption DEF TypeOK, CountTypes, Surfaces, Oddities, autoLockVars, dartVars,
      history, OnLocked, Resolve, Nobody
<1> QED
  BY <1>1, <1>2, <1>3, <1>4, <1>5, <1>6 DEF TypeOK

\* OnCascadeReady keeps the types.
LEMMA TypeOnCascadeReady ==
    ASSUME TypeOK, OnCascadeReady
    PROVE  TypeOK'
<1>1. ControlTypes'
  BY UnlockAssumption DEF TypeOK, ControlTypes, FlagTypes, Surfaces, Oddities, autoLockVars,
      dartVars, history, OnCascadeReady, Resolve, Nobody
<1>2. AttemptTypes'
  BY UnlockAssumption DEF TypeOK, AttemptTypes, FlagTypes, Surfaces, Oddities, autoLockVars,
      dartVars, history, OnCascadeReady, Resolve, Nobody
<1>3. FlagTypes'
  BY UnlockAssumption DEF TypeOK, FlagTypes, Surfaces, Oddities, autoLockVars, dartVars,
      history, OnCascadeReady, Resolve, Nobody
<1>4. QueueTypes'
  BY UnlockAssumption DEF TypeOK, QueueTypes, Surfaces, Oddities, autoLockVars, dartVars,
      history, OnCascadeReady, Resolve, Nobody
<1>5. WaitTypes'
  BY ResolveTypes DEF OnCascadeReady
<1>6. CountTypes'
  BY UnlockAssumption DEF TypeOK, CountTypes, Surfaces, Oddities, autoLockVars, dartVars,
      history, OnCascadeReady, Resolve, Nobody
<1> QED
  BY <1>1, <1>2, <1>3, <1>4, <1>5, <1>6 DEF TypeOK

\* SubmitScreen keeps the types.
LEMMA TypeSubmitScreen ==
    ASSUME TypeOK, NEW g \in BOOLEAN, SubmitScreen(g)
    PROVE  TypeOK'
<1>1. ControlTypes'
  BY UnlockAssumption DEF TypeOK, ControlTypes, FlagTypes, Surfaces, Oddities, autoLockVars,
      dartVars, history, SubmitScreen, Attempt, Arm, Begin, NextState
<1>2. AttemptTypes'
  BY UnlockAssumption DEF TypeOK, AttemptTypes, FlagTypes, Surfaces, Oddities, autoLockVars,
      dartVars, history, SubmitScreen, Attempt, Arm, Begin, NextState
<1>3. FlagTypes'
  BY UnlockAssumption DEF TypeOK, FlagTypes, Surfaces, Oddities, autoLockVars, dartVars,
      history, SubmitScreen, Attempt, Arm, Begin, NextState
<1>4. QueueTypes'
  BY UnlockAssumption DEF TypeOK, QueueTypes, Surfaces, Oddities, autoLockVars, dartVars,
      history, SubmitScreen, Attempt, Arm, Begin, NextState
<1>5. WaitTypes'
  BY UnlockAssumption DEF TypeOK, WaitTypes, Surfaces, Oddities, autoLockVars, dartVars,
      history, SubmitScreen, Attempt, Arm, Begin, NextState
<1>6. CountTypes'
  BY UnlockAssumption DEF TypeOK, CountTypes, Surfaces, Oddities, autoLockVars, dartVars,
      history, SubmitScreen, Attempt, Arm, Begin, NextState
<1> QED
  BY <1>1, <1>2, <1>3, <1>4, <1>5, <1>6 DEF TypeOK

\* SubmitDialog keeps the types.
LEMMA TypeSubmitDialog ==
    ASSUME TypeOK, NEW g \in BOOLEAN, SubmitDialog(g)
    PROVE  TypeOK'
<1>1. ControlTypes'
  BY UnlockAssumption DEF TypeOK, ControlTypes, FlagTypes, Surfaces, Oddities, autoLockVars,
      dartVars, history, SubmitDialog, Attempt, Begin, DialogOpen, NextState
<1>2. AttemptTypes'
  BY UnlockAssumption DEF TypeOK, AttemptTypes, FlagTypes, Surfaces, Oddities, autoLockVars,
      dartVars, history, SubmitDialog, Attempt, Begin, DialogOpen, NextState
<1>3. FlagTypes'
  BY UnlockAssumption DEF TypeOK, FlagTypes, Surfaces, Oddities, autoLockVars, dartVars,
      history, SubmitDialog, Attempt, Begin, DialogOpen, NextState
<1>4. QueueTypes'
  BY UnlockAssumption DEF TypeOK, QueueTypes, Surfaces, Oddities, autoLockVars, dartVars,
      history, SubmitDialog, Attempt, Begin, DialogOpen, NextState
<1>5. WaitTypes'
  BY UnlockAssumption DEF TypeOK, WaitTypes, Surfaces, Oddities, autoLockVars, dartVars,
      history, SubmitDialog, Attempt, Begin, DialogOpen, NextState
<1>6. CountTypes'
  BY UnlockAssumption DEF TypeOK, CountTypes, Surfaces, Oddities, autoLockVars, dartVars,
      history, SubmitDialog, Attempt, Begin, DialogOpen, NextState
<1> QED
  BY <1>1, <1>2, <1>3, <1>4, <1>5, <1>6 DEF TypeOK

\* Biometric keeps the types.
LEMMA TypeBiometric ==
    ASSUME TypeOK, Biometric
    PROVE  TypeOK'
<1>1. ControlTypes'
  BY UnlockAssumption DEF TypeOK, ControlTypes, FlagTypes, Surfaces, Oddities, autoLockVars,
      dartVars, history, Biometric, Attempt, DialogOpen, NextState
<1>2. AttemptTypes'
  BY UnlockAssumption DEF TypeOK, AttemptTypes, FlagTypes, Surfaces, Oddities, autoLockVars,
      dartVars, history, Biometric, Attempt, DialogOpen, NextState
<1>3. FlagTypes'
  BY UnlockAssumption DEF TypeOK, FlagTypes, Surfaces, Oddities, autoLockVars, dartVars,
      history, Biometric, Attempt, DialogOpen, NextState
<1>4. QueueTypes'
  BY UnlockAssumption DEF TypeOK, QueueTypes, Surfaces, Oddities, autoLockVars, dartVars,
      history, Biometric, Attempt, DialogOpen, NextState
<1>5. WaitTypes'
  BY UnlockAssumption DEF TypeOK, WaitTypes, Surfaces, Oddities, autoLockVars, dartVars,
      history, Biometric, Attempt, DialogOpen, NextState
<1>6. CountTypes'
  BY UnlockAssumption DEF TypeOK, CountTypes, Surfaces, Oddities, autoLockVars, dartVars,
      history, Biometric, Attempt, DialogOpen, NextState
<1> QED
  BY <1>1, <1>2, <1>3, <1>4, <1>5, <1>6 DEF TypeOK

\* ScreenReply keeps the types.
LEMMA TypeScreenReply ==
    ASSUME TypeOK, ScreenReply
    PROVE  TypeOK'
<1>1. ControlTypes'
  BY UnlockAssumption DEF TypeOK, ControlTypes, FlagTypes, Surfaces, Oddities, autoLockVars,
      dartVars, history, ScreenReply, Resolve, Nobody
<1>2. AttemptTypes'
  BY UnlockAssumption DEF TypeOK, AttemptTypes, FlagTypes, Surfaces, Oddities, autoLockVars,
      dartVars, history, ScreenReply, Resolve, Nobody
<1>3. FlagTypes'
  BY UnlockAssumption DEF TypeOK, FlagTypes, Surfaces, Oddities, autoLockVars, dartVars,
      history, ScreenReply, Resolve, Nobody
<1>4. QueueTypes'
  BY UnlockAssumption DEF TypeOK, QueueTypes, Surfaces, Oddities, autoLockVars, dartVars,
      history, ScreenReply, Resolve, Nobody
<1>5. WaitTypes'
  BY ResolveTypes, WaitKept DEF ScreenReply
<1>6. CountTypes'
  BY UnlockAssumption DEF TypeOK, CountTypes, Surfaces, Oddities, autoLockVars, dartVars,
      history, ScreenReply, Resolve, Nobody
<1> QED
  BY <1>1, <1>2, <1>3, <1>4, <1>5, <1>6 DEF TypeOK

\* DialogReply keeps the types.
LEMMA TypeDialogReply ==
    ASSUME TypeOK, DialogReply
    PROVE  TypeOK'
<1>1. ControlTypes'
  BY UnlockAssumption DEF TypeOK, ControlTypes, FlagTypes, Surfaces, Oddities, autoLockVars,
      dartVars, history, DialogReply, Resolve, Nobody, Dispatch, NextState, Fallback, Probe
<1>2. AttemptTypes'
  BY UnlockAssumption DEF TypeOK, AttemptTypes, FlagTypes, Surfaces, Oddities, autoLockVars,
      dartVars, history, DialogReply, Resolve, Nobody, Dispatch, NextState, Fallback, Probe
<1>3. FlagTypes'
  BY UnlockAssumption DEF TypeOK, FlagTypes, Surfaces, Oddities, autoLockVars, dartVars,
      history, DialogReply, Resolve, Nobody, Dispatch, NextState, Fallback, Probe
<1>4. QueueTypes'
  BY UnlockAssumption DEF TypeOK, QueueTypes, Surfaces, Oddities, autoLockVars, dartVars,
      history, DialogReply, Resolve, Nobody, Dispatch, NextState, Fallback, Probe
<1>5. WaitTypes'
  BY ResolveTypes, WaitKept DEF DialogReply
<1>6. CountTypes'
  BY UnlockAssumption DEF TypeOK, CountTypes, Surfaces, Oddities, autoLockVars, dartVars,
      history, DialogReply, Resolve, Nobody, Dispatch, NextState, Fallback, Probe
<1> QED
  BY <1>1, <1>2, <1>3, <1>4, <1>5, <1>6 DEF TypeOK

\* BootStart keeps the types.
LEMMA TypeBootStart ==
    ASSUME TypeOK, BootStart
    PROVE  TypeOK'
<1>1. ControlTypes'
  BY UnlockAssumption DEF TypeOK, ControlTypes, FlagTypes, Surfaces, Oddities, autoLockVars,
      dartVars, history, BootStart, Arm, Begin, NextState
<1>2. AttemptTypes'
  <2>1. CASE Begin("dialog", "read", TRUE)
    BY <2>1 DEF TypeOK, AttemptTypes, BootStart, Begin, Surfaces
  <2>2. CASE UNCHANGED att
    BY <2>2 DEF TypeOK, AttemptTypes, BootStart
  <2> QED
    BY <2>1, <2>2 DEF BootStart
<1>3. FlagTypes'
  BY UnlockAssumption DEF TypeOK, FlagTypes, Surfaces, Oddities, autoLockVars, dartVars,
      history, BootStart, Arm, Begin, NextState
<1>4. QueueTypes'
  BY UnlockAssumption DEF TypeOK, QueueTypes, Surfaces, Oddities, autoLockVars, dartVars,
      history, BootStart, Arm, Begin, NextState
<1>5. WaitTypes'
  BY UnlockAssumption DEF TypeOK, WaitTypes, Surfaces, Oddities, autoLockVars, dartVars,
      history, BootStart, Arm, Begin, NextState
<1>6. CountTypes'
  BY UnlockAssumption DEF TypeOK, CountTypes, Surfaces, Oddities, autoLockVars, dartVars,
      history, BootStart, Arm, Begin, NextState
<1> QED
  BY <1>1, <1>2, <1>3, <1>4, <1>5, <1>6 DEF TypeOK

\* BootWaited keeps the types.
LEMMA TypeBootWaited ==
    ASSUME TypeOK, BootWaited
    PROVE  TypeOK'
<1>1. ControlTypes'
  BY UnlockAssumption DEF TypeOK, ControlTypes, FlagTypes, Surfaces, Oddities, autoLockVars,
      dartVars, history, BootWaited, GivesUp, Fallback, Probe, Nobody
<1>2. AttemptTypes'
  BY UnlockAssumption DEF TypeOK, AttemptTypes, FlagTypes, Surfaces, Oddities, autoLockVars,
      dartVars, history, BootWaited, GivesUp, Fallback, Probe, Nobody
<1>3. FlagTypes'
  BY UnlockAssumption DEF TypeOK, FlagTypes, Surfaces, Oddities, autoLockVars, dartVars,
      history, BootWaited, GivesUp, Fallback, Probe, Nobody
<1>4. QueueTypes'
  BY UnlockAssumption DEF TypeOK, QueueTypes, Surfaces, Oddities, autoLockVars, dartVars,
      history, BootWaited, GivesUp, Fallback, Probe, Nobody
<1>5. WaitTypes'
  <2>1. waiter' = waiter \/ waiter' = Nobody
    BY DEF BootWaited, GivesUp
  <2> QED
    BY <2>1, NobodyTyped DEF TypeOK, WaitTypes
<1>6. CountTypes'
  BY UnlockAssumption DEF TypeOK, CountTypes, Surfaces, Oddities, autoLockVars, dartVars,
      history, BootWaited, GivesUp, Fallback, Probe, Nobody
<1> QED
  BY <1>1, <1>2, <1>3, <1>4, <1>5, <1>6 DEF TypeOK

\* BootTimesOut keeps the types.
LEMMA TypeBootTimesOut ==
    ASSUME TypeOK, BootTimesOut
    PROVE  TypeOK'
<1>1. ControlTypes'
  BY UnlockAssumption DEF TypeOK, ControlTypes, FlagTypes, Surfaces, Oddities, autoLockVars,
      dartVars, history, BootTimesOut, GivesUp, Fallback, Probe, Nobody
<1>2. AttemptTypes'
  BY UnlockAssumption DEF TypeOK, AttemptTypes, FlagTypes, Surfaces, Oddities, autoLockVars,
      dartVars, history, BootTimesOut, GivesUp, Fallback, Probe, Nobody
<1>3. FlagTypes'
  BY UnlockAssumption DEF TypeOK, FlagTypes, Surfaces, Oddities, autoLockVars, dartVars,
      history, BootTimesOut, GivesUp, Fallback, Probe, Nobody
<1>4. QueueTypes'
  BY UnlockAssumption DEF TypeOK, QueueTypes, Surfaces, Oddities, autoLockVars, dartVars,
      history, BootTimesOut, GivesUp, Fallback, Probe, Nobody
<1>5. WaitTypes'
  <2>1. waiter' = waiter \/ waiter' = Nobody
    BY DEF BootTimesOut, GivesUp
  <2> QED
    BY <2>1, NobodyTyped DEF TypeOK, WaitTypes
<1>6. CountTypes'
  BY UnlockAssumption DEF TypeOK, CountTypes, Surfaces, Oddities, autoLockVars, dartVars,
      history, BootTimesOut, GivesUp, Fallback, Probe, Nobody
<1> QED
  BY <1>1, <1>2, <1>3, <1>4, <1>5, <1>6 DEF TypeOK

\* DbClose keeps the types.
LEMMA TypeDbClose ==
    ASSUME TypeOK, DbClose
    PROVE  TypeOK'
<1>1. ControlTypes'
  BY UnlockAssumption DEF TypeOK, ControlTypes, FlagTypes, Surfaces, Oddities, autoLockVars,
      dartVars, history, DbClose
<1>2. AttemptTypes'
  BY UnlockAssumption DEF TypeOK, AttemptTypes, FlagTypes, Surfaces, Oddities, autoLockVars,
      dartVars, history, DbClose
<1>3. FlagTypes'
  BY UnlockAssumption DEF TypeOK, FlagTypes, Surfaces, Oddities, autoLockVars, dartVars,
      history, DbClose
<1>4. QueueTypes'
  BY UnlockAssumption DEF TypeOK, QueueTypes, Surfaces, Oddities, autoLockVars, dartVars,
      history, DbClose
<1>5. WaitTypes'
  BY UnlockAssumption DEF TypeOK, WaitTypes, Surfaces, Oddities, autoLockVars, dartVars,
      history, DbClose
<1>6. CountTypes'
  BY UnlockAssumption DEF TypeOK, CountTypes, Surfaces, Oddities, autoLockVars, dartVars,
      history, DbClose
<1> QED
  BY <1>1, <1>2, <1>3, <1>4, <1>5, <1>6 DEF TypeOK

\* ReopenAsk keeps the types.
LEMMA TypeReopenAsk ==
    ASSUME TypeOK, ReopenAsk
    PROVE  TypeOK'
<1>1. ControlTypes'
  BY UnlockAssumption DEF TypeOK, ControlTypes, FlagTypes, Surfaces, Oddities, autoLockVars,
      dartVars, history, ReopenAsk
<1>2. AttemptTypes'
  BY UnlockAssumption DEF TypeOK, AttemptTypes, FlagTypes, Surfaces, Oddities, autoLockVars,
      dartVars, history, ReopenAsk
<1>3. FlagTypes'
  BY UnlockAssumption DEF TypeOK, FlagTypes, Surfaces, Oddities, autoLockVars, dartVars,
      history, ReopenAsk
<1>4. QueueTypes'
  BY UnlockAssumption DEF TypeOK, QueueTypes, Surfaces, Oddities, autoLockVars, dartVars,
      history, ReopenAsk
<1>5. WaitTypes'
  BY UnlockAssumption DEF TypeOK, WaitTypes, Surfaces, Oddities, autoLockVars, dartVars,
      history, ReopenAsk
<1>6. CountTypes'
  BY UnlockAssumption DEF TypeOK, CountTypes, Surfaces, Oddities, autoLockVars, dartVars,
      history, ReopenAsk
<1> QED
  BY <1>1, <1>2, <1>3, <1>4, <1>5, <1>6 DEF TypeOK

\* ReopenOpen keeps the types.
LEMMA TypeReopenOpen ==
    ASSUME TypeOK, ReopenOpen
    PROVE  TypeOK'
<1>1. ControlTypes'
  BY UnlockAssumption DEF TypeOK, ControlTypes, FlagTypes, Surfaces, Oddities, autoLockVars,
      dartVars, history, ReopenOpen
<1>2. AttemptTypes'
  BY UnlockAssumption DEF TypeOK, AttemptTypes, FlagTypes, Surfaces, Oddities, autoLockVars,
      dartVars, history, ReopenOpen
<1>3. FlagTypes'
  BY UnlockAssumption DEF TypeOK, FlagTypes, Surfaces, Oddities, autoLockVars, dartVars,
      history, ReopenOpen
<1>4. QueueTypes'
  BY UnlockAssumption DEF TypeOK, QueueTypes, Surfaces, Oddities, autoLockVars, dartVars,
      history, ReopenOpen
<1>5. WaitTypes'
  BY UnlockAssumption DEF TypeOK, WaitTypes, Surfaces, Oddities, autoLockVars, dartVars,
      history, ReopenOpen
<1>6. CountTypes'
  BY UnlockAssumption DEF TypeOK, CountTypes, Surfaces, Oddities, autoLockVars, dartVars,
      history, ReopenOpen
<1> QED
  BY <1>1, <1>2, <1>3, <1>4, <1>5, <1>6 DEF TypeOK

\* ReopenSet keeps the types.
LEMMA TypeReopenSet ==
    ASSUME TypeOK, ReopenSet
    PROVE  TypeOK'
<1>1. ControlTypes'
  BY UnlockAssumption DEF TypeOK, ControlTypes, FlagTypes, Surfaces, Oddities, autoLockVars,
      dartVars, history, ReopenSet
<1>2. AttemptTypes'
  BY UnlockAssumption DEF TypeOK, AttemptTypes, FlagTypes, Surfaces, Oddities, autoLockVars,
      dartVars, history, ReopenSet
<1>3. FlagTypes'
  BY UnlockAssumption DEF TypeOK, FlagTypes, Surfaces, Oddities, autoLockVars, dartVars,
      history, ReopenSet
<1>4. QueueTypes'
  BY UnlockAssumption DEF TypeOK, QueueTypes, Surfaces, Oddities, autoLockVars, dartVars,
      history, ReopenSet
<1>5. WaitTypes'
  BY UnlockAssumption DEF TypeOK, WaitTypes, Surfaces, Oddities, autoLockVars, dartVars,
      history, ReopenSet
<1>6. CountTypes'
  BY UnlockAssumption DEF TypeOK, CountTypes, Surfaces, Oddities, autoLockVars, dartVars,
      history, ReopenSet
<1> QED
  BY <1>1, <1>2, <1>3, <1>4, <1>5, <1>6 DEF TypeOK

\* Every step keeps the types.
LEMMA TypeNext == TypeOK /\ [Next]_vars => TypeOK'
<1> SUFFICES ASSUME TypeOK, [Next]_vars PROVE TypeOK'
  OBVIOUS
<1>1. CASE Orchestrate
  BY <1>1, TypeVerify, TypeReadKey, TypeCascadeCopy, TypeCascadeOpen, TypeCascadePublish DEF
      Orchestrate
<1>2. CASE Deliver
  BY <1>2, TypeOnLocked, TypeOnCascadeReady, TypeOnAutoLockLocked DEF Deliver
<1>3. CASE Surface
  BY <1>3, TypeScreenReply, TypeDialogReply, TypeBootStart, TypeBootWaited, TypeBootTimesOut
      DEF Surface
<1>4. CASE Reopen
  BY <1>4, TypeReopenAsk, TypeReopenOpen, TypeReopenSet DEF Reopen
<1>5. CASE AutoLock \/ CoolDown
  BY <1>5, TypeTickerLocks, TypeFire, TypeDbClose, TypeCoolDown DEF AutoLock
<1>6. CASE Environment
  BY <1>6, TypeSubmitScreen, TypeSubmitDialog, TypeBiometric, TypeTickerDecides,
      TypeIdleTimer, TypeSystemLock
  DEF Environment
<1>7. CASE UNCHANGED vars
  BY <1>7 DEF TypeOK, ControlTypes, AttemptTypes, FlagTypes, QueueTypes, WaitTypes,
      CountTypes, vars, autoLockVars, dartVars, history
<1> QED
  BY <1>1, <1>2, <1>3, <1>4, <1>5, <1>6, <1>7 DEF Next

\* The type invariant of the unlock model, for all its constants.
THEOREM TypeCorrect == Spec => []TypeOK
  BY TypeInit, TypeNext, PTL DEF Spec

-----------------------------------------------------------------------------
(* NeverWedged.  An attempt leaves "verify" or "read" together with the    *)
(* event that takes the machine out of Unlocking, and the machine enters   *)
(* Unlocking only for an attempt that is put there by the same step.       *)

\* After an event that ends or cancels an attempt the machine is not Unlocking.
LEMMA WedgedSettles ==
    ASSUME TypeOK, NeverWedged, NEW e \in {"UnlockSucceeded", "UnlockFailed", "LockRequested"}, Dispatch(e)
    PROVE  NeverWedged'
  BY DEF TypeOK, ControlTypes, NeverWedged, Dispatch, NextState

\* Steps that touch neither the machine nor the attempts keep NeverWedged.
LEMMA WedgedKept ==
    ASSUME NeverWedged, UNCHANGED <<machine, att>>
    PROVE  NeverWedged'
  BY DEF NeverWedged

\* The attempt that puts the machine in Unlocking is under way.
LEMMA WedgedBegin ==
    ASSUME TypeOK, NEW s \in Surfaces, NEW p \in {"verify", "read"}, NEW g, Begin(s, p, g)
    PROVE  NeverWedged'
  BY DEF TypeOK, AttemptTypes, NeverWedged, Begin

\* The cascade and its end come after the machine was told.
LEMMA WedgedCascade ==
    ASSUME TypeOK, NeverWedged, NEW s \in Surfaces, CascadeCopy(s) \/ CascadeOpen(s) \/ CascadePublish(s)
    PROVE  NeverWedged'
<1>1. att[s].pc \notin {"verify", "read"} /\ UNCHANGED machine
  BY DEF CascadeCopy, CascadeOpen, CascadePublish
<1>2. \A t \in Surfaces \ {s} : att'[t] = att[t]
  BY DEF TypeOK, AttemptTypes, CascadeCopy, CascadeOpen, CascadePublish
<1> QED
  BY <1>1, <1>2 DEF NeverWedged

\* The steps of the orchestrator keep NeverWedged.
LEMMA WedgedOrchestrate == TypeOK /\ NeverWedged /\ Orchestrate => NeverWedged'
<1> SUFFICES ASSUME TypeOK, NeverWedged, NEW s \in Surfaces,
                    Verify(s) \/ ReadKey(s) \/ CascadeCopy(s) \/ CascadeOpen(s) \/ CascadePublish(s)
             PROVE  NeverWedged'
  BY DEF Orchestrate
<1>1. ASSUME Grant(s) \/ (\E o \in {"wrong", "error"} : Refuse(s, o)) PROVE NeverWedged'
  BY <1>1, WedgedSettles DEF Grant, Refuse
<1>2. CASE Verify(s)
  <2>1. CASE att' = [att EXCEPT ![s].pc = "read"]
    BY <2>1 DEF TypeOK, AttemptTypes, NeverWedged
  <2> QED
    BY <1>1, <1>2, <2>1 DEF Verify
<1>3. CASE ReadKey(s)
  BY <1>1, <1>3 DEF ReadKey
<1> QED
  BY <1>2, <1>3, WedgedCascade

\* So do the user, the key stores and the timers.
LEMMA WedgedEnvironment == TypeOK /\ NeverWedged /\ Environment => NeverWedged'
<1> SUFFICES ASSUME TypeOK, NeverWedged, Environment PROVE NeverWedged'
  OBVIOUS
<1>1. ASSUME NEW g \in BOOLEAN, SubmitScreen(g) PROVE NeverWedged'
  BY <1>1, WedgedBegin, WedgedKept DEF SubmitScreen, Surfaces
<1>2. ASSUME NEW g \in BOOLEAN, SubmitDialog(g) PROVE NeverWedged'
  BY <1>2, WedgedBegin DEF SubmitDialog, Surfaces
<1>3. CASE Biometric
  BY <1>3 DEF TypeOK, ControlTypes, NeverWedged, Biometric, NextState
<1>4. CASE TickerDecides
  BY <1>4, WedgedKept DEF TickerDecides
<1>5. CASE IdleTimer \/ SystemLock
  BY <1>5, WedgedKept, WedgedSettles DEF IdleTimer, SystemLock, TriggerLock, NoTrigger
<1> QED
  BY <1>1, <1>2, <1>3, <1>4, <1>5 DEF Environment

\* Every step keeps NeverWedged.
LEMMA WedgedNext == TypeOK /\ NeverWedged /\ [Next]_vars => NeverWedged'
<1> SUFFICES ASSUME TypeOK, NeverWedged, [Next]_vars PROVE NeverWedged'
  OBVIOUS
<1>1. CASE Deliver
  BY <1>1, WedgedKept, WedgedSettles DEF Deliver, OnLocked, OnCascadeReady, OnAutoLockLocked,
    TriggerLock, NoTrigger
<1>2. CASE Surface
  <2>1. CASE ScreenReply \/ BootWaited \/ BootTimesOut
    BY <2>1, WedgedKept DEF ScreenReply, BootWaited, BootTimesOut
  <2>2. CASE DialogReply
    BY <2>2, WedgedKept, WedgedSettles DEF DialogReply
  <2>3. CASE BootStart
    BY <2>3, WedgedKept, WedgedBegin DEF BootStart, Surfaces
  <2> QED
    BY <1>2, <2>1, <2>2, <2>3 DEF Surface
<1>3. CASE Reopen \/ AutoLock \/ CoolDown
  BY <1>3, WedgedKept DEF Reopen, ReopenAsk, ReopenOpen, ReopenSet, AutoLock, TickerLocks, Fire,
    DbClose, CoolDown
<1>4. CASE UNCHANGED vars
  BY <1>4, WedgedKept DEF vars
<1> QED
  BY <1>1, <1>2, <1>3, <1>4, WedgedOrchestrate, WedgedEnvironment DEF Next

\* The tier machine is Unlocking only while an orchestrator is still to
\* answer: no exit of the unlock functions of tier_unlock_orchestrator.rs,
\* and no lock in the middle of one, leaves it half-way.
THEOREM MachineNeverWedged == Spec => []NeverWedged
<1>1. Init => NeverWedged
  BY DEF Init, NeverWedged
<1> QED
  BY <1>1, TypeCorrect, WedgedNext, PTL DEF Spec
-----------------------------------------------------------------------------
(* LockedMeansClosed, ShownMeansOpen and OverlayAgrees speak of states in  *)
(* which nothing is in flight.  Story, their inductive invariant, tells    *)
(* what the states in between look like: the phases of the startup, and    *)
(* under the later ones the modes of the app (Shown, Dropping, Covered,    *)
(* Trying, Lifting, Lifted), each with what the machine, the handle, the   *)
(* key, the event queue and the overlay are while it lasts.                *)

\* Nothing went wrong but verifiers, key stores and the open inside a cascade.
Calm == odd \subseteq {"error"}

\* The surface s has no orchestrator call under way.
Idle(s) == att[s].pc = "idle"

\* fire_lock runs only for whoever took the lock of the auto-lock machine.
Taken == fire # "idle" => alLocked

\* The re-open has the key and is about to use it.
Reopening ==
    /\ key
    /\ reopen = "opening" \/ (reopen = "due" /\ active = "keyed")

\* The workspace is up over an open handle, over one that the ticker has
\* just closed and is about to say so, or over one that is to be re-opened.
Shown ==
    /\ ~overlay /\ machine = "Unlocked" /\ Idle("screen")
    /\ tierQ \in {<<>>, <<"ready_keyed">>}
    /\ db \/ fire = "publish" \/ lockEv \/ Reopening
    /\ closing = 0
    /\ Locking => tierQ = <<>> /\ reopen = "no"

\* No key, and no handle once the calls that close it are through.
Closed == ~key /\ (db => closing > 0)

\* Locked, with the overlay still to come.
Dropping ==
    /\ ~overlay /\ machine = "Locked" /\ Idle("screen")
    /\ tierQ = <<"locked">>
    /\ Closed /\ reopen = "no"

\* The lock screen is up and nobody is being verified.
Covered ==
    /\ overlay /\ machine = "Locked" /\ Idle("screen")
    /\ tierQ \in {<<>>, <<"locked">>}
    /\ Closed /\ reopen = "no"

\* An attempt of the lock screen is with its verifier.
Trying ==
    /\ overlay /\ machine = "Unlocking" /\ att["screen"].pc \in {"verify", "read"}
    /\ tierQ = <<>>
    /\ ~db /\ ~key /\ reopen = "no"
    /\ ~Locking

\* How far a cascade is, and what it has to carry on with.
Cascading(s) ==
    /\ key
    /\ att[s].pc = "open" \/ (att[s].pc \in {"opening", "publish"} /\ att[s].good)

\* The lock screen's attempt was granted and its cascade runs.
Lifting ==
    /\ overlay /\ machine = "Unlocked" /\ Cascading("screen")
    /\ tierQ = <<>>
    /\ reopen = "no"
    /\ ~Locking

\* The cascade is done and the overlay still up.
Lifted ==
    /\ overlay /\ machine = "Unlocked" /\ Idle("screen")
    /\ tierQ = <<"ready_keyed">>
    /\ key /\ reopen = "no"
    /\ ~Locking

\* Where an app is that has had its first outcome.
Mode == Shown \/ Dropping \/ Covered \/ Trying \/ Lifting \/ Lifted

\* The startup up to the outcome of the dialog's own attempt.
Starting ==
    /\ boot \in {"init", "dialog"} /\ reply["dialog"] = "none"
    /\ boot = "init" => Idle("dialog")
    /\ Idle("screen") /\ ~overlay /\ tierQ = <<>> /\ reopen = "no" /\ ~Locking
    /\ \/ Idle("dialog") /\ machine = "Locked" /\ ~db /\ ~key
       \/ /\ att["dialog"].pc \in {"verify", "read"} /\ att["dialog"].good
          /\ machine = "Unlocking" /\ ~db /\ ~key
       \/ Cascading("dialog") /\ machine = "Unlocked"

\* Unlocked without a lock screen, over a handle or over none.
Bare ==
    /\ ~overlay /\ machine = "Unlocked" /\ Idle("screen")
    /\ tierQ \in {<<>>, <<"ready_keyed">>}
    /\ reopen = "no" /\ ~Locking

\* The dialog's attempt was granted and its cascade is done.
Opened ==
    /\ \/ boot = "dialog" /\ reply["dialog"] = "staged"
       \/ boot = "waiting" /\ reply["dialog"] = "none"
    /\ Idle("dialog") /\ Bare

\* The dialog's attempt has failed and the lock screen comes up over it.
Failed ==
    /\ boot = "dialog" /\ reply["dialog"] = "error"
    /\ "error" \in odd
    /\ Idle("dialog") /\ Mode /\ ~Locking

\* The startup is done.
Started ==
    /\ boot = "ready" /\ reply["dialog"] = "none"
    /\ Idle("dialog") /\ Mode

\* A startup without a database is over for good.
Recovering ==
    /\ boot = "recovery" /\ reply["dialog"] = "none"
    /\ Idle("dialog") /\ ("error" \in odd \/ Bare)

\* As long as all is calm one of the five phases explains the state.
Story == Calm => Starting \/ Opened \/ Failed \/ Started \/ Recovering

\* The queues that occur here have at most one event.
LEMMA Queue ==
    /\ \A e : Append(<<>>, e) = <<e>> /\ Head(<<e>>) = e /\ Tail(<<e>>) = <<>> /\ <<e>> # <<>>
    /\ <<"locked">> # <<"ready_keyed">>
  OBVIOUS

\* The ticker's second step starts fire_lock or finds the lock taken.
LEMMA StoryTickerLocks ==
    ASSUME TypeOK, Taken, Story, TickerLocks
    PROVE  Story'
<1> SUFFICES ASSUME Calm, Calm' PROVE Story'
  BY DEF Story, Calm, TickerLocks, history
<1>1. CASE Starting
  BY <1>1 DEF Story, Starting, Idle, Locking, TickerLocks
<1>2. CASE Opened
  BY <1>2 DEF Story, Opened, Bare, Idle, Locking, TickerLocks
<1>3. CASE Failed
  BY <1>3 DEF Story, Failed, Dropping, Idle, Locking, TickerLocks
<1>4. CASE Started
  <2>1. CASE Shown
    BY <1>4, <2>1 DEF Taken, Story, Started, Mode, Shown, Reopening, Idle, Locking,
        TickerLocks, dartVars, history
  <2>2. CASE Dropping \/ Covered
    BY <1>4, <2>2 DEF Story, Started, Mode, Dropping, Covered, Closed, Idle, TickerLocks,
        dartVars, history
  <2>3. CASE Trying \/ Lifting \/ Lifted
    BY <2>3 DEF Trying, Lifting, Lifted, Locking, TickerLocks
  <2> QED
    BY <1>4, <2>1, <2>2, <2>3 DEF Started, Mode
<1>5. CASE Recovering
  BY <1>5 DEF Story, Recovering, Bare, Idle, Locking, TickerLocks, dartVars, history
<1> QED
  BY <1>1, <1>2, <1>3, <1>4, <1>5 DEF Story

\* fire_lock closes the handle under the workspace and owes the event.
LEMMA StoryFire ==
    ASSUME TypeOK, Story, Fire
    PROVE  Story'
<1> SUFFICES ASSUME Calm, Calm' PROVE Story'
  BY DEF Story, Calm, Fire, FireStep, history
<1>1. CASE Starting
  BY <1>1 DEF Story, Starting, Idle, Locking, Fire, FireStep
<1>2. CASE Opened
  BY <1>2 DEF Story, Opened, Bare, Idle, Locking, Fire, FireStep
<1>3. CASE Failed
  BY <1>3 DEF Story, Failed, Dropping, Idle, Locking, Fire, FireStep
<1>4. CASE Started
  BY <1>4 DEF Story, Started, Mode, Reopening, Closed, Shown, Dropping, Covered, Trying,
    Lifting, Lifted, Idle, Locking, Fire, FireStep, dartVars
<1>5. CASE Recovering
  BY <1>5 DEF Story, Recovering, Bare, Idle, Locking, Fire, FireStep, dartVars, history
<1> QED
  BY <1>1, <1>2, <1>3, <1>4, <1>5 DEF Story

\* A call that closes the handle gets through.
LEMMA StoryDbClose ==
    ASSUME TypeOK, Story, DbClose
    PROVE  Story'
<1> SUFFICES ASSUME Calm, Calm' PROVE Story'
  BY DEF Story, Calm, DbClose, history
<1>1. CASE Starting
  BY <1>1 DEF Story, Starting, Idle, Locking, DbClose
<1>2. CASE Opened
  BY <1>2 DEF Story, Opened, Bare, Idle, Locking, DbClose
<1>3. CASE Failed
  BY <1>3 DEF Story, Failed, Dropping, Idle, Locking, DbClose
<1>4. CASE Started
  BY <1>4 DEF Story, Started, Mode, Closed, Shown, Dropping, Covered, Trying, Lifting,
    Lifted, Idle, Locking, DbClose, dartVars
<1>5. CASE Recovering
  BY <1>5 DEF Story, Recovering, Bare, Idle, Locking, DbClose, dartVars, history
<1> QED
  BY <1>1, <1>2, <1>3, <1>4, <1>5 DEF Story

\* The end of a cooldown changes none of it.
LEMMA StoryCoolDown ==
    ASSUME TypeOK, Story, CoolDown
    PROVE  Story'
<1> SUFFICES ASSUME Calm, Calm' PROVE Story'
  BY DEF Story, Calm, CoolDown, history
<1>1. CASE Starting
  BY <1>1 DEF Story, Starting, Idle, Cascading, Locking, CoolDown, autoLockVars, dartVars
<1>2. CASE Opened
  BY <1>2 DEF Story, Opened, Bare, Idle, Locking, CoolDown, autoLockVars, dartVars
<1>3. CASE Failed
  BY <1>3 DEF Story, Failed, Mode, Reopening, Closed, Shown, Dropping, Covered, Trying,
    Lifting, Lifted, Cascading, Idle, Locking, CoolDown, autoLockVars, dartVars,
    history
<1>4. CASE Started
  BY <1>4 DEF Story, Started, Mode, Reopening, Closed, Shown, Dropping, Covered, Trying,
    Lifting, Lifted, Cascading, Idle, Locking, CoolDown, autoLockVars, dartVars
<1>5. CASE Recovering
  BY <1>5 DEF Story, Recovering, Bare, Idle, Locking, CoolDown, autoLockVars, dartVars,
    history
<1> QED
  BY <1>1, <1>2, <1>3, <1>4, <1>5 DEF Story

\* A decision of the ticker that crosses nothing falls on Shown or on Covered.
LEMMA StoryTickerDecides ==
    ASSUME TypeOK, Story, TickerDecides
    PROVE  Story'
<1> SUFFICES ASSUME Calm, Calm' PROVE Story'
  BY DEF Story, Calm, TickerDecides, Trigger, InFlight, AutoLockOn
<1>1. CASE Starting
  BY <1>1 DEF Story, Starting, Idle, TickerDecides, Trigger, InFlight, AutoLockOn
<1>2. CASE Opened
  BY <1>2 DEF Story, Opened, Idle, TickerDecides, Trigger, InFlight, AutoLockOn
<1>3. CASE Failed
  BY <1>3 DEF Story, Failed, Dropping, Idle, TickerDecides, Trigger, InFlight, AutoLockOn
<1>4. CASE Started
  BY <1>4 DEF Story, Started, Mode, Reopening, Closed, Shown, Dropping, Covered, Trying,
    Lifting, Lifted, Cascading, Idle, Calm, TypeOK, AttemptTypes, Surfaces,
    TickerDecides, Trigger, InFlight, AutoLockOn, dartVars
<1>5. CASE Recovering
  BY <1>5 DEF Story, Recovering, Idle, TickerDecides, Trigger, InFlight, AutoLockOn
<1> QED
  BY <1>1, <1>2, <1>3, <1>4, <1>5 DEF Story

\* The idle timer takes Shown to Dropping.
LEMMA StoryIdleTimer ==
    ASSUME TypeOK, Story, IdleTimer
    PROVE  Story'
<1> SUFFICES ASSUME Calm, Calm' PROVE Story'
  BY DEF Story, Calm, IdleTimer, Trigger, InFlight, TriggerLock, Dispatch, NextState, AutoLockOn
<1>1. CASE Starting
  BY <1>1 DEF Story, Starting, Idle, IdleTimer, Trigger, InFlight, TriggerLock, Dispatch,
    NextState, AutoLockOn
<1>2. CASE Opened
  BY <1>2 DEF Story, Opened, Idle, IdleTimer, Trigger, InFlight, TriggerLock, Dispatch,
    NextState, AutoLockOn
<1>3. CASE Failed
  BY <1>3 DEF Story, Failed, Dropping, Idle, IdleTimer, Trigger, InFlight, TriggerLock,
    Dispatch, NextState, AutoLockOn
<1>4. CASE Started
  <2>1. Shown /\ tierQ = <<>> /\ reopen = "no" /\ TriggerLock
    BY <1>4, Queue DEF Started, Mode, Dropping, Covered, Trying, Lifting, Lifted, Calm,
    IdleTimer, Trigger, InFlight, TriggerLock
  <2>2. Dropping'
    <3>1. closing' > 0
      BY <2>1 DEF TypeOK, CountTypes, TriggerLock
    <3>2. tierQ' = <<"locked">> /\ machine' = "Locked"
      BY <2>1, Queue DEF Shown, Dropping, TriggerLock, Dispatch, NextState
    <3> QED
      BY <2>1, <3>1, <3>2 DEF Shown, Dropping, Closed, Idle, TriggerLock
  <2> QED
    BY <1>4, <2>1, <2>2 DEF Story, Started, Mode, Idle, TriggerLock
<1>5. CASE Recovering
  BY <1>5 DEF Story, Recovering, Idle, IdleTimer, Trigger, InFlight, TriggerLock, Dispatch,
    NextState, AutoLockOn
<1> QED
  BY <1>1, <1>2, <1>3, <1>4, <1>5 DEF Story

\* So does a lock of the system, with its command to the auto-lock.
LEMMA StorySystemLock ==
    ASSUME TypeOK, Story, SystemLock
    PROVE  Story'
<1> SUFFICES ASSUME Calm, Calm' PROVE Story'
  BY DEF Story, Calm, SystemLock, RequestLock, Trigger, InFlight, TriggerLock, NoTrigger,
      Dispatch, NextState
<1>1. CASE Starting
  BY <1>1 DEF Story, Starting, Idle, Calm, SystemLock, RequestLock, Trigger, InFlight,
    TriggerLock, Dispatch, NextState
<1>2. CASE Opened
  BY <1>2 DEF Story, Opened, Idle, Calm, SystemLock, RequestLock, Trigger, InFlight,
    TriggerLock, Dispatch, NextState
<1>3. CASE Failed
  BY <1>3 DEF Story, Failed, Dropping, Idle, Calm, SystemLock, RequestLock, Trigger,
    InFlight, TriggerLock, Dispatch, NextState
<1>4. CASE Started
  <2>1. tierQ = <<>> /\ reopen = "no" /\ (\A s \in Surfaces : att[s].pc = "idle")
    BY DEF Calm, SystemLock, Trigger, InFlight
  <2>2. CASE overlay
    <3>1. Covered
      BY <1>4, <2>1, <2>2, Queue DEF Started, Mode, Shown, Dropping, Trying, Lifting,
          Lifted, Cascading, Surfaces
    <3> QED
      BY <1>4, <2>1, <2>2, <3>1 DEF Story, Started, Mode, Covered, Closed, Idle, SystemLock,
          NoTrigger, dartVars
  <2>3. CASE ~overlay
    <3>1. Shown /\ TriggerLock
      BY <1>4, <2>1, <2>3, Queue DEF Started, Mode, Dropping, Covered, Trying, Lifting,
          Lifted, SystemLock
    <3>2. Dropping'
      <4>1. closing' > 0
        BY <3>1 DEF TypeOK, CountTypes, TriggerLock
      <4>2. tierQ' = <<"locked">> /\ machine' = "Locked"
        BY <2>1, <3>1, Queue DEF Shown, Dropping, TriggerLock, Dispatch, NextState
      <4> QED
        BY <2>1, <3>1, <4>1, <4>2 DEF Shown, Dropping, Closed, Idle, TriggerLock
    <3> QED
      BY <1>4, <3>1, <3>2 DEF Story, Started, Mode, Idle, TriggerLock
  <2> QED
    BY <2>2, <2>3
<1>5. CASE Recovering
  BY <1>5 DEF Story, Recovering, Idle, Calm, SystemLock, RequestLock, Trigger, InFlight,
    TriggerLock, Dispatch, NextState
<1> QED
  BY <1>1, <1>2, <1>3, <1>4, <1>5 DEF Story

\* The event of fire_lock takes Shown to Dropping, and is late in the other modes.
LEMMA StoryOnAutoLockLocked ==
    ASSUME TypeOK, Story, OnAutoLockLocked
    PROVE  Story'
<1> SUFFICES ASSUME Calm, Calm' PROVE Story'
  BY DEF Story, Calm, OnAutoLockLocked, NoTrigger, TriggerLock, Dispatch, NextState, history
<1>1. CASE Starting
  BY <1>1 DEF Story, Starting, Idle, Locking, OnAutoLockLocked, TriggerLock, Dispatch,
    NextState
<1>2. CASE Opened
  BY <1>2 DEF Story, Opened, Bare, Idle, Locking, OnAutoLockLocked, TriggerLock, Dispatch,
    NextState
<1>3. CASE Failed
  BY <1>3 DEF Story, Failed, Dropping, Idle, Locking, OnAutoLockLocked, TriggerLock,
    Dispatch, NextState
<1>4. CASE Started
  <2>1. Shown \/ Dropping \/ Covered
    BY <1>4 DEF Started, Mode, Trying, Lifting, Lifted, Locking, OnAutoLockLocked
  <2>2. CASE overlay
    <3>1. Covered
      BY <2>1, <2>2 DEF Shown, Dropping
    <3> QED
      BY <1>4, <2>2, <3>1 DEF Story, Started, Mode, Covered, Closed, Idle, OnAutoLockLocked,
          NoTrigger, dartVars
  <2>3. CASE ~overlay
    <3>1. TriggerLock /\ ((Shown /\ tierQ = <<>> /\ reopen = "no") \/ Dropping)
      BY <2>1, <2>3 DEF Shown, Covered, Locking, OnAutoLockLocked
    <3>2. Dropping'
      <4>1. closing' > 0
        BY <3>1 DEF TypeOK, CountTypes, TriggerLock
      <4>2. tierQ' = <<"locked">> /\ machine' = "Locked"
        BY <3>1, Queue DEF Shown, Dropping, TriggerLock, Dispatch, NextState
      <4> QED
        BY <3>1, <4>1, <4>2 DEF Shown, Dropping, Closed, Idle, TriggerLock
    <3> QED
      BY <1>4, <3>1, <3>2 DEF Story, Started, Mode, Idle, TriggerLock
  <2> QED
    BY <2>2, <2>3
<1>5. CASE Recovering
  BY <1>5 DEF Story, Recovering, Bare, Idle, Locking, OnAutoLockLocked, NoTrigger,
    TriggerLock, Dispatch, NextState, dartVars, history
<1> QED
  BY <1>1, <1>2, <1>3, <1>4, <1>5 DEF Story

\* The event of a lock takes Dropping to Covered.
LEMMA StoryOnLocked ==
    ASSUME TypeOK, Story, OnLocked
    PROVE  Story'
<1> SUFFICES ASSUME Calm, Calm' PROVE Story'
  BY DEF Story, Calm, OnLocked
<1>1. CASE Starting
  BY <1>1 DEF Story, Starting, Idle, OnLocked
<1>2. CASE Opened
  BY <1>2 DEF Story, Opened, Bare, Idle, OnLocked
<1>3. CASE Failed
  BY <1>3, Queue DEF Story, Failed, Mode, Closed, Shown, Dropping, Covered, Trying, Lifting,
    Lifted, Idle, Locking, OnLocked, autoLockVars
<1>4. CASE Started
  BY <1>4, Queue DEF Story, Started, Mode, Closed, Shown, Dropping, Covered, Trying, Lifting,
    Lifted, Idle, OnLocked
<1>5. CASE Recovering
  BY <1>5 DEF Story, Recovering, Bare, Idle, OnLocked
<1> QED
  BY <1>1, <1>2, <1>3, <1>4, <1>5 DEF Story

\* The terminal event of a cascade takes Lifted to Shown.
LEMMA StoryOnCascadeReady ==
    ASSUME TypeOK, Story, OnCascadeReady
    PROVE  Story'
<1> SUFFICES ASSUME Calm, Calm' PROVE Story'
  BY DEF Story, Calm, OnCascadeReady
<1>1. CASE Starting
  BY <1>1 DEF Story, Starting, Idle, OnCascadeReady
<1>2. CASE Opened
  BY <1>2, Queue DEF Story, Opened, Bare, Idle, Locking, OnCascadeReady, autoLockVars
<1>3. CASE Failed
  <2>1. tierQ = <<"ready_keyed">> /\ ~Locking /\ active' = "keyed" /\ (Shown \/ Lifted)
    BY <1>3, Queue DEF Failed, Mode, Shown, Dropping, Covered, Trying, Lifting, Lifted,
        Calm, OnCascadeReady
  <2>2. closing = 0
    BY <2>1 DEF Locking, TypeOK, CountTypes
  <2>3. ~Locking'
    BY <2>1 DEF Locking, OnCascadeReady, autoLockVars
  <2>4. Shown'
    <3>1. tierQ' = <<>> /\ ~overlay' /\ UNCHANGED <<machine, key, db, closing, att, fire, lockEv>>
      BY <2>1, Queue DEF OnCascadeReady, autoLockVars
    <3>2. db' \/ fire' = "publish" \/ lockEv' \/ Reopening'
      BY <2>1, <3>1 DEF Shown, Lifted, Reopening, OnCascadeReady
    <3> QED
      BY <2>1, <2>2, <2>3, <3>1, <3>2 DEF Shown, Lifted, Idle
  <2> QED
    BY <1>3, <2>3, <2>4 DEF Story, Failed, Mode, Idle, OnCascadeReady
<1>4. CASE Started
  <2>1. tierQ = <<"ready_keyed">> /\ ~Locking /\ active' = "keyed" /\ (Shown \/ Lifted)
    BY <1>4, Queue DEF Started, Mode, Shown, Dropping, Covered, Trying, Lifting, Lifted,
        Calm, OnCascadeReady
  <2>2. closing = 0
    BY <2>1 DEF Locking, TypeOK, CountTypes
  <2>3. ~Locking'
    BY <2>1 DEF Locking, OnCascadeReady, autoLockVars
  <2>4. Shown'
    <3>1. tierQ' = <<>> /\ ~overlay' /\ UNCHANGED <<machine, key, db, closing, att, fire, lockEv>>
      BY <2>1, Queue DEF OnCascadeReady, autoLockVars
    <3>2. db' \/ fire' = "publish" \/ lockEv' \/ Reopening'
      BY <2>1, <3>1 DEF Shown, Lifted, Reopening, OnCascadeReady
    <3> QED
      BY <2>1, <2>2, <2>3, <3>1, <3>2 DEF Shown, Lifted, Idle
  <2> QED
    BY <1>4, <2>3, <2>4 DEF Story, Started, Mode, Idle, OnCascadeReady
<1>5. CASE Recovering
  <2>1. "error" \in odd' \/ Bare'
    <3>1. CASE "error" \in odd
      BY <3>1 DEF OnCascadeReady
    <3>2. CASE Bare
      BY <3>2, Queue DEF Bare, Idle, Locking, OnCascadeReady, autoLockVars
    <3> QED
      BY <1>5, <3>1, <3>2 DEF Recovering
  <2> QED
    BY <1>5, <2>1 DEF Story, Recovering, Idle, OnCascadeReady
<1> QED
  BY <1>1, <1>2, <1>3, <1>4, <1>5 DEF Story

\* An outcome that reaches the lock screen changes no mode.
LEMMA StoryScreenReply ==
    ASSUME TypeOK, Story, ScreenReply
    PROVE  Story'
<1> SUFFICES ASSUME Calm, Calm' PROVE Story'
  BY DEF Story, Calm, ScreenReply, history
<1>1. CASE Starting
  BY <1>1 DEF Story, Starting, Idle, Cascading, Locking, ScreenReply, autoLockVars
<1>2. CASE Opened
  BY <1>2 DEF Story, Opened, Bare, Idle, Locking, ScreenReply, autoLockVars
<1>3. CASE Failed
  BY <1>3 DEF Story, Failed, Mode, Reopening, Closed, Shown, Dropping, Covered, Trying,
    Lifting, Lifted, Cascading, Idle, Locking, ScreenReply, autoLockVars,
    history
<1>4. CASE Started
  BY <1>4 DEF Story, Started, Mode, Reopening, Closed, Shown, Dropping, Covered, Trying,
    Lifting, Lifted, Cascading, Idle, Locking, ScreenReply, autoLockVars
<1>5. CASE Recovering
  BY <1>5 DEF Story, Recovering, Bare, Idle, Locking, ScreenReply, autoLockVars, history
<1> QED
  BY <1>1, <1>2, <1>3, <1>4, <1>5 DEF Story

\* The outcome of the dialog ends the startup, in the recovery when nothing is open.
LEMMA StoryDialogReply ==
    ASSUME TypeOK, Story, DialogReply
    PROVE  Story'
<1> SUFFICES ASSUME Calm, Calm' PROVE Story'
  BY DEF Story, Calm, DialogReply, Dispatch, NextState, Fallback, Probe, history
<1>1. CASE Starting
  BY <1>1 DEF Story, Starting, Idle, DialogReply, Dispatch, NextState
<1>2. CASE Opened
  BY <1>2 DEF Story, Opened, Bare, Idle, Locking, TypeOK, AttemptTypes, Surfaces,
    DialogReply, Dispatch, NextState, autoLockVars
<1>3. CASE Failed
  BY <1>3 DEF Story, Failed, Mode, Closed, Shown, Dropping, Covered, Trying, Lifting,
    Lifted, Cascading, Idle, Locking, Started, Recovering, TypeOK, AttemptTypes,
    Surfaces, DialogReply, Dispatch, NextState, Fallback, Probe, autoLockVars,
    history
<1>4. CASE Started
  BY <1>4 DEF Story, Started, Dropping, Idle, DialogReply, Dispatch, NextState
<1>5. CASE Recovering
  BY <1>5 DEF Story, Recovering, Idle, DialogReply, Dispatch, NextState
<1> QED
  BY <1>1, <1>2, <1>3, <1>4, <1>5 DEF Story

\* The startup begins, on the keychain tier with its attempt.
LEMMA StoryBootStart ==
    ASSUME TypeOK, Story, BootStart
    PROVE  Story'
<1> SUFFICES ASSUME Calm, Calm' PROVE Story'
  BY DEF Story, Calm, BootStart, Begin, NextState, history
<1>1. CASE Starting
  BY <1>1 DEF Story, Starting, Idle, Cascading, Locking, TypeOK, AttemptTypes, Surfaces,
    BootStart, Begin, NextState, autoLockVars
<1>2. CASE Opened
  BY <1>2 DEF Story, Opened, Idle, BootStart, Begin, NextState
<1>3. CASE Failed
  BY <1>3 DEF Story, Failed, Dropping, Idle, BootStart, Begin, NextState
<1>4. CASE Started
  BY <1>4 DEF Story, Started, Dropping, Idle, BootStart, Begin, NextState
<1>5. CASE Recovering
  BY <1>5 DEF Story, Recovering, Idle, BootStart, Begin, NextState
<1> QED
  BY <1>1, <1>2, <1>3, <1>4, <1>5 DEF Story

\* The startup ends: over the database that its attempt has opened, or in the recovery.
LEMMA StoryBootWaited ==
    ASSUME TypeOK, Story, BootWaited
    PROVE  Story'
<1> SUFFICES ASSUME Calm, Calm' PROVE Story'
  BY DEF Story, Calm, BootWaited, GivesUp, Fallback, Probe, history
<1>1. CASE Starting
  BY <1>1 DEF Story, Starting, Idle, BootWaited
<1>2. CASE Opened
  <2>1. boot' = IF db THEN "ready" ELSE "recovery"
    BY DEF BootWaited, GivesUp, Fallback, Probe
  <2>2. closing = 0
    BY <1>2 DEF Opened, Bare, Locking, TypeOK, CountTypes
  <2>3. /\ Bare' /\ reply'["dialog"] = "none" /\ Idle("dialog")'
        /\ UNCHANGED <<db, closing>>
    BY <1>2 DEF Opened, Bare, Idle, Locking, BootWaited, autoLockVars
  <2>4. CASE db
    BY <2>1, <2>2, <2>3, <2>4 DEF Story, Started, Mode, Shown, Bare
  <2>5. CASE ~db
    BY <2>1, <2>3, <2>5 DEF Story, Recovering
  <2> QED
    BY <2>4, <2>5
<1>3. CASE Failed
  BY <1>3 DEF Story, Failed, Dropping, Idle, BootWaited
<1>4. CASE Started
  BY <1>4 DEF Story, Started, Dropping, Idle, BootWaited
<1>5. CASE Recovering
  BY <1>5 DEF Story, Recovering, Idle, BootWaited
<1> QED
  BY <1>1, <1>2, <1>3, <1>4, <1>5 DEF Story

\* A wait that times out is not calm.
LEMMA StoryBootTimesOut ==
    ASSUME BootTimesOut
    PROVE  Story'
  BY DEF Story, Calm, BootTimesOut

\* The re-open is asked for over the workspace.
LEMMA StoryReopenAsk ==
    ASSUME TypeOK, Story, ReopenAsk
    PROVE  Story'
<1> SUFFICES ASSUME Calm, Calm' PROVE Story'
  BY DEF Story, Calm, ReopenAsk, history
<1>1. CASE Starting
  BY <1>1 DEF Story, Starting, Idle, ReopenAsk
<1>2. CASE Opened
  BY <1>2 DEF Story, Opened, Bare, Idle, ReopenAsk
<1>3. CASE Failed
  BY <1>3 DEF Story, Failed, Mode, Reopening, Shown, Dropping, Covered, Trying, Lifting,
    Lifted, Idle, Locking, ReopenAsk, autoLockVars, history
<1>4. CASE Started
  BY <1>4 DEF Story, Started, Mode, Reopening, Shown, Dropping, Covered, Trying, Lifting,
    Lifted, Idle, Locking, ReopenAsk, autoLockVars
<1>5. CASE Recovering
  BY <1>5 DEF Story, Recovering, Bare, Idle, ReopenAsk, history
<1> QED
  BY <1>1, <1>2, <1>3, <1>4, <1>5 DEF Story

\* The re-open opens the handle, or fails to and had better have one.
LEMMA StoryReopenOpen ==
    ASSUME TypeOK, Story, ReopenOpen
    PROVE  Story'
<1> SUFFICES ASSUME Calm, Calm' PROVE Story'
  BY DEF Story, Calm, ReopenOpen
<1>1. CASE Starting
  BY <1>1 DEF Story, Starting, Idle, ReopenOpen
<1>2. CASE Opened
  BY <1>2 DEF Story, Opened, Bare, Idle, ReopenOpen
<1>3. CASE Failed
  <2>1. Shown /\ reopen = "opening" /\ tierQ \in {<<>>, <<"ready_keyed">>}
    BY <1>3 DEF Failed, Mode, Shown, Dropping, Covered, Trying, Lifting, Lifted, ReopenOpen
  <2>2. db' /\ reopen' = "set"
    BY DEF Calm, ReopenOpen
  <2>3. ~Locking' /\ Shown'
    BY <1>3, <2>1, <2>2 DEF Failed, Shown, Idle, Locking, ReopenOpen, autoLockVars
  <2> QED
    BY <1>3, <2>3 DEF Story, Failed, Mode, Idle, ReopenOpen, autoLockVars
<1>4. CASE Started
  BY <1>4 DEF Story, Started, Mode, Shown, Dropping, Covered, Trying, Lifting, Lifted,
    Idle, Locking, Calm, ReopenOpen, autoLockVars
<1>5. CASE Recovering
  BY <1>5 DEF Story, Recovering, Bare, Idle, ReopenOpen
<1> QED
  BY <1>1, <1>2, <1>3, <1>4, <1>5 DEF Story

\* The re-open is done.
LEMMA StoryReopenSet ==
    ASSUME TypeOK, Story, ReopenSet
    PROVE  Story'
<1> SUFFICES ASSUME Calm, Calm' PROVE Story'
  BY DEF Story, Calm, ReopenSet, history
<1>1. CASE Starting
  BY <1>1 DEF Story, Starting, Idle, ReopenSet
<1>2. CASE Opened
  BY <1>2 DEF Story, Opened, Bare, Idle, ReopenSet
<1>3. CASE Failed
  BY <1>3 DEF Story, Failed, Mode, Reopening, Shown, Dropping, Covered, Trying, Lifting,
    Lifted, Idle, Locking, ReopenSet, autoLockVars, history
<1>4. CASE Started
  BY <1>4 DEF Story, Started, Mode, Reopening, Shown, Dropping, Covered, Trying, Lifting,
    Lifted, Idle, Locking, ReopenSet, autoLockVars
<1>5. CASE Recovering
  BY <1>5 DEF Story, Recovering, Bare, Idle, ReopenSet, history
<1> QED
  BY <1>1, <1>2, <1>3, <1>4, <1>5 DEF Story

\* The biometric vault goes straight to the cascade.
LEMMA StoryBiometric ==
    ASSUME TypeOK, Story, Biometric
    PROVE  Story'
<1> SUFFICES ASSUME Calm, Calm' PROVE Story'
  BY DEF Story, Calm, Biometric, Attempt, DialogOpen, NextState
<1>1. CASE Starting
  BY <1>1 DEF Story, Starting, Idle, Cascading, Locking, TypeOK, AttemptTypes, Surfaces,
    Biometric, Attempt, DialogOpen, NextState, autoLockVars, dartVars
<1>2. CASE Opened
  BY <1>2 DEF Story, Opened, Idle, Biometric, Attempt, DialogOpen, NextState
<1>3. CASE Failed
  BY <1>3 DEF Story, Failed, Dropping, Idle, Biometric, Attempt, DialogOpen, NextState
<1>4. CASE Started
  BY <1>4 DEF Story, Started, Dropping, Idle, Biometric, Attempt, DialogOpen, NextState
<1>5. CASE Recovering
  BY <1>5 DEF Story, Recovering, Idle, Biometric, Attempt, DialogOpen, NextState
<1> QED
  BY <1>1, <1>2, <1>3, <1>4, <1>5 DEF Story

\* An attempt of the lock screen takes Covered to Trying.
LEMMA StorySubmitScreen ==
    ASSUME TypeOK, Story, NEW g \in BOOLEAN, SubmitScreen(g)
    PROVE  Story'
<1> SUFFICES ASSUME Calm, Calm' PROVE Story'
  BY DEF Story, Calm, SubmitScreen, Attempt, Begin, NextState
<1>1. CASE Starting
  BY <1>1 DEF Story, Starting, Idle, SubmitScreen, Attempt, Begin, NextState
<1>2. CASE Opened
  BY <1>2 DEF Story, Opened, Bare, Idle, SubmitScreen, Attempt, Begin, NextState
<1>3. CASE Failed
  BY <1>3 DEF Story, Failed, Mode, Closed, Shown, Dropping, Covered, Trying, Lifting,
    Lifted, Cascading, Idle, Locking, TypeOK, AttemptTypes, Surfaces,
    SubmitScreen, Attempt, Begin, NextState, autoLockVars
<1>4. CASE Started
  <2>1. Covered /\ tierQ = <<>> /\ ~Locking
    BY <1>4 DEF Started, Mode, Shown, Dropping, Trying, Lifting, Lifted, Idle, Cascading, Calm,
    SubmitScreen, Attempt, Begin
  <2>2. CASE cool
    BY <1>4, <2>1, <2>2 DEF Story, Started, Mode, Covered, Closed, Idle, TypeOK,
        AttemptTypes, Surfaces, SubmitScreen
  <2>3. CASE ~cool
    <3>1. /\ att'["screen"].pc = "verify" /\ att'["dialog"] = att["dialog"]
          /\ machine' = "Unlocking"
      BY <2>1, <2>3 DEF Covered, TypeOK, AttemptTypes, Surfaces, SubmitScreen, Begin, NextState
    <3>2. Trying'
      BY <2>1, <2>3, <3>1 DEF Covered, Closed, Trying, Locking, SubmitScreen, autoLockVars
    <3> QED
      BY <1>4, <2>3, <3>1, <3>2 DEF Story, Started, Mode, Idle, SubmitScreen
  <2> QED
    BY <2>2, <2>3
<1>5. CASE Recovering
  BY <1>5 DEF Story, Recovering, Bare, Idle, TypeOK, AttemptTypes, Surfaces, SubmitScreen,
    Attempt, Begin, NextState
<1> QED
  BY <1>1, <1>2, <1>3, <1>4, <1>5 DEF Story

\* An attempt of the startup dialog, with the right secret as long as all is calm.
LEMMA StorySubmitDialog ==
    ASSUME TypeOK, Story, NEW g \in BOOLEAN, SubmitDialog(g)
    PROVE  Story'
<1> SUFFICES ASSUME Calm, Calm' PROVE Story'
  BY DEF Story, Calm, SubmitDialog, Attempt, DialogOpen, Begin, NextState
<1>1. CASE Starting
  BY <1>1 DEF Story, Starting, Idle, Cascading, Locking, Calm, TypeOK, AttemptTypes,
    Surfaces, SubmitDialog, Attempt, DialogOpen, Begin, NextState, autoLockVars,
    dartVars
<1>2. CASE Opened
  BY <1>2 DEF Story, Opened, Idle, SubmitDialog, Attempt, DialogOpen, Begin, NextState
<1>3. CASE Failed
  BY <1>3 DEF Story, Failed, Dropping, Idle, SubmitDialog, Attempt, DialogOpen, Begin,
    NextState
<1>4. CASE Started
  BY <1>4 DEF Story, Started, Dropping, Idle, SubmitDialog, Attempt, DialogOpen, Begin,
    NextState
<1>5. CASE Recovering
  BY <1>5 DEF Story, Recovering, Idle, SubmitDialog, Attempt, DialogOpen, Begin, NextState
<1> QED
  BY <1>1, <1>2, <1>3, <1>4, <1>5 DEF Story

\* The verifier takes Starting on, or to Failed, and Trying to Lifting or to Covered.
LEMMA StoryVerify ==
    ASSUME TypeOK, Story, NEW s \in Surfaces, Verify(s)
    PROVE  Story'
<1> SUFFICES ASSUME Calm, Calm' PROVE Story'
  BY DEF Story, Calm, Verify, Verifier, Grant, Refuse, Dispatch, NextState, Quiet
<1>1. CASE Starting
  BY <1>1 DEF Story, Starting, Idle, Cascading, Locking, Failed, Mode, Dropping, Closed,
    TypeOK, AttemptTypes, Surfaces, Verify, Verifier, Grant, Refuse, Dispatch,
    NextState, Quiet, autoLockVars, dartVars
<1>2. CASE Opened
  BY <1>2 DEF Story, Opened, Bare, Idle, TypeOK, AttemptTypes, Surfaces, Verify, Verifier,
    Grant, Refuse, Dispatch, NextState, Quiet
<1>3. CASE Failed
  <2>1. s = "screen" /\ Trying
    BY <1>3 DEF Failed, Mode, Shown, Dropping, Covered, Lifting, Lifted, Idle, Cascading,
        Surfaces, Verify
  <2>2. Failed' => Story'
    BY DEF Story
  <2>3. /\ boot' = boot /\ reply'["dialog"] = reply["dialog"] /\ att'["dialog"] = att["dialog"]
        /\ UNCHANGED <<overlay, reopen, db, closing, due, fire, lockEv>> /\ odd \subseteq odd'
    BY <2>1 DEF TypeOK, AttemptTypes, Surfaces, Verify, Grant, Refuse, autoLockVars, dartVars
  <2>4. CASE att' = [att EXCEPT ![s].pc = "read"] /\ UNCHANGED <<machine, key, tierQ>>
    <3>1. Trying'
      BY <2>1, <2>3, <2>4 DEF Trying, Locking, TypeOK, AttemptTypes, Surfaces
    <3> QED
      BY <1>3, <2>2, <2>3, <3>1 DEF Failed, Mode, Idle, Locking
  <2>5. CASE Grant(s)
    <3>1. Lifting'
      BY <2>1, <2>3, <2>5 DEF Trying, Lifting, Cascading, Locking, TypeOK, AttemptTypes,
          Surfaces, Grant, Dispatch, NextState
    <3> QED
      BY <1>3, <2>2, <2>3, <3>1 DEF Failed, Mode, Idle, Locking
  <2>6. CASE UNCHANGED key /\ \E r \in {"wrong", "error"} : Refuse(s, r)
    <3>1. Covered'
      BY <2>1, <2>3, <2>6, Queue DEF Trying, Covered, Closed, Idle, TypeOK, AttemptTypes,
          Surfaces, Refuse, Dispatch, NextState, Quiet
    <3> QED
      BY <1>3, <2>2, <2>3, <3>1 DEF Failed, Mode, Idle, Locking
  <2> QED
    BY <2>4, <2>5, <2>6 DEF Verify
<1>4. CASE Started
  <2>1. s = "screen" /\ Trying
    BY <1>4 DEF Started, Mode, Shown, Dropping, Covered, Lifting, Lifted, Idle, Cascading,
        Surfaces, Verify
  <2>2. Started' => Story'
    BY DEF Story
  <2>3. /\ boot' = boot /\ reply'["dialog"] = reply["dialog"] /\ att'["dialog"] = att["dialog"]
        /\ UNCHANGED <<overlay, reopen, db, closing, due, fire, lockEv>> /\ odd \subseteq odd'
    BY <2>1 DEF TypeOK, AttemptTypes, Surfaces, Verify, Grant, Refuse, autoLockVars, dartVars
  <2>4. CASE att' = [att EXCEPT ![s].pc = "read"] /\ UNCHANGED <<machine, key, tierQ>>
    <3>1. Trying'
      BY <2>1, <2>3, <2>4 DEF Trying, Locking, TypeOK, AttemptTypes, Surfaces
    <3> QED
      BY <1>4, <2>2, <2>3, <3>1 DEF Started, Mode, Idle, Locking
  <2>5. CASE Grant(s)
    <3>1. Lifting'
      BY <2>1, <2>3, <2>5 DEF Trying, Lifting, Cascading, Locking, TypeOK, AttemptTypes,
          Surfaces, Grant, Dispatch, NextState
    <3> QED
      BY <1>4, <2>2, <2>3, <3>1 DEF Started, Mode, Idle, Locking
  <2>6. CASE UNCHANGED key /\ \E r \in {"wrong", "error"} : Refuse(s, r)
    <3>1. Covered'
      BY <2>1, <2>3, <2>6, Queue DEF Trying, Covered, Closed, Idle, TypeOK, AttemptTypes,
          Surfaces, Refuse, Dispatch, NextState, Quiet
    <3> QED
      BY <1>4, <2>2, <2>3, <3>1 DEF Started, Mode, Idle, Locking
  <2> QED
    BY <2>4, <2>5, <2>6 DEF Verify
<1>5. CASE Recovering
  BY <1>5 DEF Story, Recovering, Bare, Idle, TypeOK, AttemptTypes, Surfaces, Verify,
    Verifier, Grant, Refuse, Dispatch, NextState, Quiet, dartVars
<1> QED
  BY <1>1, <1>2, <1>3, <1>4, <1>5 DEF Story

\* So does the key store.
LEMMA StoryReadKey ==
    ASSUME TypeOK, Story, NEW s \in Surfaces, ReadKey(s)
    PROVE  Story'
<1> SUFFICES ASSUME Calm, Calm' PROVE Story'
  BY DEF Story, Calm, ReadKey, Grant, Refuse, Dispatch, NextState, Quiet
<1>1. CASE Starting
  BY <1>1 DEF Story, Starting, Idle, Cascading, Locking, Failed, Mode, Dropping, Closed,
    TypeOK, AttemptTypes, Surfaces, ReadKey, Grant, Refuse, Dispatch, NextState,
    Quiet, autoLockVars, dartVars
<1>2. CASE Opened
  BY <1>2 DEF Story, Opened, Bare, Idle, TypeOK, AttemptTypes, Surfaces, ReadKey, Grant,
    Refuse, Dispatch, NextState, Quiet
<1>3. CASE Failed
  <2>1. s = "screen" /\ Trying
    BY <1>3 DEF Failed, Mode, Shown, Dropping, Covered, Lifting, Lifted, Idle, Cascading,
        Surfaces, ReadKey
  <2>2. Failed' => Story'
    BY DEF Story
  <2>3. /\ boot' = boot /\ reply'["dialog"] = reply["dialog"] /\ att'["dialog"] = att["dialog"]
        /\ UNCHANGED <<overlay, reopen, db, closing, due, fire, lockEv>> /\ odd \subseteq odd'
    BY <2>1 DEF TypeOK, AttemptTypes, Surfaces, ReadKey, Grant, Refuse, autoLockVars, dartVars
  <2>5. CASE Grant(s)
    <3>1. Lifting'
      BY <2>1, <2>3, <2>5 DEF Trying, Lifting, Cascading, Locking, TypeOK, AttemptTypes,
          Surfaces, Grant, Dispatch, NextState
    <3> QED
      BY <1>3, <2>2, <2>3, <3>1 DEF Failed, Mode, Idle, Locking
  <2>6. CASE UNCHANGED key /\ \E r \in {"wrong", "error"} : Refuse(s, r)
    <3>1. Covered'
      BY <2>1, <2>3, <2>6, Queue DEF Trying, Covered, Closed, Idle, TypeOK, AttemptTypes,
          Surfaces, Refuse, Dispatch, NextState, Quiet
    <3> QED
      BY <1>3, <2>2, <2>3, <3>1 DEF Failed, Mode, Idle, Locking
  <2> QED
    BY <2>5, <2>6 DEF ReadKey
<1>4. CASE Started
  <2>1. s = "screen" /\ Trying
    BY <1>4 DEF Started, Mode, Shown, Dropping, Covered, Lifting, Lifted, Idle, Cascading,
        Surfaces, ReadKey
  <2>2. Started' => Story'
    BY DEF Story
  <2>3. /\ boot' = boot /\ reply'["dialog"] = reply["dialog"] /\ att'["dialog"] = att["dialog"]
        /\ UNCHANGED <<overlay, reopen, db, closing, due, fire, lockEv>> /\ odd \subseteq odd'
    BY <2>1 DEF TypeOK, AttemptTypes, Surfaces, ReadKey, Grant, Refuse, autoLockVars, dartVars
  <2>5. CASE Grant(s)
    <3>1. Lifting'
      BY <2>1, <2>3, <2>5 DEF Trying, Lifting, Cascading, Locking, TypeOK, AttemptTypes,
          Surfaces, Grant, Dispatch, NextState
    <3> QED
      BY <1>4, <2>2, <2>3, <3>1 DEF Started, Mode, Idle, Locking
  <2>6. CASE UNCHANGED key /\ \E r \in {"wrong", "error"} : Refuse(s, r)
    <3>1. Covered'
      BY <2>1, <2>3, <2>6, Queue DEF Trying, Covered, Closed, Idle, TypeOK, AttemptTypes,
          Surfaces, Refuse, Dispatch, NextState, Quiet
    <3> QED
      BY <1>4, <2>2, <2>3, <3>1 DEF Started, Mode, Idle, Locking
  <2> QED
    BY <2>5, <2>6 DEF ReadKey
<1>5. CASE Recovering
  BY <1>5 DEF Story, Recovering, Bare, Idle, TypeOK, AttemptTypes, Surfaces, ReadKey,
    Grant, Refuse, Dispatch, NextState, Quiet, dartVars
<1> QED
  BY <1>1, <1>2, <1>3, <1>4, <1>5 DEF Story

\* The cascade finds the key that was staged for it.
LEMMA StoryCascadeCopy ==
    ASSUME TypeOK, Story, NEW s \in Surfaces, CascadeCopy(s)
    PROVE  Story'
<1> SUFFICES ASSUME Calm, Calm' PROVE Story'
  BY DEF Story, Calm, CascadeCopy, history
<1>1. CASE Starting
  BY <1>1 DEF Story, Starting, Idle, Cascading, Locking, CascadeCopy, autoLockVars,
    dartVars
<1>2. CASE Opened
  BY <1>2 DEF Story, Opened, Bare, Idle, Locking, CascadeCopy, autoLockVars, dartVars
<1>3. CASE Failed
  BY <1>3 DEF Story, Failed, Mode, Shown, Dropping, Covered, Trying, Lifting, Lifted,
    Cascading, Idle, Locking, TypeOK, AttemptTypes, Surfaces, CascadeCopy,
    autoLockVars, dartVars, history
<1>4. CASE Started
  BY <1>4 DEF Story, Started, Mode, Shown, Dropping, Covered, Trying, Lifting, Lifted,
    Cascading, Idle, Locking, TypeOK, AttemptTypes, Surfaces, CascadeCopy,
    autoLockVars, dartVars
<1>5. CASE Recovering
  BY <1>5 DEF Story, Recovering, Bare, Idle, Locking, CascadeCopy, autoLockVars, dartVars,
    history
<1> QED
  BY <1>1, <1>2, <1>3, <1>4, <1>5 DEF Story

\* The cascade opens the database or not, and goes on.
LEMMA StoryCascadeOpen ==
    ASSUME TypeOK, Story, NEW s \in Surfaces, CascadeOpen(s)
    PROVE  Story'
<1> SUFFICES ASSUME Calm, Calm' PROVE Story'
  BY DEF Story, Calm, CascadeOpen, history
<1>1. CASE Starting
  BY <1>1 DEF Story, Starting, Idle, Cascading, Locking, TypeOK, AttemptTypes, Surfaces,
    CascadeOpen, autoLockVars
<1>2. CASE Opened
  BY <1>2 DEF Story, Opened, Bare, Idle, Locking, CascadeOpen, autoLockVars
<1>3. CASE Failed
  BY <1>3 DEF Story, Failed, Mode, Shown, Dropping, Covered, Trying, Lifting, Lifted,
    Cascading, Idle, Locking, TypeOK, AttemptTypes, Surfaces, CascadeOpen,
    autoLockVars, history
<1>4. CASE Started
  BY <1>4 DEF Story, Started, Mode, Shown, Dropping, Covered, Trying, Lifting, Lifted,
    Cascading, Idle, Locking, TypeOK, AttemptTypes, Surfaces, CascadeOpen,
    autoLockVars
<1>5. CASE Recovering
  BY <1>5 DEF Story, Recovering, Bare, Idle, Locking, CascadeOpen, autoLockVars, history
<1> QED
  BY <1>1, <1>2, <1>3, <1>4, <1>5 DEF Story

\* The cascade ends with the terminal event: Starting in Opened, Lifting in Lifted.
LEMMA StoryCascadePublish ==
    ASSUME TypeOK, Story, NEW s \in Surfaces, CascadePublish(s)
    PROVE  Story'
<1> SUFFICES ASSUME Calm, Calm' PROVE Story'
  BY DEF Story, Calm, CascadePublish, Quiet, history
<1>1. CASE Starting
  BY <1>1 DEF Story, Starting, Idle, Cascading, Locking, Opened, Bare, TypeOK,
    AttemptTypes, Surfaces, CascadePublish, Quiet, autoLockVars, dartVars
<1>2. CASE Opened
  BY <1>2 DEF Story, Opened, Bare, Idle, TypeOK, AttemptTypes, Surfaces, CascadePublish,
    Quiet
<1>3. CASE Failed
  BY <1>3, Queue DEF Story, Failed, Mode, Shown, Dropping, Covered, Trying, Lifting, Lifted,
    Cascading, Idle, Locking, TypeOK, AttemptTypes, Surfaces, CascadePublish,
    Quiet, autoLockVars, dartVars, history
<1>4. CASE Started
  BY <1>4, Queue DEF Story, Started, Mode, Shown, Dropping, Covered, Trying, Lifting, Lifted,
    Cascading, Idle, Locking, TypeOK, AttemptTypes, Surfaces, CascadePublish,
    Quiet, autoLockVars, dartVars
<1>5. CASE Recovering
  BY <1>5 DEF Story, Recovering, Bare, Idle, TypeOK, AttemptTypes, Surfaces,
    CascadePublish, Quiet, dartVars, history
<1> QED
  BY <1>1, <1>2, <1>3, <1>4, <1>5 DEF Story

\* Every step keeps Taken: nothing in the program unlocks the auto-lock
\* machine (no caller sends AutoLockUnlock).
LEMMA TakenNext == Taken /\ [Next]_vars => Taken'
<1> SUFFICES ASSUME Taken, [Next]_vars PROVE Taken'
  OBVIOUS
<1> USE DEF Taken, autoLockVars
<1>1. CASE Orchestrate
  BY <1>1 DEF Orchestrate, Verify, ReadKey, CascadeCopy, CascadeOpen, CascadePublish
<1>2. CASE Deliver
  BY <1>2 DEF Deliver, OnLocked, OnCascadeReady, OnAutoLockLocked
<1>3. CASE Surface \/ Reopen \/ CoolDown
  BY <1>3 DEF Surface, ScreenReply, DialogReply, BootStart, BootWaited, BootTimesOut,
      Reopen, ReopenAsk, ReopenOpen, ReopenSet, CoolDown
<1>4. CASE AutoLock
  BY <1>4 DEF AutoLock, TickerLocks, Fire, FireStep, DbClose
<1>5. CASE Environment
  BY <1>5 DEF Environment, SubmitScreen, SubmitDialog, Biometric, TickerDecides, IdleTimer,
      SystemLock, RequestLock
<1>6. CASE UNCHANGED vars
  BY <1>6 DEF vars
<1> QED
  BY <1>1, <1>2, <1>3, <1>4, <1>5, <1>6 DEF Next

\* Every step keeps Story.
LEMMA StoryNext == TypeOK /\ Taken /\ Story /\ [Next]_vars => Story'
<1> SUFFICES ASSUME TypeOK, Taken, Story, [Next]_vars PROVE Story'
  OBVIOUS
<1>1. CASE Orchestrate
  BY <1>1, StoryVerify, StoryReadKey, StoryCascadeCopy, StoryCascadeOpen, StoryCascadePublish
  DEF Orchestrate
<1>2. CASE Deliver
  BY <1>2, StoryOnLocked, StoryOnCascadeReady, StoryOnAutoLockLocked DEF Deliver
<1>3. CASE Surface
  BY <1>3, StoryScreenReply, StoryDialogReply, StoryBootStart, StoryBootWaited,
    StoryBootTimesOut
  DEF Surface
<1>4. CASE Reopen
  BY <1>4, StoryReopenAsk, StoryReopenOpen, StoryReopenSet DEF Reopen
<1>5. CASE AutoLock \/ CoolDown
  BY <1>5, StoryTickerLocks, StoryFire, StoryDbClose, StoryCoolDown DEF AutoLock
<1>6. CASE Environment
  BY <1>6, StorySubmitScreen, StorySubmitDialog, StoryBiometric, StoryTickerDecides,
      StoryIdleTimer, StorySystemLock
  DEF Environment
<1>7. CASE UNCHANGED vars
  BY <1>7 DEF Story, Calm, Starting, Opened, Failed, Started, Recovering, Mode, Bare,
      Reopening, Closed, Shown, Dropping, Covered, Trying, Lifting, Lifted, Cascading, Idle,
      Locking, vars, autoLockVars, dartVars, history
<1> QED
  BY <1>1, <1>2, <1>3, <1>4, <1>5, <1>6, <1>7 DEF Next

\* The story of the unlock and of the auto-lock holds in every state.
THEOREM StoryHolds == Spec => []Story
<1>1. Init => Story
  BY DEF Init, Story, Starting, Idle, Locking, Surfaces, Quiet
<1>2. Init => Taken
  BY DEF Init, Taken
<1> QED
  BY <1>1, <1>2, TypeCorrect, TakenNext, StoryNext, PTL DEF Spec

\* When the tier machine says Locked and nothing is in flight, the database
\* is closed and no key is in memory, whichever of the triggers locked and in
\* whichever order fire_lock, the detector and their events went.
THEOREM LockedIsClosed == Spec => []LockedMeansClosed
<1>1. Story => LockedMeansClosed
  BY Queue DEF Story, LockedMeansClosed, Settled, Calm, Starting, Opened, Failed, Started,
      Recovering, Mode, Bare, Reopening, Closed, Locking, Shown, Dropping, Covered, Trying,
      Lifting, Lifted, Cascading, Idle, Surfaces
<1> QED
  BY <1>1, StoryHolds, PTL

\* The workspace at rest is shown over an open database, also after a verifier,
\* a key store or the open inside a cascade has failed; ShownMeansOpen names the
\* crossings and failures it does not cover.
THEOREM ShownIsOpen == Spec => []ShownMeansOpen
<1>1. Story => ShownMeansOpen
  BY Queue DEF Story, ShownMeansOpen, Settled, Calm, Starting, Opened, Failed, Started,
      Recovering, Mode, Bare, Reopening, Closed, Locking, Shown, Dropping, Covered, Trying,
      Lifting, Lifted, Cascading, Idle, Surfaces
<1> QED
  BY <1>1, StoryHolds, PTL

\* In a started app that has come to rest the lock screen is up exactly while
\* the tier machine of tier_machine.rs is Locked.
THEOREM OverlayIsMachine == Spec => []OverlayAgrees
<1>1. Story => OverlayAgrees
  BY Queue DEF Story, OverlayAgrees, Settled, Calm, Starting, Opened, Failed, Started,
      Recovering, Mode, Bare, Reopening, Closed, Locking, Shown, Dropping, Covered, Trying,
      Lifting, Lifted, Cascading, Idle, Surfaces
<1> QED
  BY <1>1, StoryHolds, PTL
=============================================================================
