------------------------------- MODULE Unlock -------------------------------
(***************************************************************************)
(* Unlocking and auto-lock: the tier machine, the per-tier unlock          *)
(* orchestrators and their post-unlock cascade                             *)
(* (lfs_core/src/security/tier_machine.rs, tier_unlock_orchestrator.rs),   *)
(* the active-key slot and the database handle (secrets.rs, app.rs), the   *)
(* auto-lock machine (autolock.rs), and the Dart side that mirrors and     *)
(* drives them: LockStateNotifier, TierUnlockedListener, AutoLockDetector, *)
(* LockScreen, the startup dialog and SecurityInitController.              *)
(*                                                                         *)
(* Time is left out: an idle period may have passed whenever auto-lock is  *)
(* on, a cooldown may end at any time, a wait may time out at any time.  A *)
(* bus command of the Dart detector is applied when it is issued.  Tier    *)
(* events nobody reacts to ("unlocking", "unlocked") are not queued.  The  *)
(* event Wiped is dispatched by no caller and left out with the state      *)
(* Wiping.                                                                 *)
(***************************************************************************)
EXTENDS Naturals, Sequences

CONSTANTS Kinds,       \* security tiers an installation may be set up with
          MaxInputs    \* bound on secrets given and lock triggers of the environment

Typed == {"keychain_password", "hardware", "paranoid"}

ASSUME UnlockAssumption ==
    /\ Kinds \subseteq Typed \cup {"keychain"}
    /\ MaxInputs \in Nat

VARIABLES
    kind,      \* the configured tier
    \* Rust
    machine,   \* Machine.state
    key,       \* the SecretStore holds the database key in its active slot
    db,        \* AppState.db is Some
    closing,   \* calls of db_close that the Dart detector sent and did not await
    att,       \* the orchestrator call of each surface: where it is, is the secret right
    cool,      \* the rate limiters are cooling down
    alLocked,  \* AutoLockMachine.locked
    due,       \* the ticker has decided to lock and not locked yet
    fire,      \* fire_lock, run by the ticker or by a bus command
    \* between Rust and Dart
    reply,     \* the outcome on its way to a surface
    tierQ,     \* events of the tier topic
    lockEv,    \* AutoLockLocked is on its way
    \* Dart
    overlay,   \* lockStateProvider
    active,    \* securityStateProvider: "off", "bare" (no key) or "keyed"
    boot,      \* SecurityInitController.bootstrap
    waiter,    \* TierUnlockedListener._pending: who waits, _onlyUnlocked
    dlg,       \* what the startup flow's wait resolved to
    busy,      \* LockScreen._busy
    reopen,    \* reopenAfterUnlock
    cfg,       \* the persisted tier: "own" or "plaintext"
    \* history and bounds
    odd,       \* what has gone wrong so far, see Oddities
    inputs     \* secrets given and lock triggers so far

autoLockVars == <<alLocked, due, fire, lockEv>>
dartVars == <<overlay, active, boot, waiter, dlg, busy, reopen, cfg>>
history == <<odd, inputs>>
Oddities == {"wrong_at_boot",   \* a wrong secret in the startup dialog
             "error",           \* a verifier or a key store that failed
             "crossed",         \* a lock trigger and an unlock at the same time
             "failed",          \* the listener threw or a wait timed out
             "unopened",        \* the re-open failed and there was no handle
             "kept"}            \* a busy lock screen outlived the overlay
vars == <<kind, machine, key, db, closing, att, cool, reply, tierQ, autoLockVars, dartVars, history>>

Surfaces == {"dialog", "screen"}
Nobody == [who |-> "nobody", only |-> FALSE]
Quiet == [pc |-> "idle", good |-> FALSE]

Init ==
    /\ kind \in Kinds
    /\ machine = "Locked"
    /\ key = FALSE
    /\ db = FALSE
    /\ closing = 0
    /\ att = [s \in Surfaces |-> Quiet]
    /\ cool = FALSE
    /\ alLocked = FALSE
    /\ due = FALSE
    /\ fire = "idle"
    /\ reply = [s \in Surfaces |-> "none"]
    /\ tierQ = <<>>
    /\ lockEv = FALSE
    /\ overlay = FALSE
    /\ active = "off"
    /\ boot = "init"
    /\ waiter = Nobody
    /\ dlg = "pending"
    /\ busy = FALSE
    /\ reopen = "no"
    /\ cfg = "own"
    /\ odd = {}
    /\ inputs = 0
-----------------------------------------------------------------------------
(* The tier machine.                                                       *)

\* Mutant: a lock in the middle of an unlock is taken for a wipe.
NextState_Wipes(m, e) ==
    CASE m = "Locked" /\ e = "UnlockRequested" -> "Unlocking"
      [] m = "Unlocking" /\ e = "UnlockSucceeded" -> "Unlocked"
      [] m = "Unlocking" /\ e = "UnlockFailed" -> "Locked"
      [] m = "Unlocking" /\ e = "LockRequested" -> "Wiping"
      [] m = "Unlocked" /\ e = "LockRequested" -> "Locked"
      [] OTHER -> m

\* Transitions of the tier table.
NextState(m, e) ==
    CASE m = "Locked" /\ e = "UnlockRequested" -> "Unlocking"
      [] m = "Unlocking" /\ e = "UnlockSucceeded" -> "Unlocked"
      [] m = "Unlocking" /\ e = "UnlockFailed" -> "Locked"
      [] m \in {"Unlocking", "Unlocked"} /\ e = "LockRequested" -> "Locked"
      [] OTHER -> m

\* TierStateChanged is published only for a committed transition.
Dispatch(e) ==
    /\ machine' = NextState(machine, e)
    /\ tierQ' = IF machine' = "Locked" /\ machine # "Locked"
                THEN Append(tierQ, "locked") ELSE tierQ

InFlight == \/ \E s \in Surfaces : att[s].pc # "idle"
            \/ reopen # "no"
            \/ tierQ # <<>>
            \/ boot # "ready"

Locking == due \/ fire # "idle" \/ lockEv \/ closing > 0

\* A trigger of the environment: it is counted, and noted when it crosses
\* what is going on.
Trigger ==
    /\ inputs < MaxInputs
    /\ inputs' = inputs + 1
    /\ odd' = IF InFlight THEN odd \cup {"crossed"} ELSE odd

\* A person types into what the events so far have brought up.
Attempt(what) ==
    /\ inputs < MaxInputs
    /\ tierQ = <<>>
    /\ inputs' = inputs + 1
    /\ odd' = odd \cup what \cup (IF Locking THEN {"crossed"} ELSE {})
-----------------------------------------------------------------------------
(* Rust: the unlock orchestrators.                                         *)

\* An orchestrator entry: UnlockRequested, then the wait for the verifier.
Begin(s, pc, good) ==
    /\ att[s].pc = "idle" /\ reply[s] = "none"
    /\ att' = [att EXCEPT ![s] = [pc |-> pc, good |-> good]]
    /\ machine' = NextState(machine, "UnlockRequested")

\* Mutant: a failing exit forgets the paired UnlockFailed.
Refuse_Unpaired(s, outcome) ==
    /\ UNCHANGED <<machine, tierQ>>
    /\ att' = [att EXCEPT ![s] = Quiet]
    /\ reply' = [reply EXCEPT ![s] = outcome]

\* Every failing exit: UnlockFailed, then the outcome for the caller.
Refuse(s, outcome) ==
    /\ Dispatch("UnlockFailed")
    /\ att' = [att EXCEPT ![s] = Quiet]
    /\ reply' = [reply EXCEPT ![s] = outcome]

\* stage_key and UnlockSucceeded.  The cascade follows whether or not the
\* machine took the event.
Grant(s) ==
    /\ key' = TRUE
    /\ Dispatch("UnlockSucceeded")
    /\ att' = [att EXCEPT ![s].pc = "open"]
    /\ UNCHANGED reply

\* The lock screen always runs the paranoid orchestrator.
Verifier(s) == IF s = "screen" THEN "paranoid" ELSE kind

\* The verifier answers.  The paranoid verifier of an installation without
\* a master password fails with "Master password is not enabled".
Verify(s) ==
    /\ att[s].pc = "verify"
    /\ \/ /\ Verifier(s) = kind /\ att[s].good
          /\ cool' = FALSE
          /\ IF kind = "keychain_password"
             THEN /\ att' = [att EXCEPT ![s].pc = "read"]
                  /\ UNCHANGED <<machine, key, reply, tierQ>>
             ELSE Grant(s)
          /\ UNCHANGED odd
       \/ /\ Verifier(s) = kind /\ ~att[s].good
          /\ cool' = TRUE
          /\ Refuse(s, "wrong")
          /\ UNCHANGED <<key, odd>>
       \/ /\ Refuse(s, "error")
          /\ odd' = IF Verifier(s) = kind THEN odd \cup {"error"} ELSE odd
          /\ cool' \in {cool, cool \/ (kind = "hardware" /\ s = "dialog")}
          /\ UNCHANGED key
    /\ UNCHANGED <<kind, closing, db, autoLockVars, dartVars, inputs>>

\* The key is read from the OS keychain.
ReadKey(s) ==
    /\ att[s].pc = "read"
    /\ \/ Grant(s) /\ UNCHANGED odd
       \/ Refuse(s, "error") /\ odd' = odd \cup {"error"} /\ UNCHANGED key
    /\ UNCHANGED <<kind, closing, db, cool, autoLockVars, dartVars, inputs>>

\* The cascade probes and copies the slot before it opens the database.
CascadeCopy(s) ==
    /\ att[s].pc = "open"
    /\ att' = [att EXCEPT ![s] = [pc |-> "opening", good |-> key]]
    /\ UNCHANGED <<kind, closing, machine, key, db, cool, autoLockVars, reply, tierQ, dartVars, history>>

\* db_init: an encrypted file does not open without its key, and may fail to
\* open with it; the cascade goes on either way.
CascadeOpen(s) ==
    /\ att[s].pc = "opening"
    /\ db' \in {db, db \/ att[s].good}
    /\ att' = [att EXCEPT ![s].pc = "publish"]
    /\ cfg' = "own"
    /\ UNCHANGED <<kind, closing, machine, key, cool, autoLockVars, reply, tierQ,
                   overlay, active, boot, waiter, dlg, busy, reopen, history>>

\* Mutant: the terminal event is left out.
CascadePublish_Silent(s) ==
    /\ att[s].pc = "publish"
    /\ reply' = [reply EXCEPT ![s] = "staged"]
    /\ att' = [att EXCEPT ![s] = Quiet]
    /\ UNCHANGED <<kind, closing, machine, key, db, cool, tierQ, autoLockVars, dartVars, history>>

CascadePublish(s) ==
    /\ att[s].pc = "publish"
    /\ tierQ' = Append(tierQ, IF att[s].good THEN "ready_keyed" ELSE "ready_bare")
    /\ reply' = [reply EXCEPT ![s] = "staged"]
    /\ att' = [att EXCEPT ![s] = Quiet]
    /\ UNCHANGED <<kind, closing, machine, key, db, cool, autoLockVars, dartVars, history>>

\* The cooldown of the limiters ends.
CoolDown ==
    /\ cool
    /\ cool' = FALSE
    /\ UNCHANGED <<kind, closing, machine, key, db, att, autoLockVars, reply, tierQ, dartVars, history>>
-----------------------------------------------------------------------------
(* Rust: auto-lock.  Nothing in the program sends AutoLockUnlock, so       *)
(* alLocked is never reset and fire_lock runs at most once.                *)

\* A tier whose secret is typed.  Paranoid is recognised by the level the
\* security state holds, the others by the configured password modifier.
HasTypedSecret ==
    IF kind = "paranoid" THEN active # "off" ELSE kind \in Typed

\* The timeout is loaded when the startup is done and set to 0 without a
\* typed secret.
AutoLockOn == boot = "ready" /\ HasTypedSecret

\* The ticker looks at the clock in one critical section ...
TickerDecides ==
    /\ Trigger
    /\ AutoLockOn /\ ~alLocked /\ ~due
    /\ due' = TRUE
    /\ UNCHANGED <<kind, closing, machine, key, db, att, cool, reply, tierQ, alLocked, fire, lockEv, dartVars>>

\* ... and locks in another one.
TickerLocks ==
    /\ due
    /\ due' = FALSE
    /\ alLocked' = TRUE
    /\ fire' = IF alLocked THEN fire ELSE "clear"
    /\ UNCHANGED <<kind, closing, machine, key, db, att, cool, reply, tierQ, lockEv, dartVars, history>>

\* The command a lock trigger of the detector sends along.
RequestLock ==
    /\ alLocked' = TRUE
    /\ fire' = IF alLocked THEN fire ELSE "clear"
    /\ UNCHANGED <<due, lockEv>>

\* fire_lock: the secrets are cleared, the database is closed, the event sent.
FireStep ==
    \/ /\ fire = "clear"
       /\ key' = FALSE
       /\ fire' = "close"
       /\ UNCHANGED <<db, lockEv>>
    \/ /\ fire = "close"
       /\ db' = FALSE
       /\ fire' = "publish"
       /\ UNCHANGED <<key, lockEv>>
    \/ /\ fire = "publish"
       /\ lockEv' = TRUE
       /\ fire' = "idle"
       /\ UNCHANGED <<key, db>>

Fire ==
    /\ FireStep
    /\ UNCHANGED <<kind, closing, machine, att, cool, reply, tierQ, alLocked, due, dartVars, history>>
-----------------------------------------------------------------------------
(* Dart: the lock detector.                                                *)

\* Mutant: the database handle stays open.
TriggerLock_KeepsHandle ==
    /\ ~overlay
    /\ Dispatch("LockRequested")
    /\ key' = FALSE
    /\ active' = "off"
    /\ UNCHANGED <<kind, closing, db, att, cool, reply, overlay, boot, waiter, dlg, busy, reopen, cfg>>

\* _triggerLock, for the callers that have seen no overlay: the call that
\* closes the handle is sent and not awaited.
TriggerLock ==
    /\ ~overlay
    /\ Dispatch("LockRequested")
    /\ key' = FALSE
    /\ active' = "off"
    /\ closing' = closing + 1
    /\ UNCHANGED <<kind, db, att, cool, reply, overlay, boot, waiter, dlg, busy, reopen, cfg>>

NoTrigger == UNCHANGED <<kind, machine, key, db, closing, att, cool, reply, tierQ, dartVars>>

\* db_close, on a worker of the bridge.
DbClose ==
    /\ closing > 0
    /\ closing' = closing - 1
    /\ db' = FALSE
    /\ UNCHANGED <<kind, machine, key, att, cool, reply, tierQ, autoLockVars, dartVars, history>>

\* The detector's own idle timer.
IdleTimer ==
    /\ Trigger /\ AutoLockOn
    /\ TriggerLock
    /\ UNCHANGED autoLockVars

\* The app goes to the background, which counts while auto-lock is on, or
\* the OS session is locked, which counts with any timeout.  The command goes
\* out under the overlay, too.
SystemLock ==
    /\ Trigger /\ HasTypedSecret
    /\ IF overlay THEN NoTrigger ELSE TriggerLock
    /\ RequestLock

\* AutoLockLocked, mirrored unless the overlay is up.
OnAutoLockLocked ==
    /\ lockEv
    /\ lockEv' = FALSE
    /\ IF overlay THEN NoTrigger ELSE TriggerLock
    /\ UNCHANGED <<alLocked, due, fire, history>>
-----------------------------------------------------------------------------
(* Dart: LockStateNotifier and TierUnlockedListener, both on the tier topic. *)

\* Mutant: the wait it replaces is not completed.
Arm_DropsStale(w, only) ==
    /\ waiter' = [who |-> w, only |-> only]
    /\ UNCHANGED dlg

\* awaitNextUnlock: a wait that is still pending is aborted.
Arm(w, only) ==
    /\ waiter' = [who |-> w, only |-> only]
    /\ dlg' = IF waiter.who = "dialog" THEN "aborted" ELSE dlg

\* _resolvePending.
Resolve(outcome) ==
    /\ waiter' = Nobody
    /\ dlg' = IF waiter.who = "dialog" THEN outcome ELSE dlg

\* Mutant: the notifier knows the event for the waits only.
OnLocked_NoOverlay ==
    /\ tierQ # <<>> /\ Head(tierQ) = "locked"
    /\ tierQ' = Tail(tierQ)
    /\ IF waiter.only THEN UNCHANGED <<waiter, dlg>> ELSE Resolve("locked")
    /\ UNCHANGED <<kind, closing, machine, key, db, att, cool, reply, autoLockVars,
                   overlay, busy, active, boot, reopen, cfg, history>>

\* The overlay goes up, whatever caused the event: with a fresh LockScreen,
\* or, within the frame in which it went down, with the one that was there.
OnLocked ==
    /\ tierQ # <<>> /\ Head(tierQ) = "locked"
    /\ tierQ' = Tail(tierQ)
    /\ overlay' = TRUE
    /\ busy' = (busy /\ (overlay \/ reopen = "due"))
    /\ odd' = IF busy' /\ ~overlay THEN odd \cup {"kept"} ELSE odd
    /\ IF waiter.only THEN UNCHANGED <<waiter, dlg>> ELSE Resolve("locked")
    /\ UNCHANGED <<kind, closing, machine, key, db, att, cool, reply, autoLockVars,
                   active, boot, reopen, cfg, inputs>>

\* Mutant: the notifier does not react to the terminal event.
OnCascadeReady_KeepsOverlay ==
    /\ tierQ # <<>> /\ Head(tierQ) # "locked"
    /\ tierQ' = Tail(tierQ)
    /\ active' = IF Head(tierQ) = "ready_keyed" THEN "keyed" ELSE "bare"
    /\ Resolve("unlocked")
    /\ UNCHANGED <<kind, closing, machine, key, db, att, cool, reply, autoLockVars,
                   overlay, boot, busy, reopen, cfg, history>>

\* UnlockCascadeReady takes the overlay down, which schedules the re-open.  The
\* listener's own half may throw before it has set the security state.
OnCascadeReady ==
    /\ tierQ # <<>> /\ Head(tierQ) # "locked"
    /\ overlay => reopen = "no"
    /\ tierQ' = Tail(tierQ)
    /\ overlay' = FALSE
    /\ reopen' = IF overlay THEN "due" ELSE reopen
    /\ \/ /\ active' = IF Head(tierQ) = "ready_keyed" THEN "keyed" ELSE "bare"
          /\ Resolve("unlocked")
          /\ UNCHANGED odd
       \/ /\ Resolve("failed")
          /\ odd' = odd \cup {"failed"}
          /\ UNCHANGED active
    /\ UNCHANGED <<kind, closing, machine, key, db, att, cool, reply, autoLockVars, boot, busy, cfg,
                   inputs>>
-----------------------------------------------------------------------------
(* Dart: the lock screen and the re-open after it.                         *)

\* The limiter of the screen answers for an attempt during a cooldown.
SubmitScreen(good) ==
    /\ Attempt({})
    /\ overlay /\ ~busy
    /\ busy' = TRUE
    /\ Arm("screen", TRUE)
    /\ IF cool
       THEN /\ att["screen"].pc = "idle" /\ reply["screen"] = "none"
            /\ reply' = [reply EXCEPT !["screen"] = "wrong"]
            /\ UNCHANGED <<machine, att>>
       ELSE Begin("screen", "verify", good) /\ UNCHANGED reply
    /\ UNCHANGED <<kind, closing, key, db, cool, tierQ, autoLockVars, overlay, active, boot, reopen, cfg>>

\* Mutant: a refused attempt leaves the spinner on.
ScreenReply_StaysBusy ==
    /\ reply["screen"] # "none"
    /\ reply' = [reply EXCEPT !["screen"] = "none"]
    /\ IF overlay /\ busy /\ reply["screen"] # "staged"
       THEN Resolve("aborted") ELSE UNCHANGED <<waiter, dlg>>
    /\ UNCHANGED <<kind, closing, machine, key, db, att, cool, tierQ, autoLockVars,
                   overlay, busy, active, boot, reopen, cfg, history>>

\* The outcome is ignored by a screen that is gone; a staged key leaves the
\* screen busy until the overlay goes down.
ScreenReply ==
    /\ reply["screen"] # "none"
    /\ reply' = [reply EXCEPT !["screen"] = "none"]
    /\ IF overlay /\ busy /\ reply["screen"] # "staged"
       THEN busy' = FALSE /\ Resolve("aborted")
       ELSE UNCHANGED <<busy, waiter, dlg>>
    /\ UNCHANGED <<kind, closing, machine, key, db, att, cool, tierQ, autoLockVars, overlay, active, boot, reopen, cfg, history>>

\* reopenAfterUnlock asks the security state, then copies the key ...
ReopenAsk ==
    /\ reopen = "due"
    /\ reopen' = IF active # "keyed" THEN "no" ELSE IF key THEN "opening" ELSE "set"
    /\ UNCHANGED <<kind, closing, machine, key, db, att, cool, reply, tierQ, autoLockVars,
                   overlay, active, boot, waiter, dlg, busy, cfg, history>>

\* ... opens the database with the copy, or logs that it does not open ...
ReopenOpen ==
    /\ reopen = "opening"
    /\ reopen' = "set"
    /\ \/ db' = TRUE /\ UNCHANGED odd
       \/ UNCHANGED db /\ odd' = IF db THEN odd ELSE odd \cup {"unopened"}
    /\ UNCHANGED <<kind, closing, machine, key, att, cool, reply, tierQ, autoLockVars,
                   overlay, active, boot, waiter, dlg, busy, cfg, inputs>>

\* ... and records the tier it read at first.
ReopenSet ==
    /\ reopen = "set"
    /\ reopen' = "no"
    /\ active' = "keyed"
    /\ cfg' = "own"
    /\ UNCHANGED <<kind, closing, machine, key, db, att, cool, reply, tierQ, autoLockVars,
                   overlay, boot, waiter, dlg, busy, history>>
-----------------------------------------------------------------------------
(* Dart: the startup unlock.                                               *)

\* The typed tiers arm the wait and show a dialog, the keychain tier reads
\* its key at once.
BootStart ==
    /\ boot = "init"
    /\ boot' = "dialog"
    /\ Arm("dialog", kind # "keychain")
    /\ IF kind = "keychain" THEN Begin("dialog", "read", TRUE) ELSE UNCHANGED <<machine, att>>
    /\ UNCHANGED <<kind, closing, key, db, cool, reply, tierQ, autoLockVars, overlay, active, busy, reopen, cfg, history>>

\* The lock screen covers the dialog and takes its input.
DialogOpen ==
    /\ boot = "dialog" /\ kind # "keychain"
    /\ ~overlay
    /\ att["dialog"].pc = "idle" /\ reply["dialog"] = "none"

SubmitDialog(good) ==
    /\ Attempt(IF good THEN {} ELSE {"wrong_at_boot"})
    /\ DialogOpen /\ ~cool
    /\ Begin("dialog", "verify", good)
    /\ UNCHANGED <<kind, closing, key, db, cool, reply, tierQ, autoLockVars, dartVars>>

\* commit_biometric_unlock_from_secret: the key comes from the biometric vault.
Biometric ==
    /\ Attempt({})
    /\ DialogOpen /\ kind \in {"keychain_password", "hardware"}
    /\ key' = TRUE
    /\ machine' = NextState(NextState(machine, "UnlockRequested"), "UnlockSucceeded")
    /\ att' = [att EXCEPT !["dialog"] = [pc |-> "open", good |-> TRUE]]
    /\ UNCHANGED <<kind, closing, db, cool, reply, tierQ, autoLockVars, dartVars>>

\* The readability probe ends every startup flow.
Probe == boot' = IF db THEN "ready" ELSE "recovery"

\* _injectDatabase with no key: an encrypted file does not open (a handle that
\* is open stays), the tier is saved as plaintext.  The keychain tier hands
\* over to the recovery instead.
Fallback ==
    /\ IF kind = "keychain" THEN UNCHANGED <<active, cfg>>
       ELSE active' = "off" /\ cfg' = "plaintext"
    /\ Probe

DialogReply ==
    /\ reply["dialog"] # "none"
    /\ reply' = [reply EXCEPT !["dialog"] = "none"]
    /\ \/ /\ reply["dialog"] = "staged"
          /\ boot' = "waiting"
          /\ UNCHANGED <<machine, tierQ, active, waiter, dlg, cfg>>
       \/ /\ reply["dialog"] = "wrong"
          /\ UNCHANGED <<machine, tierQ, active, boot, waiter, dlg, cfg>>
       \/ /\ reply["dialog"] = "error"
          /\ Resolve("aborted")
          /\ IF kind = "keychain" THEN UNCHANGED <<machine, tierQ>> ELSE Dispatch("UnlockFailed")
          /\ Fallback
    /\ UNCHANGED <<kind, closing, key, db, att, cool, autoLockVars, overlay, busy, reopen, history>>

\* The wait did not come to "unlocked"; the keychain flow cancels whatever
\* wait is pending by now.
GivesUp ==
    /\ Fallback
    /\ IF kind = "keychain" THEN waiter' = Nobody ELSE UNCHANGED waiter

\* The dialog is gone; the flow goes on with what its wait came to.
BootWaited ==
    /\ boot = "waiting" /\ dlg # "pending"
    /\ IF dlg = "unlocked" THEN Probe /\ UNCHANGED <<active, cfg, waiter>> ELSE GivesUp
    /\ UNCHANGED <<kind, closing, machine, key, db, att, cool, reply, tierQ, autoLockVars,
                   overlay, dlg, busy, reopen, history>>

\* It goes on without an answer after tierUnlockedListenerWaitTimeout.
BootTimesOut ==
    /\ boot = "waiting" /\ dlg = "pending"
    /\ dlg' = "failed"
    /\ GivesUp
    /\ odd' = odd \cup {"failed"}
    /\ UNCHANGED <<kind, closing, machine, key, db, att, cool, reply, tierQ, autoLockVars,
                   overlay, busy, reopen, inputs>>
-----------------------------------------------------------------------------
Orchestrate == \E s \in Surfaces :
    Verify(s) \/ ReadKey(s) \/ CascadeCopy(s) \/ CascadeOpen(s) \/ CascadePublish(s)

Deliver == OnLocked \/ OnCascadeReady \/ OnAutoLockLocked

Surface == ScreenReply \/ DialogReply \/ BootStart \/ BootWaited \/ BootTimesOut

Reopen == ReopenAsk \/ ReopenOpen \/ ReopenSet

AutoLock == TickerLocks \/ Fire \/ DbClose

Environment ==
    \/ \E good \in BOOLEAN : SubmitScreen(good) \/ SubmitDialog(good)
    \/ Biometric
    \/ TickerDecides \/ IdleTimer \/ SystemLock

Next == Orchestrate \/ Deliver \/ Surface \/ Reopen \/ AutoLock \/ CoolDown \/ Environment

Spec == Init /\ [][Next]_vars

\* Every spawned task, event loop and timer goes on.
Fairness ==
    /\ \A s \in Surfaces : WF_vars(Verify(s) \/ ReadKey(s) \/ CascadeCopy(s)
                                   \/ CascadeOpen(s) \/ CascadePublish(s))
    /\ WF_vars(Deliver) /\ WF_vars(ScreenReply) /\ WF_vars(DialogReply \/ BootStart \/ BootWaited)
    /\ WF_vars(Reopen) /\ WF_vars(TickerLocks) /\ WF_vars(Fire) /\ WF_vars(DbClose) /\ WF_vars(CoolDown)

LiveSpec == Spec /\ Fairness
-----------------------------------------------------------------------------
(* Properties.                                                             *)

\* The variables stay within their types.
ControlTypes ==
    /\ kind \in Kinds
    /\ machine \in {"Locked", "Unlocking", "Unlocked"}
    /\ fire \in {"idle", "clear", "close", "publish"}
    /\ active \in {"off", "bare", "keyed"}
    /\ boot \in {"init", "dialog", "waiting", "ready", "recovery"}
    /\ dlg \in {"pending", "unlocked", "locked", "aborted", "failed"}
    /\ reopen \in {"no", "due", "opening", "set"}
    /\ cfg \in {"own", "plaintext"}

AttemptTypes ==
    /\ att \in [Surfaces -> [pc : {"idle", "verify", "read", "open", "opening", "publish"},
                             good : BOOLEAN]]
    /\ reply \in [Surfaces -> {"none", "staged", "wrong", "error"}]

FlagTypes ==
    /\ key \in BOOLEAN /\ db \in BOOLEAN /\ cool \in BOOLEAN
    /\ alLocked \in BOOLEAN /\ due \in BOOLEAN /\ lockEv \in BOOLEAN
    /\ overlay \in BOOLEAN /\ busy \in BOOLEAN

QueueTypes == tierQ \in Seq({"locked", "ready_keyed", "ready_bare"})

WaitTypes == waiter \in [who : Surfaces \cup {"nobody"}, only : BOOLEAN]

CountTypes ==
    /\ closing \in Nat
    /\ odd \subseteq Oddities
    /\ inputs \in 0 .. MaxInputs

\* Type correctness, as the conjunction of the parts above: the control
\* states, the attempts, the flags, the event queue, the wait, the counts and the history.
TypeOK == /\ ControlTypes /\ AttemptTypes /\ FlagTypes
          /\ QueueTypes /\ WaitTypes /\ CountTypes

Settled ==
    /\ \A s \in Surfaces : att[s].pc = "idle" /\ reply[s] = "none"
    /\ tierQ = <<>> /\ ~Locking /\ reopen = "no"

\* The machine is Unlocking only while an orchestrator has its verifier or
\* its key store to hear from: every exit is paired with a terminal event.
NeverWedged ==
    machine = "Unlocking" => \E s \in Surfaces : att[s].pc \in {"verify", "read"}

\* "Locked" says that the database is closed and no key is in memory
\* (TierState in tier_machine.rs), whoever locked and by whichever trigger,
\* once nothing is in flight; with an unlock and a lock that cross it does not.
LockedMeansClosed ==
    Settled /\ odd = {} /\ machine = "Locked" => ~db /\ ~key

\* Once nothing is in flight the workspace is shown over an open database only,
\* whatever verifier or key store failed before: a cascade that published its
\* terminal event over a failed open is made good by the startup probe or by
\* reopenAfterUnlock.  Not so after a lock trigger that crossed an unlock, a
\* wrong secret at startup, a wait that timed out, a listener that threw, or a
\* re-open that failed, too.
ShownMeansOpen ==
    Settled /\ odd \subseteq {"error"} /\ boot = "ready" /\ ~overlay => db

\* Once the app is started and nothing is in flight the lock screen is up
\* exactly while the Rust machine, its declared source of truth, is Locked;
\* the exceptions are those of ShownMeansOpen.
OverlayAgrees ==
    Settled /\ odd \subseteq {"error"} /\ boot = "ready" => (overlay <=> machine = "Locked")

\* The right password, typed into the lock screen of the tier the screen is
\* for, takes the overlay down, with locks falling in between.
GoodSecretLifts ==
    (overlay /\ kind = Verifier("screen") /\ att["screen"] = [pc |-> "verify", good |-> TRUE])
        ~> (~overlay \/ "error" \in odd)

\* A lock screen does not stay busy: it is given back or taken down, unless it
\* outlived an overlay that went down and up within one frame.
ScreenFreed == busy ~> (~busy \/ ~overlay \/ "kept" \in odd)

\* A startup dialog that was answered leads to the app or to the recovery,
\* also when somebody else's wait took the place of its own.
BootEnds == (boot = "waiting") ~> (boot \in {"ready", "recovery"})

\* Not so: security_init_controller_unlock.dart takes the plaintext fallback
\* for a vault that is unreachable.  A wrong password in the startup dialog
\* raises the lock screen over it, whose wait aborts the dialog's.
TierKept == odd \subseteq {"wrong_at_boot", "crossed"} => cfg = "own"
=============================================================================
