-------------------------- MODULE ConnectionProofs --------------------------
(***************************************************************************)
(* Proofs about Connection for every set of ids and attempts, for attempts *)
(* that overlap in any way and for staging that may throw.                 *)
(*                                                                         *)
(* The argument is about who may write an actor.  Before its handshake     *)
(* succeeds an actor has no session; an actor in a row is one whose driver *)
(* has passed connect_async; an actor a teardown holds has lost its row    *)
(* and can never get it back, because only staging inserts and staging is  *)
(* over for it.                                                            *)
(***************************************************************************)
EXTENDS Connection, Naturals, TLAPS

Early   == {"idle", "staging", "thrown"}
PreAuth == Early \cup {"enter", "announce", "auth", "down"}

\* What the place of a driver says about its actor.
Actors ==
    /\ \A a \in Attempts : drv[a] # "idle" => home[a] \in Ids
    /\ \A a \in Attempts : drv[a] \in PreAuth => ~sess[a]
    /\ \A a \in Attempts : sess[a] => link[a] # "none"

\* A row holds an actor of its own id, and a teardown's actor has no row.
Rows ==
    /\ \A id \in Ids : reg[id] # NoAttempt => home[reg[id]] = id /\ drv[reg[id]] \notin Early
    /\ \A id \in Ids : cls[id] \in {"take", "close", "tell"} => held[id] \in Attempts
    /\ \A id \in Ids : held[id] # NoAttempt =>
          ~Registered(held[id]) /\ drv[held[id]] \notin Early

\* A monitor belongs to a begun attempt.
MonHome == \A a \in Attempts : mon[a] # "off" => home[a] \in Ids

\* Connected events and the adoptions they start belong to begun attempts.
Mail ==
    /\ \A id \in Ids : \A i \in 1 .. Len(inbox[id]) :
          inbox[id][i].what = "Connected" =>
              inbox[id][i].src \in Attempts /\ home[inbox[id][i].src] \in Ids
    /\ \A a \in Attempts : adopt[a] # "off" => home[a] \in Ids

\* The action under NoSpuriousDrop.
Dropless ==
    \A a \in Attempts :
        Registered(a) /\ Registered(a)' /\ st[a] = "Connected" /\ st'[a] # "Connected"
            => link[a] = "dead"

Inv == TypeOK /\ Actors /\ Rows /\ MonHome /\ Mail /\ SessionIffConnected /\ Watched

-----------------------------------------------------------------------------
\* Bus::publish keeps every inbox a sequence of events.
LEMMA PublishTyped ==
    ASSUME TypeOK, NEW id \in Ids, NEW s \in Attempts \cup {NoAttempt},
           NEW w \in States \cup {"Removed"}, Publish(id, s, w)
    PROVE  inbox' \in [Ids -> Seq(Events)]
<1> DEFINE e == [src |-> s, what |-> w]
<1>1. e \in Events
  BY DEF Events
<1>2. Append(inbox[id], e) \in Seq(Events)
  BY <1>1 DEF TypeOK
<1> QED
  BY <1>2 DEF Publish, TypeOK

\* A publication adds at most one event, at the end of one inbox.
LEMMA PublishMail ==
    ASSUME TypeOK, NEW id \in Ids, NEW s \in Attempts \cup {NoAttempt},
           NEW w \in States \cup {"Removed"}, Publish(id, s, w),
           NEW x \in Ids, NEW i \in 1 .. Len(inbox'[x])
    PROVE  \/ i \in 1 .. Len(inbox[x]) /\ inbox'[x][i] = inbox[x][i]
           \/ inbox'[x][i].what = w /\ inbox'[x][i].src = s
<1> DEFINE e == [src |-> s, what |-> w]
<1>1. inbox[x] \in Seq(Events)
  BY DEF TypeOK
<1>2. inbox'[x] = inbox[x] \/ inbox'[x] = Append(inbox[x], e)
  BY DEF Publish, TypeOK
<1>3. CASE inbox'[x] = inbox[x]
  BY <1>3
<1>4. CASE inbox'[x] = Append(inbox[x], e)
  <2>1. i \in 1 .. Len(inbox[x]) \/ i = Len(inbox[x]) + 1
    BY <1>1, <1>4
  <2>2. CASE i \in 1 .. Len(inbox[x])
    BY <1>1, <1>4, <2>2
  <2>3. CASE i = Len(inbox[x]) + 1
    <3>1. inbox'[x][i] = e
      BY <1>1, <1>4, <2>3
    <3> QED
      BY <3>1
  <2> QED
    BY <2>1, <2>2, <2>3
<1> QED
  BY <1>2, <1>3, <1>4

\* What the listener takes from its inbox is an event.
LEMMA HeadTailTyped ==
    ASSUME NEW S, NEW q \in Seq(S), q # <<>>
    PROVE  Head(q) \in S /\ Tail(q) \in Seq(S)
OBVIOUS

\* The two ways a monitor leaves a closed transport.
LEMMA FlipCases ==
    ASSUME NEW a \in Attempts, MonitorFlip(a)
    PROVE  /\ UNCHANGED <<reg, home, link, drv, cls, held>>
           /\ link[a] = "dead"
           /\ \/ /\ st[a] = "Connected"
                 /\ st' = [st EXCEPT ![a] = "Disconnected"]
                 /\ sess' = [sess EXCEPT ![a] = FALSE]
                 /\ mon' = [mon EXCEPT ![a] = "tell"]
              \/ /\ st[a] # "Connected"
                 /\ UNCHANGED <<st, sess>>
                 /\ mon' = [mon EXCEPT ![a] = "off"]
BY DEF MonitorFlip, clsVars

\* An adoption only ever asks for a row of a known id.
LEMMA AskTyped ==
    ASSUME TypeOK, Mail, NEW a \in Attempts, AdoptAsk(a)
    PROVE  adopt' \in [Attempts -> {"off", "ask", "null"} \cup Attempts]
<1>1. adopt[a] # "off" /\ adopt \in [Attempts -> {"off", "ask", "null"} \cup Attempts]
  BY DEF AdoptAsk, TypeOK
<1>2. home[a] \in Ids
  BY <1>1 DEF Mail
<1>3. reg[home[a]] \in Attempts \cup {NoAttempt}
  BY <1>2 DEF TypeOK
<1> QED
  BY <1>1, <1>3 DEF AdoptAsk

-----------------------------------------------------------------------------
\* Every action keeps the state well typed: the drivers, the monitors, the
\* teardowns and the Dart listener never store a value of another shape.
LEMMA TypeStep == TypeOK /\ Actors /\ Mail /\ MonHome /\ [Next]_vars => TypeOK'
<1> SUFFICES ASSUME TypeOK, Actors, Mail, MonHome, [Next]_vars PROVE TypeOK'
  OBVIOUS
<1> DEFINE Goal == TypeOK'
<1> SUFFICES Goal
  OBVIOUS
<1> USE ConnectionAssumption DEF TypeOK, Actors, MonHome, States, Events
<1>1. ASSUME NEW id \in Ids, NEW a \in Attempts, Connect(id, a) PROVE Goal
  BY <1>1 DEF Connect, Begin, dartVars, busVars, actorVars, clsVars, histVars
<1>2. ASSUME NEW id \in Ids, NEW a \in Attempts, Reconnect(id, a) PROVE Goal
  BY <1>2 DEF Reconnect, Begin, dartVars, busVars, actorVars, clsVars, histVars
<1>3. ASSUME NEW id \in Ids, Disconnect(id) PROVE Goal
  BY <1>3 DEF Disconnect, dartVars, busVars, actorVars, clsVars, histVars
<1>4. ASSUME NEW id \in Ids, Dispose(id) PROVE Goal
  <2>1. <<>> \in Seq(Events)
    OBVIOUS
  <2>2. inbox' \in [Ids -> Seq(Events)]
    BY <1>4, <2>1 DEF Dispose
  <2> QED
    BY <1>4, <2>2 DEF Dispose, dartVars, busVars, actorVars, clsVars, histVars
<1>5. ASSUME NEW a \in Attempts, StageThrows(a) PROVE Goal
  BY <1>5 DEF StageThrows, dartVars, busVars, actorVars, clsVars, histVars
<1>6. ASSUME NEW a \in Attempts, Insert(a) PROVE Goal
  BY <1>6 DEF Insert, dartVars, busVars, actorVars, clsVars, histVars
<1>7. ASSUME NEW a \in Attempts, Enter(a) PROVE Goal
  BY <1>7 DEF Enter, dartVars, busVars, actorVars, clsVars, histVars
<1>8. ASSUME NEW a \in Attempts, Announce(a) PROVE Goal
  <2>1. Publish(home[a], NoAttempt, "Connecting") /\ home[a] \in Ids
    BY <1>8 DEF Announce
  <2>2. inbox' \in [Ids -> Seq(Events)]
    BY <2>1, PublishTyped
  <2> QED
    BY <1>8, <2>2 DEF Announce, dartVars, busVars, actorVars, clsVars, histVars
<1>9. ASSUME NEW a \in Attempts, AuthOk(a) PROVE Goal
  BY <1>9 DEF AuthOk, dartVars, busVars, actorVars, clsVars, histVars
<1>10. ASSUME NEW a \in Attempts, Up(a) PROVE Goal
  <2>1. Publish(home[a], a, "Connected") /\ home[a] \in Ids
    BY <1>10 DEF Up
  <2>2. inbox' \in [Ids -> Seq(Events)]
    BY <2>1, PublishTyped
  <2> QED
    BY <1>10, <2>2 DEF Up, dartVars, busVars, actorVars, clsVars, histVars
<1>11. ASSUME NEW a \in Attempts, AuthFail(a) PROVE Goal
  BY <1>11 DEF AuthFail, dartVars, busVars, actorVars, clsVars, histVars
<1>12. ASSUME NEW a \in Attempts, Down(a) PROVE Goal
  <2>1. Publish(home[a], NoAttempt, "Disconnected") /\ home[a] \in Ids
    BY <1>12 DEF Down
  <2>2. inbox' \in [Ids -> Seq(Events)]
    BY <2>1, PublishTyped
  <2> QED
    BY <1>12, <2>2 DEF Down, dartVars, busVars, actorVars, clsVars, histVars
<1>13. ASSUME NEW a \in Attempts, Return(a) PROVE Goal
  BY <1>13 DEF Return, Current, dartVars, busVars, actorVars, clsVars, histVars
<1>14. ASSUME NEW a \in Attempts, MonitorLook(a) PROVE Goal
  BY <1>14 DEF MonitorLook, dartVars, busVars, actorVars, clsVars, histVars
<1>15. ASSUME NEW a \in Attempts, MonitorCheck(a) PROVE Goal
  BY <1>15 DEF MonitorCheck, dartVars, busVars, actorVars, clsVars, histVars
<1>16. ASSUME NEW a \in Attempts, MonitorFlip(a) PROVE Goal
  <2>1. st' = [st EXCEPT ![a] = "Disconnected"] \/ st' = st
    BY <1>16 DEF MonitorFlip
  <2>2. sess' = [sess EXCEPT ![a] = FALSE] \/ sess' = sess
    BY <1>16 DEF MonitorFlip
  <2>3. mon' = [mon EXCEPT ![a] = "tell"] \/ mon' = [mon EXCEPT ![a] = "off"]
    BY <1>16 DEF MonitorFlip
  <2>4. st' \in [Attempts -> States]
    BY <2>1
  <2>5. sess' \in [Attempts -> BOOLEAN]
    BY <2>2
  <2>6. mon' \in [Attempts -> {"off", "sleep", "looked", "tell"}]
    BY <2>3
  <2> QED
    BY <1>16, <2>4, <2>5, <2>6 DEF MonitorFlip, dartVars, busVars, actorVars, clsVars, histVars
<1>17. ASSUME NEW a \in Attempts, MonitorTell(a) PROVE Goal
  <2>1. Publish(home[a], NoAttempt, "Disconnected") /\ home[a] \in Ids
    BY <1>17 DEF MonitorTell
  <2>2. inbox' \in [Ids -> Seq(Events)]
    BY <2>1, PublishTyped
  <2> QED
    BY <1>17, <2>2 DEF MonitorTell, dartVars, busVars, actorVars, clsVars, histVars
<1>18. ASSUME NEW id \in Ids, Remove(id) PROVE Goal
  BY <1>18 DEF Remove, dartVars, busVars, actorVars, clsVars, histVars
<1>19. ASSUME NEW id \in Ids, Take(id) PROVE Goal
  BY <1>19 DEF Take, dartVars, busVars, actorVars, clsVars, histVars
<1>20. ASSUME NEW id \in Ids, Close(id) PROVE Goal
  BY <1>20 DEF Close, dartVars, busVars, actorVars, clsVars, histVars
<1>21. ASSUME NEW id \in Ids, TellRemoved(id) PROVE Goal
  <2>1. Publish(id, NoAttempt, "Removed") /\ id \in Ids
    BY <1>21 DEF TellRemoved
  <2>2. inbox' \in [Ids -> Seq(Events)]
    BY <2>1, PublishTyped
  <2> QED
    BY <1>21, <2>2 DEF TellRemoved, dartVars, busVars, actorVars, clsVars, histVars
<1>22. ASSUME NEW id \in Ids, Hear(id) PROVE Goal
  <2>1. inbox[id] \in Seq(Events) /\ inbox[id] # <<>>
    BY <1>22 DEF Hear
  <2>2. Tail(inbox[id]) \in Seq(Events) /\ Head(inbox[id]) \in Events
    BY <2>1, HeadTailTyped
  <2>3. inbox' \in [Ids -> Seq(Events)]
    BY <1>22, <2>2 DEF Hear
  <2>4. CASE Head(inbox[id]).what = "Removed"
    <3>1. UNCHANGED <<ui, adopt, transport, gate>>
      BY <1>22, <2>4 DEF Hear
    <3> QED
      BY <1>22, <2>3, <3>1 DEF Hear, dartVars, busVars, actorVars, clsVars, histVars
  <2>5. CASE Head(inbox[id]).what # "Removed"
    <3> DEFINE e == Head(inbox[id])
    <3>1. HearState(id, e) /\ e.what \in States
      BY <1>22, <2>2, <2>5 DEF Hear
    <3>2. ui' \in [Ids -> States] /\ adopt' \in [Attempts -> {"off", "ask", "null"} \cup Attempts]
      BY <3>1 DEF HearState
    <3>3. transport' \in [Ids -> Attempts \cup {NoAttempt}] /\ gate' \in [Ids -> {"pending", "yes", "no"}]
      BY <3>1 DEF HearState, Settle
    <3> QED
      BY <1>22, <2>3, <3>2, <3>3 DEF Hear, dartVars, busVars, actorVars, clsVars, histVars
  <2> QED
    BY <2>4, <2>5
<1>23. ASSUME NEW a \in Attempts, AdoptAsk(a) PROVE Goal
  <2>1. adopt' \in [Attempts -> {"off", "ask", "null"} \cup Attempts]
    BY <1>23, AskTyped
  <2> QED
    BY <1>23, <2>1 DEF AdoptAsk, dartVars, busVars, actorVars, clsVars, histVars
<1>24. ASSUME NEW a \in Attempts, AdoptLand(a) PROVE Goal
  BY <1>24 DEF AdoptLand, Settle, dartVars, busVars, actorVars, clsVars, histVars
<1>25. ASSUME NEW a \in Attempts, LinkDies(a) PROVE Goal
  BY <1>25 DEF LinkDies, dartVars, busVars, actorVars, clsVars, histVars
<1>26. ASSUME UNCHANGED vars PROVE Goal
  BY <1>26 DEF vars, dartVars, busVars, actorVars, clsVars, histVars
<1> QED
  BY <1>1, <1>2, <1>3, <1>4, <1>5, <1>6, <1>7, <1>8, <1>9,
     <1>10, <1>11, <1>12, <1>13, <1>14, <1>15, <1>16, <1>17, <1>18,
     <1>19, <1>20, <1>21, <1>22, <1>23, <1>24, <1>25, <1>26
  DEF Next, User, CloserStep, DriverStep, MonitorStep, AdoptStep

-----------------------------------------------------------------------------
\* No action gives a session to an actor before its handshake is over.
LEMMA ActorsStep == TypeOK /\ Actors /\ Rows /\ [Next]_vars => Actors'
<1> SUFFICES ASSUME TypeOK, Actors, Rows, [Next]_vars PROVE Actors'
  OBVIOUS
<1> DEFINE Goal == Actors'
<1> SUFFICES Goal
  OBVIOUS
<1> USE ConnectionAssumption DEF TypeOK, Actors, Rows, PreAuth, Early
<1>1. ASSUME NEW id \in Ids, NEW a \in Attempts, Connect(id, a) PROVE Goal
  BY <1>1 DEF Connect, Begin, dartVars, busVars, actorVars, clsVars
<1>2. ASSUME NEW id \in Ids, NEW a \in Attempts, Reconnect(id, a) PROVE Goal
  BY <1>2 DEF Reconnect, Begin, dartVars, busVars, actorVars, clsVars
<1>3. ASSUME NEW id \in Ids, Disconnect(id) PROVE Goal
  BY <1>3 DEF Disconnect, dartVars, busVars, actorVars, clsVars
<1>4. ASSUME NEW id \in Ids, Dispose(id) PROVE Goal
  BY <1>4 DEF Dispose, dartVars, busVars, actorVars, clsVars
<1>5. ASSUME NEW a \in Attempts, StageThrows(a) PROVE Goal
  BY <1>5 DEF StageThrows, dartVars, busVars, actorVars, clsVars
<1>6. ASSUME NEW a \in Attempts, Insert(a) PROVE Goal
  BY <1>6 DEF Insert, dartVars, busVars, actorVars, clsVars
<1>7. ASSUME NEW a \in Attempts, Enter(a) PROVE Goal
  BY <1>7 DEF Enter, dartVars, busVars, actorVars, clsVars
<1>8. ASSUME NEW a \in Attempts, Announce(a) PROVE Goal
  BY <1>8 DEF Announce, dartVars, busVars, actorVars, clsVars
<1>9. ASSUME NEW a \in Attempts, AuthOk(a) PROVE Goal
  BY <1>9 DEF AuthOk, dartVars, busVars, actorVars, clsVars
<1>10. ASSUME NEW a \in Attempts, Up(a) PROVE Goal
  BY <1>10 DEF Up, dartVars, busVars, actorVars, clsVars
<1>11. ASSUME NEW a \in Attempts, AuthFail(a) PROVE Goal
  BY <1>11 DEF AuthFail, dartVars, busVars, actorVars, clsVars
<1>12. ASSUME NEW a \in Attempts, Down(a) PROVE Goal
  BY <1>12 DEF Down, dartVars, busVars, actorVars, clsVars
<1>13. ASSUME NEW a \in Attempts, Return(a) PROVE Goal
  BY <1>13 DEF Return, dartVars, busVars, actorVars, clsVars
<1>14. ASSUME NEW a \in Attempts, MonitorLook(a) PROVE Goal
  BY <1>14 DEF MonitorLook, dartVars, busVars, actorVars, clsVars
<1>15. ASSUME NEW a \in Attempts, MonitorCheck(a) PROVE Goal
  BY <1>15 DEF MonitorCheck, dartVars, busVars, actorVars, clsVars
<1>16. ASSUME NEW a \in Attempts, MonitorFlip(a) PROVE Goal
  <2>1. CASE st[a] = "Connected"
    <3>1. sess' = [sess EXCEPT ![a] = FALSE]
      BY <1>16, <2>1, FlipCases
    <3>2. st' = [st EXCEPT ![a] = "Disconnected"] /\ mon' = [mon EXCEPT ![a] = "tell"]
      BY <1>16, <2>1, FlipCases
    <3>3. UNCHANGED <<reg, home, link, drv, cls, held>> /\ link[a] = "dead"
      BY <1>16, FlipCases
    <3> QED
      BY <3>1, <3>2, <3>3
  <2>2. CASE st[a] # "Connected"
    BY <1>16, <2>2, FlipCases
  <2> QED
    BY <2>1, <2>2
<1>17. ASSUME NEW a \in Attempts, MonitorTell(a) PROVE Goal
  BY <1>17 DEF MonitorTell, dartVars, busVars, actorVars, clsVars
<1>18. ASSUME NEW id \in Ids, Remove(id) PROVE Goal
  BY <1>18 DEF Remove, dartVars, busVars, actorVars, clsVars
<1>19. ASSUME NEW id \in Ids, Take(id) PROVE Goal
  BY <1>19 DEF Take, dartVars, busVars, actorVars, clsVars
<1>20. ASSUME NEW id \in Ids, Close(id) PROVE Goal
  BY <1>20 DEF Close, dartVars, busVars, actorVars, clsVars
<1>21. ASSUME NEW id \in Ids, TellRemoved(id) PROVE Goal
  BY <1>21 DEF TellRemoved, dartVars, busVars, actorVars, clsVars
<1>22. ASSUME NEW id \in Ids, Hear(id) PROVE Goal
  BY <1>22 DEF Hear, dartVars, busVars, actorVars, clsVars
<1>23. ASSUME NEW a \in Attempts, AdoptAsk(a) PROVE Goal
  BY <1>23 DEF AdoptAsk, dartVars, busVars, actorVars, clsVars
<1>24. ASSUME NEW a \in Attempts, AdoptLand(a) PROVE Goal
  BY <1>24 DEF AdoptLand, dartVars, busVars, actorVars, clsVars
<1>25. ASSUME NEW a \in Attempts, LinkDies(a) PROVE Goal
  BY <1>25 DEF LinkDies, dartVars, busVars, actorVars, clsVars
<1>26. ASSUME UNCHANGED vars PROVE Goal
  BY <1>26 DEF vars, dartVars, busVars, actorVars, clsVars
<1> QED
  BY <1>1, <1>2, <1>3, <1>4, <1>5, <1>6, <1>7, <1>8, <1>9,
     <1>10, <1>11, <1>12, <1>13, <1>14, <1>15, <1>16, <1>17, <1>18,
     <1>19, <1>20, <1>21, <1>22, <1>23, <1>24, <1>25, <1>26
  DEF Next, User, CloserStep, DriverStep, MonitorStep, AdoptStep

-----------------------------------------------------------------------------
\* No action gives a row back to an actor that a teardown holds.
LEMMA RowsStep == TypeOK /\ Actors /\ Rows /\ [Next]_vars => Rows'
<1> SUFFICES ASSUME TypeOK, Actors, Rows, [Next]_vars PROVE Rows'
  OBVIOUS
<1> DEFINE Goal == Rows'
<1> SUFFICES Goal
  OBVIOUS
<1> USE ConnectionAssumption DEF TypeOK, Actors, Rows, Registered, Early
<1>1. ASSUME NEW id \in Ids, NEW a \in Attempts, Connect(id, a) PROVE Goal
  BY <1>1 DEF Connect, Begin, dartVars, busVars, actorVars, clsVars
<1>2. ASSUME NEW id \in Ids, NEW a \in Attempts, Reconnect(id, a) PROVE Goal
  BY <1>2 DEF Reconnect, Begin, dartVars, busVars, actorVars, clsVars
<1>3. ASSUME NEW id \in Ids, Disconnect(id) PROVE Goal
  BY <1>3 DEF Disconnect, dartVars, busVars, actorVars, clsVars
<1>4. ASSUME NEW id \in Ids, Dispose(id) PROVE Goal
  BY <1>4 DEF Dispose, dartVars, busVars, actorVars, clsVars
<1>5. ASSUME NEW a \in Attempts, StageThrows(a) PROVE Goal
  BY <1>5 DEF StageThrows, dartVars, busVars, actorVars, clsVars
<1>6. ASSUME NEW a \in Attempts, Insert(a) PROVE Goal
  BY <1>6 DEF Insert, dartVars, busVars, actorVars, clsVars
<1>7. ASSUME NEW a \in Attempts, Enter(a) PROVE Goal
  BY <1>7 DEF Enter, dartVars, busVars, actorVars, clsVars
<1>8. ASSUME NEW a \in Attempts, Announce(a) PROVE Goal
  BY <1>8 DEF Announce, dartVars, busVars, actorVars, clsVars
<1>9. ASSUME NEW a \in Attempts, AuthOk(a) PROVE Goal
  BY <1>9 DEF AuthOk, dartVars, busVars, actorVars, clsVars
<1>10. ASSUME NEW a \in Attempts, Up(a) PROVE Goal
  BY <1>10 DEF Up, dartVars, busVars, actorVars, clsVars
<1>11. ASSUME NEW a \in Attempts, AuthFail(a) PROVE Goal
  BY <1>11 DEF AuthFail, dartVars, busVars, actorVars, clsVars
<1>12. ASSUME NEW a \in Attempts, Down(a) PROVE Goal
  BY <1>12 DEF Down, dartVars, busVars, actorVars, clsVars
<1>13. ASSUME NEW a \in Attempts, Return(a) PROVE Goal
  BY <1>13 DEF Return, dartVars, busVars, actorVars, clsVars
<1>14. ASSUME NEW a \in Attempts, MonitorLook(a) PROVE Goal
  BY <1>14 DEF MonitorLook, dartVars, busVars, actorVars, clsVars
<1>15. ASSUME NEW a \in Attempts, MonitorCheck(a) PROVE Goal
  BY <1>15 DEF MonitorCheck, dartVars, busVars, actorVars, clsVars
<1>16. ASSUME NEW a \in Attempts, MonitorFlip(a) PROVE Goal
  <2>1. CASE st[a] = "Connected"
    <3>1. sess' = [sess EXCEPT ![a] = FALSE]
      BY <1>16, <2>1, FlipCases
    <3>2. st' = [st EXCEPT ![a] = "Disconnected"] /\ mon' = [mon EXCEPT ![a] = "tell"]
      BY <1>16, <2>1, FlipCases
    <3>3. UNCHANGED <<reg, home, link, drv, cls, held>> /\ link[a] = "dead"
      BY <1>16, FlipCases
    <3> QED
      BY <3>1, <3>2, <3>3
  <2>2. CASE st[a] # "Connected"
    BY <1>16, <2>2, FlipCases
  <2> QED
    BY <2>1, <2>2
<1>17. ASSUME NEW a \in Attempts, MonitorTell(a) PROVE Goal
  BY <1>17 DEF MonitorTell, dartVars, busVars, actorVars, clsVars
<1>18. ASSUME NEW id \in Ids, Remove(id) PROVE Goal
  BY <1>18 DEF Remove, dartVars, busVars, actorVars, clsVars
<1>19. ASSUME NEW id \in Ids, Take(id) PROVE Goal
  BY <1>19 DEF Take, dartVars, busVars, actorVars, clsVars
<1>20. ASSUME NEW id \in Ids, Close(id) PROVE Goal
  BY <1>20 DEF Close, dartVars, busVars, actorVars, clsVars
<1>21. ASSUME NEW id \in Ids, TellRemoved(id) PROVE Goal
  BY <1>21 DEF TellRemoved, dartVars, busVars, actorVars, clsVars
<1>22. ASSUME NEW id \in Ids, Hear(id) PROVE Goal
  BY <1>22 DEF Hear, dartVars, busVars, actorVars, clsVars
<1>23. ASSUME NEW a \in Attempts, AdoptAsk(a) PROVE Goal
  BY <1>23 DEF AdoptAsk, dartVars, busVars, actorVars, clsVars
<1>24. ASSUME NEW a \in Attempts, AdoptLand(a) PROVE Goal
  BY <1>24 DEF AdoptLand, dartVars, busVars, actorVars, clsVars
<1>25. ASSUME NEW a \in Attempts, LinkDies(a) PROVE Goal
  BY <1>25 DEF LinkDies, dartVars, busVars, actorVars, clsVars
<1>26. ASSUME UNCHANGED vars PROVE Goal
  BY <1>26 DEF vars, dartVars, busVars, actorVars, clsVars
<1> QED
  BY <1>1, <1>2, <1>3, <1>4, <1>5, <1>6, <1>7, <1>8, <1>9,
     <1>10, <1>11, <1>12, <1>13, <1>14, <1>15, <1>16, <1>17, <1>18,
     <1>19, <1>20, <1>21, <1>22, <1>23, <1>24, <1>25, <1>26
  DEF Next, User, CloserStep, DriverStep, MonitorStep, AdoptStep

-----------------------------------------------------------------------------
\* Every writer of an actor's state writes its session under the same lock.
LEMMA SessionStep == TypeOK /\ Actors /\ Rows /\ SessionIffConnected /\ [Next]_vars => SessionIffConnected'
<1> SUFFICES ASSUME TypeOK, Actors, Rows, SessionIffConnected, [Next]_vars PROVE SessionIffConnected'
  OBVIOUS
<1> DEFINE Goal == SessionIffConnected'
<1> SUFFICES Goal
  OBVIOUS
<1> USE ConnectionAssumption DEF TypeOK, Actors, Rows, SessionIffConnected, PreAuth, Early
<1>1. ASSUME NEW id \in Ids, NEW a \in Attempts, Connect(id, a) PROVE Goal
  BY <1>1 DEF Connect, Begin, dartVars, busVars, actorVars, clsVars
<1>2. ASSUME NEW id \in Ids, NEW a \in Attempts, Reconnect(id, a) PROVE Goal
  BY <1>2 DEF Reconnect, Begin, dartVars, busVars, actorVars, clsVars
<1>3. ASSUME NEW id \in Ids, Disconnect(id) PROVE Goal
  BY <1>3 DEF Disconnect, dartVars, busVars, actorVars, clsVars
<1>4. ASSUME NEW id \in Ids, Dispose(id) PROVE Goal
  BY <1>4 DEF Dispose, dartVars, busVars, actorVars, clsVars
<1>5. ASSUME NEW a \in Attempts, StageThrows(a) PROVE Goal
  BY <1>5 DEF StageThrows, dartVars, busVars, actorVars, clsVars
<1>6. ASSUME NEW a \in Attempts, Insert(a) PROVE Goal
  BY <1>6 DEF Insert, dartVars, busVars, actorVars, clsVars
<1>7. ASSUME NEW a \in Attempts, Enter(a) PROVE Goal
  BY <1>7 DEF Enter, dartVars, busVars, actorVars, clsVars
<1>8. ASSUME NEW a \in Attempts, Announce(a) PROVE Goal
  BY <1>8 DEF Announce, dartVars, busVars, actorVars, clsVars
<1>9. ASSUME NEW a \in Attempts, AuthOk(a) PROVE Goal
  BY <1>9 DEF AuthOk, dartVars, busVars, actorVars, clsVars
<1>10. ASSUME NEW a \in Attempts, Up(a) PROVE Goal
  BY <1>10 DEF Up, dartVars, busVars, actorVars, clsVars
<1>11. ASSUME NEW a \in Attempts, AuthFail(a) PROVE Goal
  BY <1>11 DEF AuthFail, dartVars, busVars, actorVars, clsVars
<1>12. ASSUME NEW a \in Attempts, Down(a) PROVE Goal
  BY <1>12 DEF Down, dartVars, busVars, actorVars, clsVars
<1>13. ASSUME NEW a \in Attempts, Return(a) PROVE Goal
  BY <1>13 DEF Return, dartVars, busVars, actorVars, clsVars
<1>14. ASSUME NEW a \in Attempts, MonitorLook(a) PROVE Goal
  BY <1>14 DEF MonitorLook, dartVars, busVars, actorVars, clsVars
<1>15. ASSUME NEW a \in Attempts, MonitorCheck(a) PROVE Goal
  BY <1>15 DEF MonitorCheck, dartVars, busVars, actorVars, clsVars
<1>16. ASSUME NEW a \in Attempts, MonitorFlip(a) PROVE Goal
  <2>1. CASE st[a] = "Connected"
    <3>1. sess' = [sess EXCEPT ![a] = FALSE]
      BY <1>16, <2>1, FlipCases
    <3>2. st' = [st EXCEPT ![a] = "Disconnected"] /\ mon' = [mon EXCEPT ![a] = "tell"]
      BY <1>16, <2>1, FlipCases
    <3>3. UNCHANGED <<reg, home, link, drv, cls, held>> /\ link[a] = "dead"
      BY <1>16, FlipCases
    <3> QED
      BY <3>1, <3>2, <3>3
  <2>2. CASE st[a] # "Connected"
    BY <1>16, <2>2, FlipCases
  <2> QED
    BY <2>1, <2>2
<1>17. ASSUME NEW a \in Attempts, MonitorTell(a) PROVE Goal
  BY <1>17 DEF MonitorTell, dartVars, busVars, actorVars, clsVars
<1>18. ASSUME NEW id \in Ids, Remove(id) PROVE Goal
  BY <1>18 DEF Remove, dartVars, busVars, actorVars, clsVars
<1>19. ASSUME NEW id \in Ids, Take(id) PROVE Goal
  BY <1>19 DEF Take, dartVars, busVars, actorVars, clsVars
<1>20. ASSUME NEW id \in Ids, Close(id) PROVE Goal
  BY <1>20 DEF Close, dartVars, busVars, actorVars, clsVars
<1>21. ASSUME NEW id \in Ids, TellRemoved(id) PROVE Goal
  BY <1>21 DEF TellRemoved, dartVars, busVars, actorVars, clsVars
<1>22. ASSUME NEW id \in Ids, Hear(id) PROVE Goal
  BY <1>22 DEF Hear, dartVars, busVars, actorVars, clsVars
<1>23. ASSUME NEW a \in Attempts, AdoptAsk(a) PROVE Goal
  BY <1>23 DEF AdoptAsk, dartVars, busVars, actorVars, clsVars
<1>24. ASSUME NEW a \in Attempts, AdoptLand(a) PROVE Goal
  BY <1>24 DEF AdoptLand, dartVars, busVars, actorVars, clsVars
<1>25. ASSUME NEW a \in Attempts, LinkDies(a) PROVE Goal
  BY <1>25 DEF LinkDies, dartVars, busVars, actorVars, clsVars
<1>26. ASSUME UNCHANGED vars PROVE Goal
  BY <1>26 DEF vars, dartVars, busVars, actorVars, clsVars
<1> QED
  BY <1>1, <1>2, <1>3, <1>4, <1>5, <1>6, <1>7, <1>8, <1>9,
     <1>10, <1>11, <1>12, <1>13, <1>14, <1>15, <1>16, <1>17, <1>18,
     <1>19, <1>20, <1>21, <1>22, <1>23, <1>24, <1>25, <1>26
  DEF Next, User, CloserStep, DriverStep, MonitorStep, AdoptStep

-----------------------------------------------------------------------------
\* The monitor of a registered session ends only when the session is gone.
LEMMA WatchedStep == TypeOK /\ Actors /\ Rows /\ SessionIffConnected /\ Watched /\ [Next]_vars => Watched'
<1> SUFFICES ASSUME TypeOK, Actors, Rows, SessionIffConnected, Watched, [Next]_vars PROVE Watched'
  OBVIOUS
<1> DEFINE Goal == Watched'
<1> SUFFICES Goal
  OBVIOUS
<1> USE ConnectionAssumption DEF TypeOK, Actors, Rows, SessionIffConnected, Watched, Registered, PreAuth, Early
<1>1. ASSUME NEW id \in Ids, NEW a \in Attempts, Connect(id, a) PROVE Goal
  BY <1>1 DEF Connect, Begin, dartVars, busVars, actorVars, clsVars
<1>2. ASSUME NEW id \in Ids, NEW a \in Attempts, Reconnect(id, a) PROVE Goal
  BY <1>2 DEF Reconnect, Begin, dartVars, busVars, actorVars, clsVars
<1>3. ASSUME NEW id \in Ids, Disconnect(id) PROVE Goal
  BY <1>3 DEF Disconnect, dartVars, busVars, actorVars, clsVars
<1>4. ASSUME NEW id \in Ids, Dispose(id) PROVE Goal
  BY <1>4 DEF Dispose, dartVars, busVars, actorVars, clsVars
<1>5. ASSUME NEW a \in Attempts, StageThrows(a) PROVE Goal
  BY <1>5 DEF StageThrows, dartVars, busVars, actorVars, clsVars
<1>6. ASSUME NEW a \in Attempts, Insert(a) PROVE Goal
  BY <1>6 DEF Insert, dartVars, busVars, actorVars, clsVars
<1>7. ASSUME NEW a \in Attempts, Enter(a) PROVE Goal
  BY <1>7 DEF Enter, dartVars, busVars, actorVars, clsVars
<1>8. ASSUME NEW a \in Attempts, Announce(a) PROVE Goal
  BY <1>8 DEF Announce, dartVars, busVars, actorVars, clsVars
<1>9. ASSUME NEW a \in Attempts, AuthOk(a) PROVE Goal
  BY <1>9 DEF AuthOk, dartVars, busVars, actorVars, clsVars
<1>10. ASSUME NEW a \in Attempts, Up(a) PROVE Goal
  BY <1>10 DEF Up, dartVars, busVars, actorVars, clsVars
<1>11. ASSUME NEW a \in Attempts, AuthFail(a) PROVE Goal
  BY <1>11 DEF AuthFail, dartVars, busVars, actorVars, clsVars
<1>12. ASSUME NEW a \in Attempts, Down(a) PROVE Goal
  BY <1>12 DEF Down, dartVars, busVars, actorVars, clsVars
<1>13. ASSUME NEW a \in Attempts, Return(a) PROVE Goal
  BY <1>13 DEF Return, dartVars, busVars, actorVars, clsVars
<1>14. ASSUME NEW a \in Attempts, MonitorLook(a) PROVE Goal
  BY <1>14 DEF MonitorLook, dartVars, busVars, actorVars, clsVars
<1>15. ASSUME NEW a \in Attempts, MonitorCheck(a) PROVE Goal
  <2>1. UNCHANGED <<reg, home, st, sess, drv>>
    BY <1>15 DEF MonitorCheck, actorVars
  <2>2. CASE SessionAlive(a)
    BY <1>15, <2>1, <2>2 DEF MonitorCheck
  <2>3. CASE ~SessionAlive(a)
    <3>1. ~(sess[a] /\ Registered(a))
      BY <2>3 DEF SessionAlive, HandleHeld
    <3> QED
      BY <1>15, <2>1, <2>3, <3>1 DEF MonitorCheck
  <2> QED
    BY <2>2, <2>3
<1>16. ASSUME NEW a \in Attempts, MonitorFlip(a) PROVE Goal
  <2>1. CASE st[a] = "Connected"
    <3>1. sess' = [sess EXCEPT ![a] = FALSE]
      BY <1>16, <2>1, FlipCases
    <3>2. st' = [st EXCEPT ![a] = "Disconnected"] /\ mon' = [mon EXCEPT ![a] = "tell"]
      BY <1>16, <2>1, FlipCases
    <3>3. UNCHANGED <<reg, home, link, drv, cls, held>> /\ link[a] = "dead"
      BY <1>16, FlipCases
    <3> QED
      BY <3>1, <3>2, <3>3
  <2>2. CASE st[a] # "Connected"
    BY <1>16, <2>2, FlipCases
  <2> QED
    BY <2>1, <2>2
<1>17. ASSUME NEW a \in Attempts, MonitorTell(a) PROVE Goal
  BY <1>17 DEF MonitorTell, dartVars, busVars, actorVars, clsVars
<1>18. ASSUME NEW id \in Ids, Remove(id) PROVE Goal
  BY <1>18 DEF Remove, dartVars, busVars, actorVars, clsVars
<1>19. ASSUME NEW id \in Ids, Take(id) PROVE Goal
  BY <1>19 DEF Take, dartVars, busVars, actorVars, clsVars
<1>20. ASSUME NEW id \in Ids, Close(id) PROVE Goal
  BY <1>20 DEF Close, dartVars, busVars, actorVars, clsVars
<1>21. ASSUME NEW id \in Ids, TellRemoved(id) PROVE Goal
  BY <1>21 DEF TellRemoved, dartVars, busVars, actorVars, clsVars
<1>22. ASSUME NEW id \in Ids, Hear(id) PROVE Goal
  BY <1>22 DEF Hear, dartVars, busVars, actorVars, clsVars
<1>23. ASSUME NEW a \in Attempts, AdoptAsk(a) PROVE Goal
  BY <1>23 DEF AdoptAsk, dartVars, busVars, actorVars, clsVars
<1>24. ASSUME NEW a \in Attempts, AdoptLand(a) PROVE Goal
  BY <1>24 DEF AdoptLand, dartVars, busVars, actorVars, clsVars
<1>25. ASSUME NEW a \in Attempts, LinkDies(a) PROVE Goal
  BY <1>25 DEF LinkDies, dartVars, busVars, actorVars, clsVars
<1>26. ASSUME UNCHANGED vars PROVE Goal
  BY <1>26 DEF vars, dartVars, busVars, actorVars, clsVars
<1> QED
  BY <1>1, <1>2, <1>3, <1>4, <1>5, <1>6, <1>7, <1>8, <1>9,
     <1>10, <1>11, <1>12, <1>13, <1>14, <1>15, <1>16, <1>17, <1>18,
     <1>19, <1>20, <1>21, <1>22, <1>23, <1>24, <1>25, <1>26
  DEF Next, User, CloserStep, DriverStep, MonitorStep, AdoptStep

-----------------------------------------------------------------------------
\* Connected events, adoptions and monitors exist only for begun attempts.
LEMMA MailStep == TypeOK /\ Actors /\ Mail /\ MonHome /\ [Next]_vars => (Mail /\ MonHome)'
<1> SUFFICES ASSUME TypeOK, Actors, Mail, MonHome, [Next]_vars PROVE (Mail /\ MonHome)'
  OBVIOUS
<1> DEFINE Goal == (Mail /\ MonHome)'
<1> SUFFICES Goal
  OBVIOUS
<1> USE ConnectionAssumption DEF TypeOK, Actors, Mail, MonHome
<1>1. ASSUME NEW id \in Ids, NEW a \in Attempts, Connect(id, a) PROVE Goal
  BY <1>1 DEF Connect, Begin, dartVars, busVars, actorVars, clsVars
<1>2. ASSUME NEW id \in Ids, NEW a \in Attempts, Reconnect(id, a) PROVE Goal
  BY <1>2 DEF Reconnect, Begin, dartVars, busVars, actorVars, clsVars
<1>3. ASSUME NEW id \in Ids, Disconnect(id) PROVE Goal
  BY <1>3 DEF Disconnect, dartVars, busVars, actorVars, clsVars
<1>4. ASSUME NEW id \in Ids, Dispose(id) PROVE Goal
  <2>1. inbox' = [inbox EXCEPT ![id] = <<>>] /\ UNCHANGED <<home, mon, adopt>>
    BY <1>4 DEF Dispose, actorVars
  <2>2. ASSUME NEW x \in Ids, NEW i \in 1 .. Len(inbox'[x])
        PROVE  inbox'[x] = inbox[x]
    <3>1. CASE x = id
      <4>1. inbox'[x] = <<>> /\ Len(<<>>) = 0
        BY <2>1, <3>1
      <4> QED
        BY <2>2, <4>1
    <3>2. CASE x # id
      BY <2>1, <3>2
    <3> QED
      BY <3>1, <3>2
  <2> QED
    BY <2>1, <2>2
<1>5. ASSUME NEW a \in Attempts, StageThrows(a) PROVE Goal
  BY <1>5 DEF StageThrows, dartVars, busVars, actorVars, clsVars
<1>6. ASSUME NEW a \in Attempts, Insert(a) PROVE Goal
  BY <1>6 DEF Insert, dartVars, busVars, actorVars, clsVars
<1>7. ASSUME NEW a \in Attempts, Enter(a) PROVE Goal
  BY <1>7 DEF Enter, dartVars, busVars, actorVars, clsVars
<1>8. ASSUME NEW a \in Attempts, Announce(a) PROVE Goal
  <2>1. Publish(home[a], NoAttempt, "Connecting") /\ home[a] \in Ids
    BY <1>8 DEF Announce
  <2>2. UNCHANGED <<home, adopt>>
    BY <1>8 DEF Announce, actorVars
  <2>3. ASSUME NEW x \in Ids, NEW i \in 1 .. Len(inbox'[x]), inbox'[x][i].what = "Connected"
        PROVE  inbox'[x][i].src \in Attempts /\ home[inbox'[x][i].src] \in Ids
    <3>1. \/ i \in 1 .. Len(inbox[x]) /\ inbox'[x][i] = inbox[x][i]
          \/ inbox'[x][i].what = "Connecting" /\ inbox'[x][i].src = NoAttempt
      BY <2>1, PublishMail DEF States
    <3> QED
      BY <2>1, <2>3, <3>1
  <2>4. MonHome'
    BY <1>8, <2>1, <2>2 DEF Announce
  <2> QED
    BY <2>2, <2>3, <2>4
<1>9. ASSUME NEW a \in Attempts, AuthOk(a) PROVE Goal
  BY <1>9 DEF AuthOk, dartVars, busVars, actorVars, clsVars
<1>10. ASSUME NEW a \in Attempts, Up(a) PROVE Goal
  <2>1. Publish(home[a], a, "Connected") /\ home[a] \in Ids
    BY <1>10 DEF Up
  <2>2. UNCHANGED <<home, adopt>>
    BY <1>10 DEF Up, actorVars
  <2>3. ASSUME NEW x \in Ids, NEW i \in 1 .. Len(inbox'[x]), inbox'[x][i].what = "Connected"
        PROVE  inbox'[x][i].src \in Attempts /\ home[inbox'[x][i].src] \in Ids
    <3>1. \/ i \in 1 .. Len(inbox[x]) /\ inbox'[x][i] = inbox[x][i]
          \/ inbox'[x][i].what = "Connected" /\ inbox'[x][i].src = a
      BY <2>1, PublishMail DEF States
    <3> QED
      BY <2>1, <2>3, <3>1
  <2>4. MonHome'
    BY <1>10, <2>1, <2>2 DEF Up
  <2> QED
    BY <2>2, <2>3, <2>4
<1>11. ASSUME NEW a \in Attempts, AuthFail(a) PROVE Goal
  BY <1>11 DEF AuthFail, dartVars, busVars, actorVars, clsVars
<1>12. ASSUME NEW a \in Attempts, Down(a) PROVE Goal
  <2>1. Publish(home[a], NoAttempt, "Disconnected") /\ home[a] \in Ids
    BY <1>12 DEF Down
  <2>2. UNCHANGED <<home, adopt>>
    BY <1>12 DEF Down, actorVars
  <2>3. ASSUME NEW x \in Ids, NEW i \in 1 .. Len(inbox'[x]), inbox'[x][i].what = "Connected"
        PROVE  inbox'[x][i].src \in Attempts /\ home[inbox'[x][i].src] \in Ids
    <3>1. \/ i \in 1 .. Len(inbox[x]) /\ inbox'[x][i] = inbox[x][i]
          \/ inbox'[x][i].what = "Disconnected" /\ inbox'[x][i].src = NoAttempt
      BY <2>1, PublishMail DEF States
    <3> QED
      BY <2>1, <2>3, <3>1
  <2>4. MonHome'
    BY <1>12, <2>1, <2>2 DEF Down
  <2> QED
    BY <2>2, <2>3, <2>4
<1>13. ASSUME NEW a \in Attempts, Return(a) PROVE Goal
  BY <1>13 DEF Return, dartVars, busVars, actorVars, clsVars
<1>14. ASSUME NEW a \in Attempts, MonitorLook(a) PROVE Goal
  BY <1>14 DEF MonitorLook, dartVars, busVars, actorVars, clsVars
<1>15. ASSUME NEW a \in Attempts, MonitorCheck(a) PROVE Goal
  <2>1. UNCHANGED <<home, adopt, inbox>>
    BY <1>15 DEF MonitorCheck, actorVars, busVars
  <2>2. mon' = [mon EXCEPT ![a] = "sleep"] \/ mon' = [mon EXCEPT ![a] = "off"]
    BY <1>15 DEF MonitorCheck
  <2>3. mon[a] # "off"
    BY <1>15 DEF MonitorCheck
  <2> QED
    BY <2>1, <2>2, <2>3
<1>16. ASSUME NEW a \in Attempts, MonitorFlip(a) PROVE Goal
  <2>1. UNCHANGED <<home, adopt, inbox>>
    BY <1>16 DEF MonitorFlip, busVars
  <2>2. mon' = [mon EXCEPT ![a] = "tell"] \/ mon' = [mon EXCEPT ![a] = "off"]
    BY <1>16 DEF MonitorFlip
  <2>3. mon[a] # "off"
    BY <1>16 DEF MonitorFlip
  <2> QED
    BY <2>1, <2>2, <2>3
<1>17. ASSUME NEW a \in Attempts, MonitorTell(a) PROVE Goal
  <2>1. Publish(home[a], NoAttempt, "Disconnected") /\ home[a] \in Ids
    BY <1>17 DEF MonitorTell
  <2>2. UNCHANGED <<home, adopt>>
    BY <1>17 DEF MonitorTell, actorVars
  <2>3. ASSUME NEW x \in Ids, NEW i \in 1 .. Len(inbox'[x]), inbox'[x][i].what = "Connected"
        PROVE  inbox'[x][i].src \in Attempts /\ home[inbox'[x][i].src] \in Ids
    <3>1. \/ i \in 1 .. Len(inbox[x]) /\ inbox'[x][i] = inbox[x][i]
          \/ inbox'[x][i].what = "Disconnected" /\ inbox'[x][i].src = NoAttempt
      BY <2>1, PublishMail DEF States
    <3> QED
      BY <2>1, <2>3, <3>1
  <2>4. MonHome'
    BY <1>17, <2>1, <2>2 DEF MonitorTell
  <2> QED
    BY <2>2, <2>3, <2>4
<1>18. ASSUME NEW id \in Ids, Remove(id) PROVE Goal
  BY <1>18 DEF Remove, dartVars, busVars, actorVars, clsVars
<1>19. ASSUME NEW id \in Ids, Take(id) PROVE Goal
  BY <1>19 DEF Take, dartVars, busVars, actorVars, clsVars
<1>20. ASSUME NEW id \in Ids, Close(id) PROVE Goal
  BY <1>20 DEF Close, dartVars, busVars, actorVars, clsVars
<1>21. ASSUME NEW id \in Ids, TellRemoved(id) PROVE Goal
  <2>1. Publish(id, NoAttempt, "Removed") /\ id \in Ids
    BY <1>21 DEF TellRemoved
  <2>2. UNCHANGED <<home, adopt>>
    BY <1>21 DEF TellRemoved, actorVars
  <2>3. ASSUME NEW x \in Ids, NEW i \in 1 .. Len(inbox'[x]), inbox'[x][i].what = "Connected"
        PROVE  inbox'[x][i].src \in Attempts /\ home[inbox'[x][i].src] \in Ids
    <3>1. \/ i \in 1 .. Len(inbox[x]) /\ inbox'[x][i] = inbox[x][i]
          \/ inbox'[x][i].what = "Removed" /\ inbox'[x][i].src = NoAttempt
      BY <2>1, PublishMail DEF States
    <3> QED
      BY <2>1, <2>3, <3>1
  <2>4. MonHome'
    BY <1>21, <2>1, <2>2 DEF TellRemoved
  <2> QED
    BY <2>2, <2>3, <2>4
<1>22. ASSUME NEW id \in Ids, Hear(id) PROVE Goal
  <2>1. inbox[id] \in Seq(Events) /\ inbox[id] # <<>>
    BY <1>22 DEF Hear
  <2>2. Len(Tail(inbox[id])) = Len(inbox[id]) - 1 /\ Len(inbox[id]) \in Nat
    BY <2>1
  <2>3. \A i \in 1 .. Len(Tail(inbox[id])) :
            i + 1 \in 1 .. Len(inbox[id]) /\ Tail(inbox[id])[i] = inbox[id][i + 1]
    BY <2>1, <2>2
  <2>4. inbox' = [inbox EXCEPT ![id] = Tail(inbox[id])] /\ UNCHANGED <<home, mon>>
    BY <1>22 DEF Hear, actorVars
  <2>5. ASSUME NEW x \in Ids, NEW i \in 1 .. Len(inbox'[x]), inbox'[x][i].what = "Connected"
        PROVE  inbox'[x][i].src \in Attempts /\ home[inbox'[x][i].src] \in Ids
    <3>1. CASE x = id
      <4>1. inbox'[x] = Tail(inbox[id])
        BY <2>4, <3>1
      <4>2. i + 1 \in 1 .. Len(inbox[id]) /\ inbox'[x][i] = inbox[id][i + 1]
        BY <2>3, <2>5, <4>1
      <4> QED
        BY <2>5, <4>2
    <3>2. CASE x # id
      BY <2>4, <2>5, <3>2
    <3> QED
      BY <3>1, <3>2
  <2>6. ASSUME NEW a \in Attempts, adopt'[a] # "off" PROVE home[a] \in Ids
    <3> DEFINE e == Head(inbox[id])
    <3>1. e = inbox[id][1] /\ 1 \in 1 .. Len(inbox[id])
      BY <2>1, <2>2
    <3>2. e.what = "Connected" => home[e.src] \in Ids
      BY <3>1
    <3>3. adopt' = adopt \/ (e.what = "Connected" /\ adopt' = [adopt EXCEPT ![e.src] = "ask"])
      BY <1>22 DEF Hear, HearState
    <3> QED
      BY <2>6, <3>2, <3>3
  <2> QED
    BY <2>4, <2>5, <2>6
<1>23. ASSUME NEW a \in Attempts, AdoptAsk(a) PROVE Goal
  BY <1>23 DEF AdoptAsk, dartVars, busVars, actorVars, clsVars
<1>24. ASSUME NEW a \in Attempts, AdoptLand(a) PROVE Goal
  BY <1>24 DEF AdoptLand, dartVars, busVars, actorVars, clsVars
<1>25. ASSUME NEW a \in Attempts, LinkDies(a) PROVE Goal
  BY <1>25 DEF LinkDies, dartVars, busVars, actorVars, clsVars
<1>26. ASSUME UNCHANGED vars PROVE Goal
  BY <1>26 DEF vars, dartVars, busVars, actorVars, clsVars
<1> QED
  BY <1>1, <1>2, <1>3, <1>4, <1>5, <1>6, <1>7, <1>8, <1>9,
     <1>10, <1>11, <1>12, <1>13, <1>14, <1>15, <1>16, <1>17, <1>18,
     <1>19, <1>20, <1>21, <1>22, <1>23, <1>24, <1>25, <1>26
  DEF Next, User, CloserStep, DriverStep, MonitorStep, AdoptStep

-----------------------------------------------------------------------------
\* A registered actor is taken down only by its own monitor.
LEMMA DropStep == TypeOK /\ Actors /\ Rows /\ SessionIffConnected /\ [Next]_vars => Dropless
<1> SUFFICES ASSUME TypeOK, Actors, Rows, SessionIffConnected, [Next]_vars PROVE Dropless
  OBVIOUS
<1> DEFINE Goal == Dropless
<1> SUFFICES Goal
  OBVIOUS
<1> USE ConnectionAssumption DEF TypeOK, Actors, Rows, SessionIffConnected, PreAuth, Early, Dropless
<1>1. ASSUME NEW id \in Ids, NEW a \in Attempts, Connect(id, a) PROVE Goal
  BY <1>1 DEF Connect, Begin, dartVars, busVars, actorVars, clsVars
<1>2. ASSUME NEW id \in Ids, NEW a \in Attempts, Reconnect(id, a) PROVE Goal
  BY <1>2 DEF Reconnect, Begin, dartVars, busVars, actorVars, clsVars
<1>3. ASSUME NEW id \in Ids, Disconnect(id) PROVE Goal
  BY <1>3 DEF Disconnect, dartVars, busVars, actorVars, clsVars
<1>4. ASSUME NEW id \in Ids, Dispose(id) PROVE Goal
  BY <1>4 DEF Dispose, dartVars, busVars, actorVars, clsVars
<1>5. ASSUME NEW a \in Attempts, StageThrows(a) PROVE Goal
  BY <1>5 DEF StageThrows, dartVars, busVars, actorVars, clsVars
<1>6. ASSUME NEW a \in Attempts, Insert(a) PROVE Goal
  BY <1>6 DEF Insert, dartVars, busVars, actorVars, clsVars
<1>7. ASSUME NEW a \in Attempts, Enter(a) PROVE Goal
  BY <1>7 DEF Enter, dartVars, busVars, actorVars, clsVars
<1>8. ASSUME NEW a \in Attempts, Announce(a) PROVE Goal
  BY <1>8 DEF Announce, dartVars, busVars, actorVars, clsVars
<1>9. ASSUME NEW a \in Attempts, AuthOk(a) PROVE Goal
  BY <1>9 DEF AuthOk, dartVars, busVars, actorVars, clsVars
<1>10. ASSUME NEW a \in Attempts, Up(a) PROVE Goal
  BY <1>10 DEF Up, dartVars, busVars, actorVars, clsVars
<1>11. ASSUME NEW a \in Attempts, AuthFail(a) PROVE Goal
  BY <1>11 DEF AuthFail, dartVars, busVars, actorVars, clsVars
<1>12. ASSUME NEW a \in Attempts, Down(a) PROVE Goal
  BY <1>12 DEF Down, dartVars, busVars, actorVars, clsVars
<1>13. ASSUME NEW a \in Attempts, Return(a) PROVE Goal
  BY <1>13 DEF Return, dartVars, busVars, actorVars, clsVars
<1>14. ASSUME NEW a \in Attempts, MonitorLook(a) PROVE Goal
  BY <1>14 DEF MonitorLook, dartVars, busVars, actorVars, clsVars
<1>15. ASSUME NEW a \in Attempts, MonitorCheck(a) PROVE Goal
  BY <1>15 DEF MonitorCheck, dartVars, busVars, actorVars, clsVars
<1>16. ASSUME NEW a \in Attempts, MonitorFlip(a) PROVE Goal
  <2>1. CASE st[a] = "Connected"
    <3>1. sess' = [sess EXCEPT ![a] = FALSE]
      BY <1>16, <2>1, FlipCases
    <3>2. st' = [st EXCEPT ![a] = "Disconnected"] /\ mon' = [mon EXCEPT ![a] = "tell"]
      BY <1>16, <2>1, FlipCases
    <3>3. UNCHANGED <<reg, home, link, drv, cls, held>> /\ link[a] = "dead"
      BY <1>16, FlipCases
    <3> QED
      BY <3>1, <3>2, <3>3
  <2>2. CASE st[a] # "Connected"
    BY <1>16, <2>2, FlipCases
  <2> QED
    BY <2>1, <2>2
<1>17. ASSUME NEW a \in Attempts, MonitorTell(a) PROVE Goal
  BY <1>17 DEF MonitorTell, dartVars, busVars, actorVars, clsVars
<1>18. ASSUME NEW id \in Ids, Remove(id) PROVE Goal
  BY <1>18 DEF Remove, dartVars, busVars, actorVars, clsVars
<1>19. ASSUME NEW id \in Ids, Take(id) PROVE Goal
  <2>1. st' = [st EXCEPT ![held[id]] = "Disconnected"] /\ UNCHANGED <<reg, home, link>>
    BY <1>19 DEF Take
  <2>2. held[id] \in Attempts /\ ~Registered(held[id])
    BY <1>19 DEF Take
  <2> QED
    BY <2>1, <2>2
<1>20. ASSUME NEW id \in Ids, Close(id) PROVE Goal
  BY <1>20 DEF Close, dartVars, busVars, actorVars, clsVars
<1>21. ASSUME NEW id \in Ids, TellRemoved(id) PROVE Goal
  BY <1>21 DEF TellRemoved, dartVars, busVars, actorVars, clsVars
<1>22. ASSUME NEW id \in Ids, Hear(id) PROVE Goal
  BY <1>22 DEF Hear, dartVars, busVars, actorVars, clsVars
<1>23. ASSUME NEW a \in Attempts, AdoptAsk(a) PROVE Goal
  BY <1>23 DEF AdoptAsk, dartVars, busVars, actorVars, clsVars
<1>24. ASSUME NEW a \in Attempts, AdoptLand(a) PROVE Goal
  BY <1>24 DEF AdoptLand, dartVars, busVars, actorVars, clsVars
<1>25. ASSUME NEW a \in Attempts, LinkDies(a) PROVE Goal
  BY <1>25 DEF LinkDies, dartVars, busVars, actorVars, clsVars
<1>26. ASSUME UNCHANGED vars PROVE Goal
  BY <1>26 DEF vars, dartVars, busVars, actorVars, clsVars
<1> QED
  BY <1>1, <1>2, <1>3, <1>4, <1>5, <1>6, <1>7, <1>8, <1>9,
     <1>10, <1>11, <1>12, <1>13, <1>14, <1>15, <1>16, <1>17, <1>18,
     <1>19, <1>20, <1>21, <1>22, <1>23, <1>24, <1>25, <1>26
  DEF Next, User, CloserStep, DriverStep, MonitorStep, AdoptStep

-----------------------------------------------------------------------------
\* The first state: no attempt has begun.
LEMMA InvInit == Init => Inv
<1> SUFFICES ASSUME Init PROVE Inv
  OBVIOUS
<1>1. <<>> \in Seq(Events) /\ Len(<<>>) = 0
  OBVIOUS
<1>2. TypeOK
  BY <1>1, ConnectionAssumption DEF Init, TypeOK, States
<1>3. Actors /\ Rows /\ MonHome
  BY ConnectionAssumption DEF Init, Actors, Rows, MonHome, Registered
<1>4. Mail
  BY <1>1 DEF Init, Mail
<1>5. SessionIffConnected /\ Watched
  BY DEF Init, SessionIffConnected, Watched
<1> QED
  BY <1>2, <1>3, <1>4, <1>5 DEF Inv

\* Every step of the connection layer preserves the invariant.
LEMMA InvStep == Inv /\ [Next]_vars => Inv'
BY TypeStep, ActorsStep, RowsStep, MailStep, SessionStep, WatchedStep DEF Inv

\* The invariant holds in every reachable state.
THEOREM ConnectionInvariant == Spec => []Inv
BY InvInit, InvStep, PTL DEF Spec

\* Type correctness of the registry, the tasks and the Dart mirror.
THEOREM ConnectionTyped == Spec => []TypeOK
<1>1. Inv => TypeOK
  BY DEF Inv
<1> QED
  BY <1>1, ConnectionInvariant, PTL

\* clone_session (connection/mod.rs) answers exactly while the actor is
\* Connected, for any number of ids and of overlapping attempts.
THEOREM SessionMatchesState == Spec => []SessionIffConnected
<1>1. Inv => SessionIffConnected
  BY DEF Inv
<1> QED
  BY <1>1, ConnectionInvariant, PTL

\* Every registered session has its run_transport_monitor, or a driver that
\* is about to spawn it.
THEOREM RegisteredWatched == Spec => []Watched
<1>1. Inv => Watched
  BY DEF Inv
<1> QED
  BY <1>1, ConnectionInvariant, PTL

\* No stale driver, monitor or teardown takes a healthy registered connection
\* down: run_transport_monitor does, and only over a closed transport.
THEOREM OnlyDeadLinksDrop == Spec => NoSpuriousDrop
<1>1. Inv /\ [Next]_vars => Dropless
  BY DropStep DEF Inv
<1>2. Inv /\ [Next]_vars => [Dropless]_vars
  BY <1>1
<1> QED
  BY <1>2, ConnectionInvariant, PTL DEF Spec, NoSpuriousDrop, Dropless

=============================================================================
