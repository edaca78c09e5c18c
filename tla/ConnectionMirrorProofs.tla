----------------------- MODULE ConnectionMirrorProofs -----------------------
(***************************************************************************)
(* The Dart mirror of Connection agrees with the registry whenever nothing *)
(* of a connection is in flight, for every set of ids and attempts.        *)
(*                                                                         *)
(* The argument follows one connection whose latest attempt began when the *)
(* earlier ones had ended.  Only that attempt has a task, an event or an   *)
(* adoption under way; it is still trying (or was given up while it        *)
(* staged), or lives, or is lost, and each of these fixes what the inbox   *)
(* may still hold and what the mirror shows once it is empty.              *)
(***************************************************************************)
EXTENDS ConnectionProofs, SequenceTheorems

Told(what)     == [src |-> NoAttempt, what |-> what]
ConnectedBy(a) == [src |-> a, what |-> "Connected"]

\* No attempt yet.
Fresh(id) ==
    /\ inbox[id] = <<>> /\ gate[id] = "pending" /\ cls[id] = "off"
    /\ \A a \in Attempts : home[a] # id

\* The attempts before the latest have ended without a trace.
Past(id) ==
    \A a \in Attempts : home[a] = id /\ a # latest[id] =>
        drv[a] \in {"done", "thrown"} /\ mon[a] = "off" /\ adopt[a] = "off" /\ ~sess[a]

\* The latest attempt has the row of the id as soon as it is staged.
Lead(id) ==
    /\ latest[id] \in Attempts /\ home[latest[id]] = id /\ drv[latest[id]] # "idle"
    /\ sub[id] /\ cls[id] = "off"
    /\ drv[latest[id]] \notin {"staging", "thrown"} => reg[id] = latest[id]

\* Its driver runs: the bus has carried Connecting at most.
Trying(id, a) ==
    /\ gate[id] = "pending" /\ adopt[a] = "off" /\ mon[a] = "off"
    /\ sess[a] <=> drv[a] = "up"
    /\ inbox[id] = <<>> \/ (inbox[id] = <<Told("Connecting")>> /\ drv[a] \in {"auth", "up", "down"})

\* It failed or was dropped, and the bus carries the news or has delivered it.
Gone(id, a) ==
    /\ mon[a] = "off" /\ ~sess[a]
    /\ inbox[id] = <<>> => ui[id] = "Disconnected"
    /\ inbox[id] # <<>> => inbox[id][Len(inbox[id])].what = "Disconnected"

\* It succeeded, and its monitor has not yet told otherwise: the Connected
\* event is under way, or the adoption is, or the mirror wraps its session.
Live(id, a) ==
    /\ mon[a] # "off" /\ (sess[a] <=> mon[a] # "tell")
    /\ \/ /\ inbox[id] \in {<<ConnectedBy(a)>>, <<Told("Connecting"), ConnectedBy(a)>>}
          /\ adopt[a] = "off" /\ gate[id] = "pending"
       \/ /\ inbox[id] = <<>> /\ ui[id] = "Connected"
          /\ sess[a] => \/ adopt[a] \in {"ask", a} /\ gate[id] = "pending"
                        \/ adopt[a] = "off" /\ gate[id] = "yes" /\ transport[id] = a

Settling == {"return", "done"}

Phase(id, a) ==
    /\ drv[a] \notin Settling => Trying(id, a)
    /\ drv[a] \in Settling => Gone(id, a) \/ Live(id, a)

\* Open, and the latest attempt has no predecessor under way.
Clean(id) == owner[id] = "open" /\ ~crossed[id]

Story(id) ==
    /\ owner[id] = "fresh" => Fresh(id)
    /\ Clean(id) => Past(id) /\ Lead(id) /\ Phase(id, latest[id])

\* Who belongs to which id, and which connections listen and are torn down.
Places ==
    /\ \A id \in Ids : owner[id] = "open" => sub[id]
    /\ \A id \in Ids : cls[id] # "off" => owner[id] = "gone"
    /\ \A a \in Attempts : drv[a] = "idle" => home[a] = NoId
    /\ \A id \in Ids : held[id] # NoAttempt => home[held[id]] = id

\* A Connected event is its connection's own, and of the latest attempt.
Letters ==
    \A id \in Ids : \A i \in 1 .. Len(inbox[id]) :
        inbox[id][i].what = "Connected" =>
            /\ home[inbox[id][i].src] = id
            /\ Clean(id) => inbox[id][i].src = latest[id]

Mirror == Places /\ Letters /\ \A id \in Ids : Story(id)

-----------------------------------------------------------------------------
\* What a story is about does not change.
Same(id) ==
    /\ owner'[id] = owner[id] /\ latest'[id] = latest[id] /\ ui'[id] = ui[id]
    /\ transport'[id] = transport[id] /\ gate'[id] = gate[id] /\ sub'[id] = sub[id]
    /\ inbox'[id] = inbox[id] /\ reg'[id] = reg[id] /\ cls'[id] = cls[id]
    /\ crossed'[id] = crossed[id]
    /\ \A a \in Attempts : home'[a] = id <=> home[a] = id
    /\ \A a \in Attempts : home[a] = id =>
          drv'[a] = drv[a] /\ mon'[a] = mon[a] /\ adopt'[a] = adopt[a] /\ sess'[a] = sess[a]

\* A step that does not touch a connection keeps its story.
LEMMA StoryKept ==
    ASSUME NEW id \in Ids, Story(id), Same(id)
    PROVE  Story(id)'
<1>1. ASSUME owner'[id] = "fresh" PROVE Fresh(id)'
  BY <1>1 DEF Story, Fresh, Same
<1>2. ASSUME Clean(id)' PROVE (Past(id) /\ Lead(id) /\ Phase(id, latest[id]))'
  <2>1. Past(id) /\ Lead(id) /\ Phase(id, latest[id])
    BY <1>2 DEF Story, Same, Clean
  <2>2. Past(id)'
    BY <2>1 DEF Past, Same
  <2>3. Lead(id)'
    BY <2>1 DEF Lead, Same
  <2>4. latest[id] \in Attempts /\ home[latest[id]] = id /\ latest'[id] = latest[id]
    BY <2>1 DEF Lead, Same
  <2>5. Phase(id, latest[id])'
    BY <2>1, <2>4 DEF Same, Phase, Trying, Gone, Live, Told, ConnectedBy
  <2> QED
    BY <2>2, <2>3, <2>5
<1> QED
  BY <1>1, <1>2 DEF Story

\* A task, or an adoption, under way is the latest attempt's.
LEMMA Acting ==
    ASSUME Inv, Mirror, NEW a \in Attempts,
           drv[a] \notin {"idle", "done", "thrown"} \/ mon[a] # "off" \/ adopt[a] # "off"
    PROVE  /\ home[a] \in Ids /\ owner[home[a]] \in {"open", "gone"}
           /\ Clean(home[a]) =>
                 /\ a = latest[home[a]] /\ Past(home[a]) /\ Lead(home[a])
                 /\ Phase(home[a], a) /\ (drv[a] \notin {"staging", "thrown"} => reg[home[a]] = a) /\ sub[home[a]]
<1>1. home[a] \in Ids
  BY DEF Inv, Actors, MonHome, Mail
<1>2. Story(home[a]) /\ owner[home[a]] \in {"fresh", "open", "gone"}
  BY <1>1 DEF Mirror, Inv, TypeOK
<1>3. owner[home[a]] # "fresh"
  BY <1>2 DEF Story, Fresh
<1>4. ASSUME Clean(home[a]) PROVE a = latest[home[a]]
  BY <1>2, <1>4 DEF Story, Past
<1> QED
  BY <1>1, <1>2, <1>3, <1>4 DEF Story, Lead

\* It is enough to tell the story of the open connection a step acts on.
LEMMA OneStory ==
    ASSUME Mirror, NEW x \in Ids, owner[x] \in {"open", "gone"}, owner'[x] = owner[x], crossed'[x] = crossed[x],
           \A id \in Ids : id # x => Same(id),
           Clean(x) => (Past(x) /\ Lead(x) /\ Phase(x, latest[x]))'
    PROVE  \A id \in Ids : Story(id)'
<1>1. ASSUME NEW id \in Ids, id # x PROVE Story(id)'
  BY <1>1, StoryKept DEF Mirror
<1>2. Story(x)'
  BY DEF Story, Clean
<1> QED
  BY <1>1, <1>2

\* Short inboxes.
LEMMA Appends ==
    ASSUME NEW e, NEW f
    PROVE  /\ Append(<<>>, e) = <<e>> /\ Append(<<f>>, e) = <<f, e>>
           /\ Head(<<e>>) = e /\ Tail(<<e>>) = <<>>
           /\ Head(<<f, e>>) = f /\ Tail(<<f, e>>) = <<e>>
<1>1. Append(<<>>, e) = <<e>> /\ Append(<<f>>, e) = <<f, e>>
  <2>1. Append(<<>>, e) = <<e>>
    OBVIOUS
  <2>2. Append(<<f>>, e) = <<f, e>>
    <3>1. <<f>> \in Seq({e, f}) /\ <<f, e>> \in Seq({e, f}) /\ Len(<<f, e>>) = 2 /\ Len(<<f>>) = 1
      OBVIOUS
    <3>2. /\ Append(<<f>>, e) \in Seq({e, f}) /\ Len(Append(<<f>>, e)) = 2
          /\ Append(<<f>>, e)[1] = f /\ Append(<<f>>, e)[2] = e
      BY <3>1, AppendProperties
    <3>3. \A i \in 1 .. Len(Append(<<f>>, e)) : Append(<<f>>, e)[i] = <<f, e>>[i]
      <4>1. \A i \in 1 .. 2 : i = 1 \/ i = 2
        OBVIOUS
      <4>2. <<f, e>>[1] = f /\ <<f, e>>[2] = e
        OBVIOUS
      <4> QED
        BY <3>2, <4>1, <4>2
    <3>4. Len(Append(<<f>>, e)) = Len(<<f, e>>)
      BY <3>1, <3>2
    <3> QED
      BY <3>1, <3>2, <3>3, <3>4, SeqEqual
  <2> QED
    BY <2>1, <2>2
<1>2. Head(<<e>>) = e /\ Head(<<f, e>>) = f
  OBVIOUS
<1>3. <<e>> \in Seq({e, f}) /\ <<f, e>> \in Seq({e, f})
  OBVIOUS
<1>4. Tail(<<e>>) = <<>>
  BY <1>3
<1>5. Tail(<<f, e>>) = <<e>>
  BY <1>3
<1> QED
  BY <1>1, <1>2, <1>4, <1>5

-----------------------------------------------------------------------------
(* run_connect_driver.                                                     *)

\* A driver's step leaves the other attempts of its id and its own leadership alone.
LEMMA DriverLeads ==
    ASSUME TypeOK, NEW a \in Attempts, NEW x \in Ids, x = home[a], a = latest[x], Past(x),
           sub[x], cls[x] = "off", UNCHANGED <<latest, home, sub, cls>>,
           \A b \in Attempts : b # a => /\ drv'[b] = drv[b] /\ mon'[b] = mon[b]
                                        /\ adopt'[b] = adopt[b] /\ sess'[b] = sess[b],
           drv'[a] \notin {"idle", "staging"}, reg'[x] = a
    PROVE  Past(x)' /\ Lead(x)' /\ latest'[x] = a
BY DEF Past, Lead

\* The driver's steps: trying goes on, or ends in a live or a lost connection.
LEMMA MirrorDriver ==
    ASSUME Inv, Mirror, NEW a \in Attempts, DriverStep(a)
    PROVE  \A id \in Ids : Story(id)'
<1>0. TypeOK /\ SessionIffConnected /\ (drv[a] \in PreAuth => ~sess[a])
  BY DEF Inv, Actors
<1>1. drv[a] \notin {"idle", "done", "thrown"}
  BY DEF DriverStep, StageThrows, Insert, Enter, Announce, AuthOk, Up, AuthFail, Down, Return
<1>6. PICK x \in Ids : x = home[a]
  BY <1>1, Acting
<1>2. /\ owner[x] \in {"open", "gone"}
      /\ Clean(x) =>
            /\ a = latest[x] /\ Past(x) /\ Lead(x) /\ Phase(x, a)
            /\ (drv[a] \notin {"staging", "thrown"} => reg[x] = a) /\ sub[x] /\ cls[x] = "off"
  BY <1>6, <1>1, Acting DEF Lead
<1>3. /\ UNCHANGED <<owner, crossed, latest, ui, transport, gate, sub, adopt, home, cls>>
      /\ \A b \in Attempts : b # a => drv'[b] = drv[b] /\ mon'[b] = mon[b] /\ sess'[b] = sess[b]
      /\ \A id \in Ids : id # x => inbox'[id] = inbox[id] /\ reg'[id] = reg[id]
  BY <1>0, <1>6 DEF DriverStep, StageThrows, Insert, Enter, Announce, AuthOk, Up, AuthFail, Down,
     Return, Publish, dartVars, busVars, actorVars, clsVars, histVars, TypeOK
<1>4. \A id \in Ids : id # x => Same(id)
  BY <1>0, <1>6, <1>3 DEF Same
<1>5. ASSUME Clean(x) PROVE (Past(x) /\ Lead(x) /\ Phase(x, latest[x]))'
  <2>0. /\ drv[a] \notin Settling => Trying(x, a)
        /\ drv[a] \in Settling => Gone(x, a) \/ Live(x, a)
        /\ Past(x) /\ a = latest[x] /\ sub[x] /\ cls[x] = "off" /\ (drv[a] \notin {"staging", "thrown"} => reg[x] = a)
    BY <1>2, <1>5 DEF Phase
  <2>1. ASSUME drv'[a] \notin {"idle", "staging"}, reg'[x] = a
        PROVE  Past(x)' /\ Lead(x)' /\ latest'[x] = a
    BY <1>0, <1>6, <1>3, <2>0, <2>1, DriverLeads
  <2>2. CASE Insert(a)
    <3>1. /\ drv[a] = "staging" /\ drv'[a] = "enter" /\ reg'[x] = a
          /\ UNCHANGED <<gate, adopt, mon, inbox, sess>>
      BY <1>0, <1>6, <2>2 DEF Insert, TypeOK, dartVars, busVars
    <3>2. Trying(x, a)
      BY <2>0, <3>1 DEF Settling
    <3>3. Phase(x, a)'
      BY <3>1, <3>2 DEF Phase, Trying, Settling
    <3> QED
      BY <2>1, <3>1, <3>3
  <2>3. CASE Enter(a)
    <3>1. /\ drv[a] = "enter" /\ drv'[a] = "announce" /\ reg'[x] = a
          /\ UNCHANGED <<gate, adopt, mon, inbox, sess>>
      BY <1>0, <2>0, <2>3 DEF Enter, TypeOK, dartVars, busVars
    <3>2. Trying(x, a)
      BY <2>0, <3>1 DEF Settling
    <3>3. Phase(x, a)'
      BY <3>1, <3>2 DEF Phase, Trying, Settling
    <3> QED
      BY <2>1, <3>1, <3>3
  <2>4. CASE Announce(a)
    <3>1. /\ drv[a] = "announce" /\ drv'[a] = "auth" /\ reg'[x] = a
          /\ UNCHANGED <<gate, adopt, mon, sess>>
          /\ inbox'[x] = Append(inbox[x], Told("Connecting"))
      BY <1>0, <1>6, <2>0, <2>4 DEF Announce, Publish, Told, TypeOK, dartVars, actorVars
    <3>2. Trying(x, a)
      BY <2>0, <3>1 DEF Settling
    <3>3. inbox'[x] = <<Told("Connecting")>>
      BY <3>1, <3>2, Appends DEF Trying
    <3>4. Phase(x, a)'
      BY <3>1, <3>2, <3>3 DEF Phase, Trying, Settling, Told
    <3> QED
      BY <2>1, <3>1, <3>4
  <2>5. CASE AuthOk(a)
    <3>1. /\ drv[a] = "auth" /\ drv'[a] = "up" /\ reg'[x] = a /\ sess'[a]
          /\ UNCHANGED <<gate, adopt, mon, inbox>>
      BY <1>0, <2>0, <2>5 DEF AuthOk, TypeOK, dartVars, busVars
    <3>2. Trying(x, a)
      BY <2>0, <3>1 DEF Settling
    <3>3. Phase(x, a)'
      BY <3>1, <3>2 DEF Phase, Trying, Settling, Told
    <3> QED
      BY <2>1, <3>1, <3>3
  <2>6. CASE Up(a)
    <3>1. /\ drv[a] = "up" /\ drv'[a] = "return" /\ reg'[x] = a /\ mon'[a] = "sleep"
          /\ UNCHANGED <<gate, adopt, sess>>
          /\ inbox'[x] = Append(inbox[x], ConnectedBy(a))
      BY <1>0, <1>6, <2>0, <2>6 DEF Up, Publish, ConnectedBy, TypeOK, dartVars, actorVars
    <3>2. Trying(x, a)
      BY <2>0, <3>1 DEF Settling
    <3>3. inbox'[x] \in {<<ConnectedBy(a)>>, <<Told("Connecting"), ConnectedBy(a)>>}
      BY <3>1, <3>2, Appends DEF Trying
    <3>4. Live(x, a)'
      BY <3>1, <3>2, <3>3 DEF Live, Trying, ConnectedBy, Told
    <3>5. Phase(x, a)'
      BY <3>1, <3>4 DEF Phase, Settling
    <3> QED
      BY <2>1, <3>1, <3>5
  <2>7. CASE AuthFail(a)
    <3>1. /\ drv[a] = "auth" /\ drv'[a] = "down" /\ reg'[x] = a
          /\ UNCHANGED <<gate, adopt, mon, inbox, sess>>
      BY <1>0, <2>0, <2>7 DEF AuthFail, TypeOK, dartVars, busVars
    <3>2. Trying(x, a)
      BY <2>0, <3>1 DEF Settling
    <3>3. Phase(x, a)'
      BY <3>1, <3>2 DEF Phase, Trying, Settling, Told
    <3> QED
      BY <2>1, <3>1, <3>3
  <2>8. CASE Down(a)
    <3>1. /\ drv[a] = "down" /\ drv'[a] = "return" /\ reg'[x] = a
          /\ UNCHANGED <<gate, adopt, mon, sess>>
          /\ inbox'[x] = Append(inbox[x], Told("Disconnected"))
      BY <1>0, <1>6, <2>0, <2>8 DEF Down, Publish, Told, TypeOK, dartVars, actorVars
    <3>2. Trying(x, a)
      BY <2>0, <3>1 DEF Settling
    <3>3. /\ inbox[x] \in Seq(Events) /\ Told("Disconnected").what = "Disconnected"
          /\ Told("Disconnected") \in Events
      BY <1>0, <1>6 DEF TypeOK, Told, Events, States
    <3>4. inbox'[x] # <<>> /\ inbox'[x][Len(inbox'[x])].what = "Disconnected"
      BY <3>1, <3>3
    <3>5. Gone(x, a)'
      BY <3>1, <3>2, <3>4 DEF Gone, Trying
    <3>6. Phase(x, a)'
      BY <3>1, <3>5 DEF Phase, Settling
    <3> QED
      BY <2>1, <3>1, <3>6
  <2>9. CASE Return(a)
    <3>1. /\ drv[a] = "return" /\ drv'[a] = "done" /\ reg'[x] = a
          /\ UNCHANGED <<ui, transport, gate, adopt, mon, inbox, sess>>
      BY <1>0, <2>0, <2>9 DEF Return, TypeOK, busVars, actorVars
    <3>2. Phase(x, a)'
      BY <2>0, <3>1 DEF Phase, Gone, Live, Settling
    <3> QED
      BY <2>1, <3>1, <3>2
  <2>10. CASE StageThrows(a)
    <3>1. /\ drv[a] = "staging" /\ drv'[a] = "thrown" /\ UNCHANGED <<reg, gate, adopt, mon, inbox, sess>>
      BY <1>0, <2>10 DEF StageThrows, TypeOK, dartVars, busVars, actorVars
    <3>2. Trying(x, a)
      BY <2>0, <3>1 DEF Settling
    <3>3. Phase(x, a)'
      BY <3>1, <3>2 DEF Phase, Trying, Settling, Told
    <3>4. Past(x)' /\ Lead(x)' /\ latest'[x] = a
      BY <1>3, <1>6, <2>0, <3>1 DEF Past, Lead
    <3> QED
      BY <3>3, <3>4
  <2> QED
    BY <2>2, <2>3, <2>4, <2>5, <2>6, <2>7, <2>8, <2>9, <2>10 DEF DriverStep
<1> QED
  BY <1>2, <1>3, <1>4, <1>5, OneStory

-----------------------------------------------------------------------------
(* run_transport_monitor.                                                  *)

\* The monitor of an open connection's latest attempt finds its row, and a
\* session that is alive as long as the actor has it.
LEMMA MirrorMonitor ==
    ASSUME Inv, Mirror, NEW a \in Attempts, MonitorStep(a)
    PROVE  \A id \in Ids : Story(id)'
<1>0. TypeOK /\ SessionIffConnected /\ (drv[a] \in PreAuth => ~sess[a]) /\ (sess[a] => link[a] # "none")
  BY DEF Inv, Actors
<1>1. mon[a] # "off"
  BY DEF MonitorStep, MonitorLook, MonitorCheck, MonitorFlip, MonitorTell
<1>2. PICK x \in Ids : x = home[a]
  BY <1>1, Acting
<1>3. /\ owner[x] \in {"open", "gone"}
      /\ Clean(x) =>
            /\ a = latest[x] /\ Past(x) /\ Lead(x) /\ Phase(x, a)
            /\ (drv[a] \notin {"staging", "thrown"} => reg[x] = a) /\ sub[x]
  BY <1>1, <1>2, Acting
<1>4. /\ UNCHANGED <<owner, crossed, latest, ui, transport, gate, sub, adopt, home, cls, reg, drv>>
      /\ \A b \in Attempts : b # a => mon'[b] = mon[b] /\ sess'[b] = sess[b]
      /\ \A id \in Ids : id # x => inbox'[id] = inbox[id]
  BY <1>0, <1>2 DEF MonitorStep, MonitorLook, MonitorCheck, MonitorFlip, MonitorTell,
     Publish, dartVars, busVars, actorVars, clsVars, histVars, TypeOK
<1>5. \A id \in Ids : id # x => Same(id)
  BY <1>0, <1>2, <1>4 DEF Same
<1>6. ASSUME Clean(x) PROVE (Past(x) /\ Lead(x) /\ Phase(x, latest[x]))'
  <2>1. /\ a = latest[x] /\ a = latest'[x] /\ Past(x) /\ Lead(x) /\ Phase(x, a) /\ sub[x]
    BY <1>3, <1>4, <1>6
  <2>2. drv[a] \in Settling
    BY <1>1, <2>1 DEF Phase, Trying
  <2>3. Live(x, a)
    BY <1>1, <2>1, <2>2 DEF Phase, Gone
  <2>4. Registered(a)
    BY <1>2, <1>3, <1>6, <2>2, ConnectionAssumption DEF Registered, Settling
  <2>5. Past(x)' /\ Lead(x)'
    BY <1>4, <2>1 DEF Past, Lead
  <2>6. sess[a] => SessionAlive(a)
    BY <1>0, <2>4 DEF SessionAlive, HandleHeld
  <2>7. (Live(x, a) \/ Gone(x, a))'
    <3>1. CASE MonitorLook(a)
      <4>1. mon[a] = "sleep" /\ mon'[a] = "looked" /\ UNCHANGED <<sess, inbox>>
        BY <1>0, <2>4, <3>1 DEF MonitorLook, TypeOK, busVars, actorVars
      <4> QED
        BY <1>4, <2>3, <4>1 DEF Live, ConnectedBy, Told
    <3>2. CASE MonitorCheck(a)
      <4>1. mon[a] = "looked" /\ UNCHANGED <<sess, inbox>>
        BY <3>2 DEF MonitorCheck, busVars, actorVars
      <4>2. SessionAlive(a)
        BY <2>3, <2>6, <4>1 DEF Live
      <4>3. mon'[a] = "sleep"
        BY <1>0, <3>2, <4>2 DEF MonitorCheck, TypeOK
      <4> QED
        BY <1>4, <2>3, <4>1, <4>3 DEF Live, ConnectedBy, Told
    <3>3. CASE MonitorFlip(a)
      <4>1. mon[a] = "looked" /\ sess[a] /\ st[a] = "Connected"
        BY <1>0, <2>3, <3>3 DEF MonitorFlip, Live, SessionIffConnected
      <4>2. mon'[a] = "tell" /\ ~sess'[a] /\ UNCHANGED inbox
        BY <1>0, <3>3, <4>1 DEF MonitorFlip, TypeOK, busVars
      <4> QED
        BY <1>4, <2>3, <4>2 DEF Live, ConnectedBy, Told
    <3>4. CASE MonitorTell(a)
      <4>1. /\ mon[a] = "tell" /\ mon'[a] = "off" /\ UNCHANGED sess
            /\ inbox'[x] = Append(inbox[x], Told("Disconnected"))
        BY <1>0, <1>2, <2>1, <3>4 DEF MonitorTell, Publish, Told, TypeOK, actorVars
      <4>2. /\ inbox[x] \in Seq(Events) /\ Told("Disconnected").what = "Disconnected"
            /\ Told("Disconnected") \in Events
        BY <1>0 DEF TypeOK, Told, Events, States
      <4>3. inbox'[x] # <<>> /\ inbox'[x][Len(inbox'[x])].what = "Disconnected"
        BY <4>1, <4>2
      <4> QED
        BY <2>3, <4>1, <4>3 DEF Live, Gone
    <3> QED
      BY <3>1, <3>2, <3>3, <3>4 DEF MonitorStep
  <2>8. Phase(x, a)'
    BY <1>4, <2>2, <2>7 DEF Phase, Settling
  <2> QED
    BY <2>1, <2>5, <2>8
<1> QED
  BY <1>3, <1>4, <1>5, <1>6, OneStory

-----------------------------------------------------------------------------
(* _adoptSession.                                                          *)

\* The adoption of the latest attempt asks for its own row.
LEMMA MirrorAdopt ==
    ASSUME Inv, Mirror, NEW a \in Attempts, AdoptStep(a)
    PROVE  \A id \in Ids : Story(id)'
<1>0. TypeOK /\ SessionIffConnected /\ {"off", "ask", "null"} \cap Attempts = {}
  BY ConnectionAssumption DEF Inv
<1>1. adopt[a] # "off"
  BY <1>0 DEF AdoptStep, AdoptAsk, AdoptLand
<1>2. PICK x \in Ids : x = home[a]
  BY <1>1, Acting
<1>3. /\ owner[x] \in {"open", "gone"}
      /\ Clean(x) =>
            /\ a = latest[x] /\ Past(x) /\ Lead(x) /\ Phase(x, a)
            /\ (drv[a] \notin {"staging", "thrown"} => reg[x] = a) /\ sub[x]
  BY <1>1, <1>2, Acting
<1>4. /\ UNCHANGED <<owner, crossed, latest, ui, sub, inbox, home, cls, reg, drv, mon, sess>>
      /\ \A b \in Attempts : b # a => adopt'[b] = adopt[b]
      /\ \A id \in Ids : id # x => transport'[id] = transport[id] /\ gate'[id] = gate[id]
  BY <1>0, <1>2 DEF AdoptStep, AdoptAsk, AdoptLand, dartVars, busVars, actorVars, clsVars, histVars, TypeOK
<1>5. \A id \in Ids : id # x => Same(id)
  BY <1>0, <1>2, <1>4 DEF Same
<1>6. ASSUME Clean(x) PROVE (Past(x) /\ Lead(x) /\ Phase(x, latest[x]))'
  <2>1. /\ a = latest[x] /\ a = latest'[x] /\ Past(x) /\ Lead(x) /\ Phase(x, a) /\ sub[x]
    BY <1>3, <1>4, <1>6
  <2>2. drv[a] \in Settling
    BY <1>1, <2>1 DEF Phase, Trying
  <2>3. reg[x] = a /\ a # NoAttempt
    BY <1>3, <1>6, <2>2, ConnectionAssumption DEF Settling
  <2>4. Past(x)' /\ Lead(x)'
    BY <1>4, <2>1 DEF Past, Lead
  <2>5. CASE Gone(x, a)
    <3>1. Gone(x, a)'
      BY <1>4, <2>5 DEF Gone
    <3> QED
      BY <1>4, <2>1, <2>2, <2>4, <3>1 DEF Phase
  <2>6. CASE Live(x, a)
    <3>1. inbox[x] = <<>> /\ ui[x] = "Connected"
      BY <1>1, <2>6 DEF Live
    <3>2. ASSUME sess[a] PROVE \/ adopt'[a] \in {"ask", a} /\ gate'[x] = "pending"
                               \/ adopt'[a] = "off" /\ gate'[x] = "yes" /\ transport'[x] = a
      <4>1. adopt[a] \in {"ask", a} /\ gate[x] = "pending"
        BY <1>1, <2>6, <3>1, <3>2 DEF Live, ConnectedBy, Told
      <4>2. CASE AdoptAsk(a)
        <5>1. st[a] = "Connected"
          BY <1>0, <3>2 DEF SessionIffConnected
        <5>2. adopt'[a] = a /\ gate' = gate
          BY <1>0, <1>2, <2>3, <4>2, <5>1 DEF AdoptAsk, TypeOK, dartVars
        <5> QED
          BY <4>1, <5>2
      <4>3. CASE AdoptLand(a)
        <5>1. adopt[a] = a
          BY <1>0, <4>1, <4>3 DEF AdoptLand
        <5>2. a # "null"
          BY <1>0
        <5>3. adopt'[a] = "off" /\ gate'[x] = "yes" /\ transport'[x] = a
          BY <1>0, <1>2, <2>1, <4>1, <4>3, <5>1, <5>2 DEF AdoptLand, Settle, TypeOK
        <5> QED
          BY <5>3
      <4> QED
        BY <4>2, <4>3 DEF AdoptStep
    <3>3. Live(x, a)'
      BY <1>4, <2>6, <3>1, <3>2 DEF Live
    <3> QED
      BY <1>4, <2>1, <2>2, <2>4, <3>3 DEF Phase
  <2> QED
    BY <2>1, <2>2, <2>5, <2>6 DEF Phase
<1> QED
  BY <1>3, <1>4, <1>5, <1>6, OneStory

-----------------------------------------------------------------------------
(* The bus listener.                                                       *)

\* What the last event of an inbox is does not change as long as it is there.
LEMMA LastStays ==
    ASSUME NEW S, NEW q \in Seq(S), q # <<>>
    PROVE  /\ Tail(q) # <<>> => Tail(q)[Len(Tail(q))] = q[Len(q)]
           /\ Tail(q) = <<>> => Head(q) = q[Len(q)]
<1>0. Len(q) \in Nat \ {0} /\ Len(Tail(q)) = Len(q) - 1
  BY EmptySeq, HeadTailProperties
<1>1. /\ Head(q) = q[1] /\ Tail(q) \in Seq(S)
      /\ \A i \in 1 .. Len(q) - 1 : Tail(q)[i] = q[i + 1]
  OBVIOUS
<1>2. CASE Tail(q) = <<>>
  <2>1. Len(Tail(q)) = 0
    BY <1>2, EmptySeq
  <2>2. Len(q) = 1
    <3> DEFINE n == Len(q)  m == Len(Tail(q))
    <3>1. n \in Nat /\ m = n - 1 /\ m = 0
      BY <1>0, <2>1
    <3> HIDE DEF n, m
    <3>2. n = 1
      BY <3>1
    <3> QED
      BY <3>2 DEF n
  <2> QED
    BY <1>1, <1>2, <2>2
<1>3. CASE Tail(q) # <<>>
  <2>1. Len(Tail(q)) \in Nat \ {0}
    BY <1>1, <1>3, EmptySeq
  <2>2. Len(q) - 1 \in 1 .. Len(q) - 1 /\ (Len(q) - 1) + 1 = Len(q)
    BY <1>0, <2>1
  <2> QED
    BY <1>0, <1>1, <1>3, <2>2
<1> QED
  BY <1>2, <1>3

\* The listener hears its connection's own events, in order.
LEMMA MirrorHear ==
    ASSUME Inv, Mirror, NEW x \in Ids, Hear(x)
    PROVE  \A id \in Ids : Story(id)'
<1> DEFINE e == Head(inbox[x])
<1>0. TypeOK /\ {"off", "ask", "null"} \cap Attempts = {}
  BY ConnectionAssumption DEF Inv
<1>1. /\ inbox[x] \in Seq(Events) /\ inbox[x] # <<>> /\ sub[x]
      /\ inbox' = [inbox EXCEPT ![x] = Tail(inbox[x])] /\ inbox'[x] = Tail(inbox[x])
      /\ e \in Events /\ e = inbox[x][1] /\ 1 \in 1 .. Len(inbox[x])
      /\ UNCHANGED <<owner, crossed, latest, sub, home, cls, reg, drv, mon, sess>>
  BY <1>0 DEF Hear, TypeOK, actorVars, clsVars, histVars
<1>2. \/ e.what = "Removed" /\ UNCHANGED <<ui, adopt, transport, gate>>
      \/ /\ e.what \in {"Connecting", "Disconnected"} /\ adopt' = adopt /\ ui'[x] = e.what
         /\ e.what = "Connecting" => UNCHANGED <<gate, transport>>
         /\ \A id \in Ids : id # x => ui'[id] = ui[id] /\ transport'[id] = transport[id] /\ gate'[id] = gate[id]
      \/ /\ e.what = "Connected" /\ UNCHANGED <<gate, transport>> /\ ui' = [ui EXCEPT ![x] = "Connected"]
         /\ adopt' = [adopt EXCEPT ![e.src] = "ask"]
  BY <1>0, <1>1 DEF Hear, HearState, TypeOK, Events, States
<1>3. e.what = "Connected" =>
         /\ e.src \in Attempts /\ home[e.src] = x
         /\ Clean(x) => e.src = latest[x]
  BY <1>1 DEF Inv, Mail, Mirror, Letters
<1>4. Story(x)
  BY DEF Mirror
<1>5. owner[x] \in {"open", "gone"}
  BY <1>0, <1>1, <1>4 DEF TypeOK, Story, Fresh
<1>6. \A id \in Ids : id # x => Same(id)
  <2>1. ASSUME NEW id \in Ids, id # x PROVE Same(id)
    <3>1. ui'[id] = ui[id] /\ transport'[id] = transport[id] /\ gate'[id] = gate[id]
      BY <1>0, <1>2, <2>1 DEF TypeOK
    <3>2. \A a \in Attempts : home[a] = id => adopt'[a] = adopt[a]
      BY <1>0, <1>2, <1>3, <2>1 DEF TypeOK
    <3>3. inbox'[id] = inbox[id]
      BY <1>0, <1>1, <2>1 DEF TypeOK
    <3> QED
      BY <1>1, <3>1, <3>2, <3>3 DEF Same
  <2> QED
    BY <2>1
<1>7. ASSUME Clean(x) PROVE (Past(x) /\ Lead(x) /\ Phase(x, latest[x]))'
  <2>0. PICK a \in Attempts : a = latest[x] /\ home[a] = x
    BY <1>4, <1>7 DEF Story, Lead
  <2>1. a = latest'[x] /\ Past(x) /\ Lead(x) /\ Phase(x, a)
    BY <1>1, <1>4, <1>7, <2>0 DEF Story
  <2>2. Lead(x)'
    BY <1>1, <2>0, <2>1 DEF Lead
  <2>3. \A b \in Attempts : b # a => adopt'[b] = adopt[b]
    BY <1>0, <1>2, <1>3, <1>7, <2>0 DEF TypeOK
  <2>4. Past(x)'
    BY <1>1, <2>0, <2>1, <2>3 DEF Past
  <2>5. CASE drv[a] \notin Settling
    <3>1. Trying(x, a) /\ inbox[x] = <<Told("Connecting")>>
      BY <1>1, <2>1, <2>5 DEF Phase, Trying
    <3>2. e = Told("Connecting") /\ inbox'[x] = <<>>
      BY <1>1, <3>1, Appends
    <3>3. UNCHANGED <<gate, adopt>>
      BY <1>2, <3>2 DEF Told
    <3>4. Trying(x, a)'
      BY <1>1, <3>1, <3>2, <3>3 DEF Trying
    <3> QED
      BY <1>1, <2>1, <2>2, <2>4, <2>5, <3>4 DEF Phase
  <2>6. CASE drv[a] \in Settling /\ Gone(x, a)
    <3>1. mon'[a] = "off" /\ ~sess'[a] /\ inbox[x][Len(inbox[x])].what = "Disconnected"
      BY <1>1, <2>6 DEF Gone
    <3>2. CASE inbox'[x] = <<>>
      <4>1. e.what = "Disconnected"
        BY <1>1, <3>1, <3>2, LastStays
      <4>2. ui'[x] = "Disconnected"
        BY <1>2, <4>1
      <4> QED
        BY <1>1, <2>1, <2>2, <2>4, <2>6, <3>1, <3>2, <4>2 DEF Phase, Gone
    <3>3. CASE inbox'[x] # <<>>
      <4>1. inbox'[x][Len(inbox'[x])].what = "Disconnected"
        BY <1>1, <3>1, <3>3, LastStays
      <4> QED
        BY <1>1, <2>1, <2>2, <2>4, <2>6, <3>1, <3>3, <4>1 DEF Phase, Gone
    <3> QED
      BY <3>2, <3>3
  <2>7. CASE drv[a] \in Settling /\ Live(x, a)
    <3>1. /\ inbox[x] \in {<<ConnectedBy(a)>>, <<Told("Connecting"), ConnectedBy(a)>>}
          /\ adopt[a] = "off" /\ gate[x] = "pending"
      BY <1>1, <2>7 DEF Live
    <3>2. CASE inbox[x] = <<ConnectedBy(a)>>
      <4>1. e = ConnectedBy(a) /\ inbox'[x] = <<>>
        BY <1>1, <3>2, Appends
      <4>2. e.what = "Connected" /\ e.src = a
        BY <4>1 DEF ConnectedBy
      <4>3. adopt'[a] = "ask" /\ gate'[x] = "pending" /\ ui'[x] = "Connected"
        BY <1>0, <1>2, <3>1, <4>2 DEF TypeOK
      <4>4. Live(x, a)'
        BY <1>1, <2>7, <4>1, <4>3 DEF Live
      <4> QED
        BY <1>1, <2>1, <2>2, <2>4, <2>7, <4>4 DEF Phase
    <3>3. CASE inbox[x] = <<Told("Connecting"), ConnectedBy(a)>>
      <4>1. e = Told("Connecting") /\ inbox'[x] = <<ConnectedBy(a)>>
        BY <1>1, <3>3, Appends
      <4>2. UNCHANGED <<gate, adopt>>
        BY <1>2, <4>1 DEF Told
      <4>3. Live(x, a)'
        BY <1>1, <2>7, <3>1, <4>1, <4>2 DEF Live, ConnectedBy
      <4> QED
        BY <1>1, <2>1, <2>2, <2>4, <2>7, <4>3 DEF Phase
    <3> QED
      BY <3>1, <3>2, <3>3
  <2> QED
    BY <2>1, <2>5, <2>6, <2>7 DEF Phase
<1> QED
  BY <1>1, <1>5, <1>6, <1>7, OneStory

-----------------------------------------------------------------------------
(* The user.                                                               *)

\* A fresh attempt of a new connection, or of one that is settled and dropped.
LEMMA MirrorBegin ==
    ASSUME Inv, Mirror, NEW x \in Ids, NEW a \in Attempts, Connect(x, a) \/ Reconnect(x, a)
    PROVE  \A id \in Ids : Story(id)'
<1>0. TypeOK
  BY DEF Inv
<1>1. drv[a] = "idle" /\ home[a] = NoId /\ NoId \notin Ids
  BY ConnectionAssumption DEF Connect, Reconnect, Begin, Mirror, Places
<1>2. ~sess[a] /\ mon[a] = "off" /\ adopt[a] = "off"
  BY <1>0, <1>1 DEF Inv, Actors, MonHome, Mail, PreAuth, Early
<1>3. /\ home' = [home EXCEPT ![a] = x] /\ latest' = [latest EXCEPT ![x] = a]
      /\ ui' = [ui EXCEPT ![x] = "Connecting"] /\ drv' = [drv EXCEPT ![a] = "staging"]
      /\ UNCHANGED <<inbox, adopt, reg, sess, mon, cls>>
  BY DEF Connect, Reconnect, Begin, busVars, clsVars
<1>4. Story(x)
  BY DEF Mirror
<1>5. ASSUME NEW id \in Ids, id # x PROVE Same(id)
  <2>1. owner'[id] = owner[id] /\ transport'[id] = transport[id] /\ gate'[id] = gate[id] /\ sub'[id] = sub[id]
    BY <1>0, <1>5 DEF Connect, Reconnect, TypeOK, busVars
  <2>4. crossed'[id] = crossed[id]
    BY <1>0, <1>5 DEF Connect, Reconnect, TypeOK, histVars
  <2>2. latest'[id] = latest[id] /\ ui'[id] = ui[id]
    BY <1>0, <1>3, <1>5 DEF TypeOK
  <2>3. \A b \in Attempts : (home'[b] = id <=> home[b] = id) /\ (home[b] = id => drv'[b] = drv[b])
    BY <1>0, <1>1, <1>3, <1>5 DEF TypeOK
  <2> QED
    BY <1>3, <2>1, <2>2, <2>3, <2>4 DEF Same
<1>6. ASSUME Clean(x)'
      PROVE  /\ inbox[x] = <<>> /\ cls[x] = "off" /\ sub'[x] /\ gate'[x] = "pending"
             /\ \A b \in Attempts : home[b] = x =>
                   drv[b] \in {"done", "thrown"} /\ mon[b] = "off" /\ adopt[b] = "off" /\ ~sess[b]
  <2>1. CASE Connect(x, a)
    BY <1>0, <1>4, <2>1 DEF Connect, TypeOK, Story, Fresh
  <2>2. CASE Reconnect(x, a)
    <3>1. owner[x] = "open" /\ gate'[x] = "pending" /\ sub' = sub /\ crossed'[x] = ~Settled(x)
      BY <1>0, <2>2 DEF Reconnect, TypeOK, busVars
    <3>2. Settled(x) /\ sub[x]
      BY <1>6, <3>1 DEF Clean, Mirror, Places
    <3> QED
      BY <3>1, <3>2 DEF Settled, Quiet
  <2> QED
    BY <2>1, <2>2
<1>7. latest'[x] = a /\ home'[a] = x /\ drv'[a] = "staging"
  BY <1>0, <1>3 DEF TypeOK
<1>8. ASSUME Clean(x)' PROVE (Past(x) /\ Lead(x) /\ Phase(x, latest[x]))'
  <2>1. ASSUME NEW b \in Attempts, home'[b] = x, b # a
        PROVE  drv'[b] \in {"done", "thrown"} /\ mon'[b] = "off" /\ adopt'[b] = "off" /\ ~sess'[b]
    BY <1>0, <1>3, <1>6, <1>8, <2>1 DEF TypeOK
  <2>2. Past(x)'
    BY <1>7, <2>1 DEF Past
  <2>3. Lead(x)'
    BY <1>3, <1>6, <1>7, <1>8 DEF Lead
  <2>4. Phase(x, a)'
    BY <1>2, <1>3, <1>6, <1>7, <1>8 DEF Phase, Trying, Settling
  <2> QED
    BY <1>7, <2>2, <2>3, <2>4
<1>9. owner'[x] = "open"
  BY <1>0 DEF Connect, Reconnect, TypeOK
<1>11. Story(x)'
  BY <1>8, <1>9 DEF Story
<1>12. ASSUME NEW id \in Ids, id # x PROVE Story(id)'
  BY <1>5, <1>12, StoryKept DEF Mirror
<1> QED
  BY <1>11, <1>12

\* Steps on a connection that is gone, or about to be, and on a link.
LEMMA MirrorGone ==
    ASSUME Inv, Mirror, NEW x \in Ids,
           Disconnect(x) \/ Dispose(x) \/ CloserStep(x)
    PROVE  \A id \in Ids : Story(id)'
<1>0. TypeOK
  BY DEF Inv
<1>1. owner'[x] = "gone"
  <2>1. CASE Disconnect(x) \/ Dispose(x)
    BY <1>0, <2>1 DEF Disconnect, Dispose, TypeOK
  <2>2. CASE CloserStep(x)
    <3>1. cls[x] # "off" /\ owner' = owner
      BY <2>2 DEF CloserStep, Remove, Take, Close, TellRemoved, dartVars
    <3> QED
      BY <3>1 DEF Mirror, Places
  <2> QED
    BY <2>1, <2>2
<1>2. ASSUME NEW id \in Ids, id # x PROVE Same(id)
  <2>1. /\ UNCHANGED <<latest, gate, adopt, home, drv, mon, crossed>>
        /\ owner'[id] = owner[id] /\ ui'[id] = ui[id] /\ transport'[id] = transport[id]
        /\ sub'[id] = sub[id] /\ inbox'[id] = inbox[id] /\ reg'[id] = reg[id] /\ cls'[id] = cls[id]
    BY <1>0, <1>2 DEF Disconnect, Dispose, CloserStep, Remove, Take, Close, TellRemoved, Publish,
       TypeOK, dartVars, busVars, actorVars, clsVars, histVars
  <2>2. sess' = sess \/ (Take(x) /\ sess' = [sess EXCEPT ![held[x]] = FALSE])
    BY DEF Disconnect, Dispose, CloserStep, Remove, Take, Close, TellRemoved, actorVars
  <2>3. Take(x) => home[held[x]] = x
    BY ConnectionAssumption DEF Take, Inv, Rows, Mirror, Places
  <2>4. \A b \in Attempts : home[b] = id => sess'[b] = sess[b]
    BY <1>0, <1>2, <2>2, <2>3 DEF TypeOK
  <2> QED
    BY <2>1, <2>4 DEF Same
<1>3. ASSUME NEW id \in Ids, id # x PROVE Story(id)'
  BY <1>2, <1>3, StoryKept DEF Mirror
<1>4. Story(x)'
  BY <1>1 DEF Story, Clean
<1> QED
  BY <1>3, <1>4

-----------------------------------------------------------------------------
(* Every step.                                                             *)

\* Every step keeps the stories.
LEMMA StoriesStep ==
    ASSUME Inv, Mirror, [Next]_vars
    PROVE  \A id \in Ids : Story(id)'
<1>1. CASE (\E a \in Attempts : LinkDies(a)) \/ UNCHANGED vars
  <2>1. UNCHANGED <<owner, latest, ui, transport, gate, sub, inbox, reg, cls, home, drv, mon, adopt, sess, crossed>>
    BY <1>1 DEF LinkDies, vars, dartVars, busVars, actorVars, clsVars, histVars
  <2>2. \A id \in Ids : Same(id)
    BY <2>1 DEF Same
  <2> QED
    BY <2>2, StoryKept DEF Mirror
<1> QED
  BY <1>1, MirrorDriver, MirrorMonitor, MirrorAdopt, MirrorHear, MirrorBegin, MirrorGone
  DEF Next, User

\* Every step keeps attempts with their ids.
LEMMA PlacesStep == Inv /\ Places /\ [Next]_vars => Places'
<1> SUFFICES ASSUME Inv, Places, [Next]_vars PROVE Places'
  OBVIOUS
<1> DEFINE Listens == /\ \A id \in Ids : owner[id] = "open" => sub[id]
                      /\ \A id \in Ids : cls[id] # "off" => owner[id] = "gone"
           Homes   == /\ \A a \in Attempts : drv[a] = "idle" => home[a] = NoId
                      /\ \A id \in Ids : held[id] # NoAttempt => home[held[id]] = id
<1>0. TypeOK /\ NoId \notin Ids /\ NoAttempt \notin Attempts
  BY ConnectionAssumption DEF Inv
<1>1. ASSUME NEW x \in Ids, NEW a \in Attempts, Connect(x, a) \/ Reconnect(x, a) PROVE Places'
  <2>1. /\ drv[a] = "idle" /\ home[a] = NoId /\ home' = [home EXCEPT ![a] = x]
        /\ drv' = [drv EXCEPT ![a] = "staging"] /\ UNCHANGED held
    BY <1>1 DEF Connect, Reconnect, Begin, Places, clsVars
  <2>2. \A id \in Ids : held[id] # NoAttempt => held[id] \in Attempts /\ held[id] # a
    BY <1>0, <2>1 DEF Places, TypeOK
  <2>3. Homes'
    BY <1>0, <2>1, <2>2 DEF Places, TypeOK
  <2>4. /\ cls' = cls /\ owner[x] # "gone" /\ \A id \in Ids : id # x => owner'[id] = owner[id]
        /\ \A id \in Ids : sub'[id] = sub[id] \/ (id = x /\ sub'[id])
        /\ owner[x] = "fresh" => sub'[x]
    BY <1>0, <1>1 DEF Connect, Reconnect, TypeOK, busVars, clsVars
  <2>5. Listens'
    BY <1>0, <2>4 DEF Places, TypeOK
  <2> QED
    BY <2>3, <2>5 DEF Places
<1>2. ASSUME NEW a \in Attempts, DriverStep(a) PROVE Places'
  <2>1. /\ drv[a] # "idle" /\ UNCHANGED <<home, held, owner, sub, cls>>
        /\ \E w : w # "idle" /\ drv' = [drv EXCEPT ![a] = w]
    BY <1>2 DEF DriverStep, StageThrows, Insert, Enter, Announce, AuthOk, Up, AuthFail, Down, Return,
       dartVars, busVars, actorVars, clsVars
  <2> QED
    BY <1>0, <2>1 DEF Places, TypeOK
<1>3. ASSUME NEW x \in Ids, CloserStep(x) PROVE Places'
  <2>1. UNCHANGED <<home, drv, owner, sub>>
    BY <1>3 DEF CloserStep, Remove, Take, Close, TellRemoved, dartVars, busVars, actorVars
  <2>2. held' = held \/ held' = [held EXCEPT ![x] = reg[x]] \/ held' = [held EXCEPT ![x] = NoAttempt]
    BY <1>3 DEF CloserStep, Remove, Take, Close, TellRemoved
  <2>3. reg[x] # NoAttempt => home[reg[x]] = x
    BY DEF Inv, Rows
  <2>4. held \in [Ids -> Attempts \cup {NoAttempt}]
    BY <1>0 DEF TypeOK
  <2>5. \A id \in Ids : held'[id] \in {held[id], NoAttempt} \/ (id = x /\ held'[id] = reg[x])
    BY <2>2, <2>4
  <2>6. cls[x] # "off" /\ \A id \in Ids : id # x => cls'[id] = cls[id]
    BY <1>0, <1>3 DEF CloserStep, Remove, Take, Close, TellRemoved, TypeOK
  <2>7. Listens'
    BY <2>1, <2>6 DEF Places
  <2>8. Homes'
    BY <2>1, <2>3, <2>5 DEF Places
  <2> QED
    BY <2>7, <2>8 DEF Places
<1>4. ASSUME UNCHANGED <<home, drv, held, owner, sub, cls>> PROVE Places'
  BY <1>4 DEF Places
<1>5. ASSUME NEW a \in Attempts, MonitorStep(a) \/ AdoptStep(a) \/ LinkDies(a)
      PROVE  UNCHANGED <<home, drv, held, owner, sub, cls>>
  BY <1>5 DEF MonitorStep, MonitorLook, MonitorCheck, MonitorFlip, MonitorTell, AdoptStep, AdoptAsk,
     AdoptLand, LinkDies, dartVars, busVars, actorVars, clsVars
<1>6. ASSUME NEW x \in Ids, Hear(x) PROVE UNCHANGED <<home, drv, held, owner, sub, cls>>
  BY <1>6 DEF Hear, actorVars, clsVars
<1>8. ASSUME NEW x \in Ids, Disconnect(x) \/ Dispose(x) PROVE Places'
  <2>1. UNCHANGED <<home, drv, held>>
    BY <1>8 DEF Disconnect, Dispose, actorVars, clsVars
  <2>2. /\ owner'[x] = "gone"
        /\ \A id \in Ids : id # x => owner'[id] = owner[id] /\ sub'[id] = sub[id] /\ cls'[id] = cls[id]
    BY <1>0, <1>8 DEF Disconnect, Dispose, busVars, clsVars, TypeOK
  <2>3. Listens'
    BY <2>2 DEF Places
  <2> QED
    BY <2>1, <2>3 DEF Places
<1>7. UNCHANGED vars => UNCHANGED <<home, drv, held, owner, sub, cls>>
  BY DEF vars, dartVars, busVars, actorVars, clsVars
<1> QED
  BY <1>1, <1>2, <1>3, <1>4, <1>5, <1>6, <1>7, <1>8 DEF Next, User

\* An event on the bus keeps its connection, and none is older than a retry.
LEMMA LettersStep ==
    ASSUME Inv, Mirror, [Next]_vars
    PROVE  Letters'
<1>0. TypeOK /\ NoId \notin Ids
  BY ConnectionAssumption DEF Inv
<1>1. ASSUME NEW x \in Ids, NEW s \in Attempts \cup {NoAttempt}, NEW w \in States \cup {"Removed"},
             Publish(x, s, w), UNCHANGED <<home, owner, latest, crossed>>,
             w = "Connected" => home[s] = x /\ (Clean(x) => s = latest[x])
      PROVE  Letters'
  <2>1. ASSUME NEW id \in Ids, NEW i \in 1 .. Len(inbox'[id]), inbox'[id][i].what = "Connected"
        PROVE  /\ home'[inbox'[id][i].src] = id
               /\ Clean(id)' => inbox'[id][i].src = latest'[id]
    <3>1. CASE i \in 1 .. Len(inbox[id]) /\ inbox'[id][i] = inbox[id][i]
      BY <1>1, <2>1, <3>1 DEF Mirror, Letters, Clean
    <3>2. CASE id = x /\ inbox'[id][i].what = w /\ inbox'[id][i].src = s
      BY <1>1, <2>1, <3>2 DEF Clean
    <3>3. CASE id # x
      <4>1. inbox'[id] = inbox[id]
        BY <1>0, <1>1, <3>3 DEF Publish, TypeOK
      <4> QED
        BY <2>1, <3>1, <4>1
    <3>4. \/ i \in 1 .. Len(inbox[id]) /\ inbox'[id][i] = inbox[id][i]
          \/ inbox'[id][i].what = w /\ inbox'[id][i].src = s
      <4>1. TypeOK /\ Publish(x, s, w)
        BY <1>0, <1>1
      <4> QED
        BY <4>1, PublishMail DEF States
    <3> QED
      BY <3>1, <3>2, <3>3, <3>4
  <2> QED
    BY <2>1 DEF Letters
<1>2. ASSUME UNCHANGED <<inbox, home, latest, crossed>>, \A id \in Ids : owner'[id] = "open" => owner[id] = "open"
      PROVE  Letters'
  BY <1>2 DEF Mirror, Letters, Clean
<1>3. ASSUME NEW a \in Attempts, Announce(a) \/ Down(a) \/ MonitorTell(a) PROVE Letters'
  <2>1. drv[a] \notin {"idle", "done", "thrown"} \/ mon[a] # "off"
    BY <1>3 DEF Announce, Down, MonitorTell
  <2>2. home[a] \in Ids
    BY <2>1, Acting
  <2>3. \E w \in {"Connecting", "Disconnected"} :
           Publish(home[a], NoAttempt, w) /\ UNCHANGED <<home, owner, latest, crossed>>
    BY <1>3 DEF Announce, Down, MonitorTell, dartVars, actorVars, histVars
  <2> QED
    BY <1>1, <2>2, <2>3 DEF States
<1>4. ASSUME NEW a \in Attempts, Up(a) PROVE Letters'
  <2>1. drv[a] = "up" /\ Publish(home[a], a, "Connected") /\ UNCHANGED <<home, owner, latest, crossed>>
    BY <1>4 DEF Up, dartVars, actorVars, histVars
  <2>2. home[a] \in Ids /\ (Clean(home[a]) => a = latest[home[a]])
    BY <2>1, Acting
  <2> QED
    BY <1>1, <2>1, <2>2 DEF States
<1>5. ASSUME NEW x \in Ids, TellRemoved(x) PROVE Letters'
  <2>1. Publish(x, NoAttempt, "Removed") /\ UNCHANGED <<home, owner, latest, crossed>>
    BY <1>5 DEF TellRemoved, dartVars, actorVars, histVars
  <2> QED
    BY <1>1, <2>1
<1>6. ASSUME NEW x \in Ids, Hear(x) PROVE Letters'
  <2>1. /\ inbox[x] \in Seq(Events) /\ inbox[x] # <<>> /\ inbox' = [inbox EXCEPT ![x] = Tail(inbox[x])]
        /\ UNCHANGED <<home, owner, latest, crossed>>
    BY <1>0, <1>6 DEF Hear, TypeOK, actorVars, histVars
  <2>2. \A i \in 1 .. Len(Tail(inbox[x])) : i + 1 \in 1 .. Len(inbox[x]) /\ Tail(inbox[x])[i] = inbox[x][i + 1]
    BY <2>1, HeadTailProperties, EmptySeq
  <2>3. ASSUME NEW id \in Ids, NEW i \in 1 .. Len(inbox'[id])
        PROVE  \E j \in 1 .. Len(inbox[id]) : inbox'[id][i] = inbox[id][j]
    <3>1. CASE id = x
      BY <1>0, <2>1, <2>2, <2>3, <3>1 DEF TypeOK
    <3>2. CASE id # x
      BY <1>0, <2>1, <2>3, <3>2 DEF TypeOK
    <3> QED
      BY <3>1, <3>2
  <2> QED
    BY <2>1, <2>3 DEF Mirror, Letters, Clean
<1>7. ASSUME NEW x \in Ids, Dispose(x) PROVE Letters'
  <2>1. inbox' = [inbox EXCEPT ![x] = <<>>] /\ UNCHANGED <<home, owner, latest, crossed>>
    BY <1>7 DEF Dispose, actorVars, histVars
  <2>2. ASSUME NEW id \in Ids, NEW i \in 1 .. Len(inbox'[id])
        PROVE  i \in 1 .. Len(inbox[id]) /\ inbox'[id][i] = inbox[id][i]
    <3>1. CASE id = x
      BY <1>0, <2>1, <2>2, <3>1 DEF TypeOK
    <3>2. CASE id # x
      BY <1>0, <2>1, <2>2, <3>2 DEF TypeOK
    <3> QED
      BY <3>1, <3>2
  <2> QED
    BY <2>1, <2>2 DEF Mirror, Letters, Clean
<1>8. ASSUME NEW x \in Ids, NEW a \in Attempts, Connect(x, a) \/ Reconnect(x, a) PROVE Letters'
  <2>1. /\ drv[a] = "idle" /\ home[a] = NoId /\ home' = [home EXCEPT ![a] = x]
        /\ latest' = [latest EXCEPT ![x] = a] /\ UNCHANGED inbox
        /\ \A id \in Ids : id # x => owner'[id] = owner[id] /\ crossed'[id] = crossed[id]
    BY <1>0, <1>8 DEF Connect, Reconnect, Begin, Mirror, Places, busVars, histVars, TypeOK
  <2>2. Clean(x)' => inbox[x] = <<>>
    <3>1. CASE Connect(x, a)
      BY <3>1 DEF Connect, Mirror, Story, Fresh
    <3>2. CASE Reconnect(x, a)
      <4>1. crossed'[x] = ~Settled(x)
        BY <1>0, <3>2 DEF Reconnect, TypeOK
      <4> QED
        BY <4>1 DEF Clean, Settled, Quiet
    <3> QED
      BY <1>8, <3>1, <3>2
  <2>3. ASSUME NEW id \in Ids, NEW i \in 1 .. Len(inbox'[id]), inbox'[id][i].what = "Connected"
        PROVE  /\ home'[inbox'[id][i].src] = id
               /\ Clean(id)' => inbox'[id][i].src = latest'[id]
    <3>1. /\ inbox[id][i].src \in Attempts /\ home[inbox[id][i].src] = id
          /\ Clean(id) => inbox[id][i].src = latest[id]
      BY <2>1, <2>3 DEF Mirror, Letters, Inv, Mail
    <3>2. inbox[id][i].src # a
      BY <1>0, <2>1, <3>1
    <3>3. home'[inbox'[id][i].src] = id
      BY <1>0, <2>1, <3>1, <3>2 DEF TypeOK
    <3>4. CASE id = x
      BY <2>1, <2>2, <2>3, <3>3, <3>4
    <3>5. CASE id # x
      BY <1>0, <2>1, <3>1, <3>3, <3>5 DEF TypeOK, Clean
    <3> QED
      BY <3>4, <3>5
  <2> QED
    BY <2>3 DEF Letters
<1>9. ASSUME NEW a \in Attempts,
             \/ StageThrows(a) \/ Insert(a) \/ Enter(a) \/ AuthOk(a) \/ AuthFail(a) \/ Return(a)
             \/ MonitorLook(a) \/ MonitorCheck(a) \/ MonitorFlip(a) \/ AdoptStep(a) \/ LinkDies(a)
      PROVE  Letters'
  <2>1. UNCHANGED <<inbox, home, latest, owner, crossed>>
    BY <1>9 DEF StageThrows, Insert, Enter, AuthOk, AuthFail, Return, MonitorLook, MonitorCheck,
       MonitorFlip, AdoptStep, AdoptAsk, AdoptLand, LinkDies, dartVars, busVars, actorVars, histVars
  <2> QED
    BY <1>2, <2>1
<1>10. ASSUME NEW x \in Ids, Disconnect(x) \/ Remove(x) \/ Take(x) \/ Close(x) PROVE Letters'
  <2>1. UNCHANGED <<inbox, home, latest, crossed>> /\ \A id \in Ids : owner'[id] = "open" => owner[id] = "open"
    BY <1>0, <1>10 DEF Disconnect, Remove, Take, Close, dartVars, busVars, actorVars, histVars, TypeOK
  <2> QED
    BY <1>2, <2>1
<1>11. CASE UNCHANGED vars
  BY <1>2, <1>11 DEF vars, dartVars, busVars, actorVars, histVars
<1> QED
  BY <1>3, <1>4, <1>5, <1>6, <1>7, <1>8, <1>9, <1>10, <1>11
  DEF Next, User, CloserStep, DriverStep, MonitorStep

\* No connection has begun.
LEMMA MirrorInit == Init => Mirror
<1> SUFFICES ASSUME Init PROVE Mirror
  OBVIOUS
<1>1. /\ \A id \in Ids : inbox[id] = <<>> /\ gate[id] = "pending" /\ cls[id] = "off"
                         /\ owner[id] = "fresh" /\ held[id] = NoAttempt
      /\ \A a \in Attempts : home[a] = NoId
      /\ NoId \notin Ids
  BY ConnectionAssumption DEF Init
<1>2. Places /\ Letters
  BY <1>1 DEF Places, Letters
<1>3. \A id \in Ids : Story(id)
  BY <1>1 DEF Story, Fresh, Clean
<1> QED
  BY <1>2, <1>3 DEF Mirror

\* Once nothing is in flight, the story leaves two ends.
LEMMA MirrorAgrees ==
    ASSUME Inv, Mirror
    PROVE  UiAgrees
<1> SUFFICES ASSUME NEW id \in Ids, Clean(id), Quiet(id), drv[latest[id]] # "thrown"
             PROVE  /\ ui[id] \in {"Connected", "Disconnected"}
                    /\ ui[id] = "Connected" <=> \E a \in Attempts : reg[id] = a /\ sess[a]
                    /\ ui[id] = "Connected" => transport[id] = reg[id] /\ gate[id] = "yes"
  BY DEF UiAgrees, Agrees, Clean
<1>1. Story(id)
  BY DEF Mirror
<1>2. PICK a \in Attempts : a = latest[id] /\ home[a] = id /\ Lead(id) /\ Phase(id, a)
  BY <1>1 DEF Story, Lead
<1>3. /\ drv[a] = "done" /\ inbox[id] = <<>> /\ adopt[a] = "off" /\ mon[a] \in {"off", "sleep"}
      /\ reg[id] = a
  BY <1>2 DEF Quiet, Lead
<1>4. CASE Gone(id, a)
  BY <1>2, <1>3, <1>4 DEF Gone
<1>5. CASE Live(id, a)
  <2>1. ui[id] = "Connected" /\ sess[a]
    BY <1>3, <1>5 DEF Live
  <2>2. "off" \notin Attempts
    BY ConnectionAssumption
  <2>3. gate[id] = "yes" /\ transport[id] = a
    BY <1>3, <1>5, <2>1, <2>2 DEF Live
  <2> QED
    BY <1>3, <2>1, <2>3
<1> QED
  BY <1>2, <1>3, <1>4, <1>5 DEF Phase, Settling

\* The Dart Connection and the registry agree whenever nothing of the
\* connection is in flight, its last retry did not cross an earlier attempt and
\* no prompt was dismissed: no event, adoption, monitor or teardown, in whatever
\* order they are taken, leaves a wrong state, transport or answer behind
\* (_onBusStateChanged, _adoptSession).
THEOREM MirrorMatches == Spec => []UiAgrees
<1>1. Inv /\ Mirror /\ [Next]_vars => Mirror'
  BY StoriesStep, PlacesStep, LettersStep DEF Mirror
<1>2. Inv /\ Mirror => UiAgrees
  BY MirrorAgrees
<1> QED
  BY <1>1, <1>2, InvInit, InvStep, MirrorInit, PTL DEF Spec

=============================================================================
