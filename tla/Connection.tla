----------------------------- MODULE Connection -----------------------------
(***************************************************************************)
(* SSH connection lifecycle: the actor registry, the connect driver, the   *)
(* transport monitor and the teardown (lfs_core/src/connection/mod.rs),    *)
(* together with the Dart objects that start attempts and mirror the bus   *)
(* events                                                                  *)
(* (lib/providers/connections_notifier.dart,                               *)
(* lib/core/connection/connection.dart).                                   *)
(*                                                                         *)
(* Every call of connect_async makes a fresh actor, so an actor is named   *)
(* by its attempt.  An action is what happens between two lock             *)
(* acquisitions, bus publications or awaits.  The `generation` comparison  *)
(* of run_connect_driver is left out: the field of a fresh actor goes from *)
(* 0 to 1 once, so the comparison never fails.  Progress steps, errors and *)
(* the active-connection count are published by the same steps and left    *)
(* out: nothing modelled here reads them.                                  *)
(***************************************************************************)
EXTENDS Sequences

CONSTANTS Ids,       \* connection ids (UUIDs)
          Attempts,  \* connect attempts, one actor each
          NoAttempt, NoId

ASSUME ConnectionAssumption ==
    /\ NoAttempt \notin Attempts
    /\ NoId \notin Ids
    /\ {"off", "ask", "null"} \cap Attempts = {}

VARIABLES
    \* Dart: ConnectionsNotifier and Connection
    owner,      \* "fresh", "open" (in _connections) or "gone" (disconnected)
    latest,     \* the attempt whose generation is current
    ui,         \* Connection.state
    transport,  \* the attempt whose session Connection.transport wraps
    gate,       \* _transportAdopted: "pending", "yes" or "no"
    ready,      \* _readyCompleter is completed
    sub,        \* _busSub is listening
    inbox,      \* bus events on their way to _busSub
    adopt,      \* _adoptSession started by an attempt's Connected event
    \* Rust: registry and actors
    reg,        \* by_id
    home,       \* ConnectionActor.id
    st,         \* ConnectionActor.state
    sess,       \* ConnectionActor.session is Some
    link,       \* the russh transport of the attempt: "none", "up" or "dead"
    \* Rust: tasks
    drv,        \* _doConnect and run_connect_driver of an attempt
    mon,        \* run_transport_monitor of an attempt
    cls, held,  \* disconnect(id), and the actor it removed
    \* History
    crossed,    \* the latest attempt began before the earlier ones had ended
    late        \* attempts that took their row after the disconnect

dartVars  == <<owner, latest, ui, transport, gate, ready>>
busVars   == <<sub, inbox>>
actorVars == <<reg, home, st, sess, link>>
clsVars   == <<cls, held>>
histVars  == <<crossed, late>>
vars == <<dartVars, busVars, adopt, actorVars, drv, mon, clsVars, histVars>>

States  == {"Disconnected", "Connecting", "Connected"}
Events == [src : Attempts \cup {NoAttempt}, what : States \cup {"Removed"}]

Init ==
    /\ owner = [id \in Ids |-> "fresh"]
    /\ latest = [id \in Ids |-> NoAttempt]
    /\ ui = [id \in Ids |-> "Disconnected"]
    /\ transport = [id \in Ids |-> NoAttempt]
    /\ gate = [id \in Ids |-> "pending"]
    /\ ready = [id \in Ids |-> FALSE]
    /\ sub = [id \in Ids |-> FALSE]
    /\ inbox = [id \in Ids |-> <<>>]
    /\ adopt = [a \in Attempts |-> "off"]
    /\ reg = [id \in Ids |-> NoAttempt]
    /\ home = [a \in Attempts |-> NoId]
    /\ st = [a \in Attempts |-> "Disconnected"]
    /\ sess = [a \in Attempts |-> FALSE]
    /\ link = [a \in Attempts |-> "none"]
    /\ drv = [a \in Attempts |-> "idle"]
    /\ mon = [a \in Attempts |-> "off"]
    /\ cls = [id \in Ids |-> "off"]
    /\ held = [id \in Ids |-> NoAttempt]
    /\ crossed = [id \in Ids |-> FALSE]
    /\ late = {}

-----------------------------------------------------------------------------
(* Helpers.                                                                *)

\* is_current_generation: init / bump on (re)connect, dropped on disconnect.
Current(a) == owner[home[a]] = "open" /\ latest[home[a]] = a

Registered(a) == home[a] # NoId /\ reg[home[a]] = a

\* Bus::publish towards the Connection's subscription.
Publish(id, src, what) ==
    inbox' = IF sub[id]
             THEN [inbox EXCEPT ![id] = Append(@, [src |-> src, what |-> what])]
             ELSE inbox

\* Who keeps an actor's Arc alive, and who keeps its session's.
HandleHeld(a) ==
    \/ Registered(a)
    \/ drv[a] \in {"enter", "announce", "auth", "up", "down", "return"}
    \/ mon[a] # "off"
    \/ \E id \in Ids : held[id] = a

SessionAlive(a) ==
    /\ link[a] # "none"
    /\ \/ sess[a] /\ HandleHeld(a)
       \/ drv[a] \in {"up", "return"}
       \/ \E id \in Ids : transport[id] = a \/ (held[id] = a /\ cls[id] = "close")
       \/ \E b \in Attempts : adopt[b] = a

\* Nothing of the connection is in flight; a monitor may be asleep.
Quiet(id) ==
    /\ inbox[id] = <<>>
    /\ cls[id] = "off"
    /\ \A a \in Attempts :
          home[a] = id => /\ drv[a] \in {"thrown", "done"}
                          /\ mon[a] \in {"off", "sleep"}
                          /\ adopt[a] = "off"

\* Nothing of its attempts is left, not even a session.
Settled(id) ==
    /\ Quiet(id)
    /\ \A a \in Attempts : home[a] = id => mon[a] = "off" /\ ~sess[a]

-----------------------------------------------------------------------------
(* The user, through ConnectionsNotifier.                                  *)

\* Start _doConnect for a fresh attempt.
Begin(id, a) ==
    /\ drv[a] = "idle"
    /\ home' = [home EXCEPT ![a] = id]
    /\ latest' = [latest EXCEPT ![id] = a]
    /\ ui' = [ui EXCEPT ![id] = "Connecting"]
    /\ drv' = [drv EXCEPT ![a] = "staging"]

\* connectAsync.
Connect(id, a) ==
    /\ owner[id] = "fresh"
    /\ Begin(id, a)
    /\ owner' = [owner EXCEPT ![id] = "open"]
    /\ sub' = [sub EXCEPT ![id] = TRUE]
    /\ UNCHANGED <<transport, gate, ready, inbox, adopt, reg, st, sess,
                   link, mon, clsVars, histVars>>

\* reconnect: the old row stays registered until the new actor replaces it.
Reconnect(id, a) ==
    /\ owner[id] = "open"
    /\ Begin(id, a)
    /\ transport' = [transport EXCEPT ![id] = NoAttempt]
    /\ gate' = [gate EXCEPT ![id] = "pending"]
    /\ ready' = [ready EXCEPT ![id] = FALSE]
    /\ crossed' = [crossed EXCEPT ![id] = ~Settled(id)]
    /\ UNCHANGED <<owner, busVars, adopt, reg, st, sess, link, mon, clsVars, late>>

\* disconnect: the teardown command is dispatched and not awaited.
Disconnect(id) ==
    /\ owner[id] = "open"
    /\ owner' = [owner EXCEPT ![id] = "gone"]
    /\ transport' = [transport EXCEPT ![id] = NoAttempt]
    /\ ui' = [ui EXCEPT ![id] = "Disconnected"]
    /\ cls' = [cls EXCEPT ![id] = "remove"]
    /\ UNCHANGED <<latest, gate, ready, busVars, adopt, actorVars, drv, mon, held, histVars>>

\* dispose: after ConnectionRemoved or one second, the subscription ends and
\* the Connection becomes garbage.
Dispose(id) ==
    /\ owner[id] = "gone" /\ sub[id]
    /\ sub' = [sub EXCEPT ![id] = FALSE]
    /\ inbox' = [inbox EXCEPT ![id] = <<>>]
    /\ transport' = [transport EXCEPT ![id] = NoAttempt]
    /\ UNCHANGED <<owner, latest, ui, gate, ready, adopt, actorVars, drv,
                   mon, clsVars, histVars>>

-----------------------------------------------------------------------------
(* _doConnect and run_connect_driver.                                      *)

\* _authFromConfig throws (a dismissed PIN dialog): nobody catches it.
StageThrows(a) ==
    /\ drv[a] = "staging"
    /\ drv' = [drv EXCEPT ![a] = "thrown"]
    /\ UNCHANGED <<dartVars, busVars, adopt, actorVars, mon, clsVars, histVars>>

\* connect_async: the fresh actor takes the row of its id; without a bastion
\* nothing asks whether the connection is still there.
Insert(a) ==
    /\ drv[a] = "staging"
    /\ reg' = [reg EXCEPT ![home[a]] = a]
    /\ drv' = [drv EXCEPT ![a] = "enter"]
    /\ late' = IF owner[home[a]] = "gone" THEN late \cup {a} ELSE late
    /\ UNCHANGED <<dartVars, busVars, adopt, home, st, sess, link, mon, clsVars, crossed>>

Enter(a) ==
    /\ drv[a] = "enter"
    /\ st' = [st EXCEPT ![a] = "Connecting"]
    /\ drv' = [drv EXCEPT ![a] = "announce"]
    /\ UNCHANGED <<dartVars, busVars, adopt, reg, home, sess, link, mon, clsVars, histVars>>

Announce(a) ==
    /\ drv[a] = "announce"
    /\ Publish(home[a], NoAttempt, "Connecting")
    /\ drv' = [drv EXCEPT ![a] = "auth"]
    /\ UNCHANGED <<dartVars, sub, adopt, actorVars, mon, clsVars, histVars>>

\* Mutant: the session is stored by a second lock acquisition, state first.
AuthOk_StateOnly(a) ==
    /\ drv[a] = "auth"
    /\ st' = [st EXCEPT ![a] = "Connected"]
    /\ link' = [link EXCEPT ![a] = "up"]
    /\ drv' = [drv EXCEPT ![a] = "up"]
    /\ UNCHANGED <<dartVars, busVars, adopt, reg, home, sess, mon, clsVars, histVars>>

\* run_auth returned a session.
AuthOk(a) ==
    /\ drv[a] = "auth"
    /\ st' = [st EXCEPT ![a] = "Connected"]
    /\ sess' = [sess EXCEPT ![a] = TRUE]
    /\ link' = [link EXCEPT ![a] = "up"]
    /\ drv' = [drv EXCEPT ![a] = "up"]
    /\ UNCHANGED <<dartVars, busVars, adopt, reg, home, mon, clsVars, histVars>>

\* The monitor is spawned (it sleeps first) and Connected is published.
Up(a) ==
    /\ drv[a] = "up"
    /\ mon' = [mon EXCEPT ![a] = "sleep"]
    /\ Publish(home[a], a, "Connected")
    /\ drv' = [drv EXCEPT ![a] = "return"]
    /\ UNCHANGED <<dartVars, sub, adopt, actorVars, clsVars, histVars>>

\* run_auth failed or the connect timeout passed.
AuthFail(a) ==
    /\ drv[a] = "auth"
    /\ st' = [st EXCEPT ![a] = "Disconnected"]
    /\ drv' = [drv EXCEPT ![a] = "down"]
    /\ UNCHANGED <<dartVars, busVars, adopt, reg, home, sess, link, mon, clsVars, histVars>>

Down(a) ==
    /\ drv[a] = "down"
    /\ Publish(home[a], NoAttempt, "Disconnected")
    /\ drv' = [drv EXCEPT ![a] = "return"]
    /\ UNCHANGED <<dartVars, sub, adopt, actorVars, mon, clsVars, histVars>>

\* connection_connect returns: the finally block of _doConnect.
Return(a) ==
    /\ drv[a] = "return"
    /\ ready' = IF Current(a) THEN [ready EXCEPT ![home[a]] = TRUE] ELSE ready
    /\ drv' = [drv EXCEPT ![a] = "done"]
    /\ UNCHANGED <<owner, latest, ui, transport, gate, busVars, adopt, actorVars,
                   mon, clsVars, histVars>>

-----------------------------------------------------------------------------
(* run_transport_monitor.                                                  *)

\* A tick: is the actor still the row of its id?
MonitorLook(a) ==
    /\ mon[a] = "sleep"
    /\ mon' = [mon EXCEPT ![a] = IF Registered(a) THEN "looked" ELSE "off"]
    /\ UNCHANGED <<dartVars, busVars, adopt, actorVars, drv, clsVars, histVars>>

\* Mutant: the monitor returns after its first look at a healthy transport.
MonitorCheck_Once(a) ==
    /\ mon[a] = "looked"
    /\ ~SessionAlive(a) \/ link[a] = "up"
    /\ mon' = [mon EXCEPT ![a] = "off"]
    /\ UNCHANGED <<dartVars, busVars, adopt, actorVars, drv, clsVars, histVars>>

\* The session is gone (return) or its transport is open (sleep again).
MonitorCheck(a) ==
    /\ mon[a] = "looked"
    /\ ~SessionAlive(a) \/ link[a] = "up"
    /\ mon' = [mon EXCEPT ![a] = IF SessionAlive(a) THEN "sleep" ELSE "off"]
    /\ UNCHANGED <<dartVars, busVars, adopt, actorVars, drv, clsVars, histVars>>

\* Mutant: the flip does not ask whether the transport is closed.
MonitorFlip_Eager(a) ==
    /\ mon[a] = "looked"
    /\ SessionAlive(a)
    /\ st' = [st EXCEPT ![a] = "Disconnected"]
    /\ sess' = [sess EXCEPT ![a] = FALSE]
    /\ mon' = [mon EXCEPT ![a] = IF st[a] = "Connected" THEN "tell" ELSE "off"]
    /\ UNCHANGED <<dartVars, busVars, adopt, reg, home, link, drv, clsVars, histVars>>

\* The transport is closed: Connected becomes Disconnected, once.
MonitorFlip(a) ==
    /\ mon[a] = "looked"
    /\ SessionAlive(a) /\ link[a] = "dead"
    /\ \/ /\ st[a] = "Connected"
          /\ st' = [st EXCEPT ![a] = "Disconnected"]
          /\ sess' = [sess EXCEPT ![a] = FALSE]
          /\ mon' = [mon EXCEPT ![a] = "tell"]
       \/ /\ st[a] # "Connected"
          /\ mon' = [mon EXCEPT ![a] = "off"]
          /\ UNCHANGED <<st, sess>>
    /\ UNCHANGED <<dartVars, busVars, adopt, reg, home, link, drv, clsVars, histVars>>

MonitorTell(a) ==
    /\ mon[a] = "tell"
    /\ Publish(home[a], NoAttempt, "Disconnected")
    /\ mon' = [mon EXCEPT ![a] = "off"]
    /\ UNCHANGED <<dartVars, sub, adopt, actorVars, drv, clsVars, histVars>>

-----------------------------------------------------------------------------
(* disconnect(id).                                                         *)

\* Mutant: the row is looked up and not removed.
Remove_Get(id) ==
    /\ cls[id] = "remove"
    /\ held' = [held EXCEPT ![id] = reg[id]]
    /\ cls' = [cls EXCEPT ![id] = IF reg[id] = NoAttempt THEN "off" ELSE "take"]
    /\ UNCHANGED <<dartVars, busVars, adopt, actorVars, drv, mon, histVars>>

\* registry.remove; a missing row ends the call without an event.
Remove(id) ==
    /\ cls[id] = "remove"
    /\ held' = [held EXCEPT ![id] = reg[id]]
    /\ cls' = [cls EXCEPT ![id] = IF reg[id] = NoAttempt THEN "off" ELSE "take"]
    /\ reg' = [reg EXCEPT ![id] = NoAttempt]
    /\ UNCHANGED <<dartVars, busVars, adopt, home, st, sess, link, drv, mon, histVars>>

\* The actor becomes Disconnected and gives its session up.
Take(id) ==
    /\ cls[id] = "take"
    /\ st' = [st EXCEPT ![held[id]] = "Disconnected"]
    /\ sess' = [sess EXCEPT ![held[id]] = FALSE]
    /\ cls' = [cls EXCEPT ![id] = IF sess[held[id]] THEN "close" ELSE "tell"]
    /\ UNCHANGED <<dartVars, busVars, adopt, reg, home, link, drv, mon, held, histVars>>

\* Session::disconnect, awaited.
Close(id) ==
    /\ cls[id] = "close"
    /\ link' = [link EXCEPT ![held[id]] = "dead"]
    /\ cls' = [cls EXCEPT ![id] = "tell"]
    /\ UNCHANGED <<dartVars, busVars, adopt, reg, home, st, sess, drv, mon, held, histVars>>

TellRemoved(id) ==
    /\ cls[id] = "tell"
    /\ Publish(id, NoAttempt, "Removed")
    /\ cls' = [cls EXCEPT ![id] = "off"]
    /\ held' = [held EXCEPT ![id] = NoAttempt]
    /\ UNCHANGED <<dartVars, sub, adopt, actorVars, drv, mon, histVars>>

-----------------------------------------------------------------------------
(* Connection: the bus listener and the adoption of the session.           *)

Settle(g, answer) == IF g = "pending" THEN answer ELSE g

\* Mutant: a failed attempt does not wake the waiters of transportReady.
HearState_Silent(id, e) ==
    /\ ui' = [ui EXCEPT ![id] = e.what]
    /\ adopt' = IF e.what = "Connected" THEN [adopt EXCEPT ![e.src] = "ask"] ELSE adopt
    /\ transport' = IF e.what = "Disconnected"
                    THEN [transport EXCEPT ![id] = NoAttempt] ELSE transport
    /\ gate' = gate

\* Mutant: the Connected event does not fetch the session.
HearState_NoAdopt(id, e) ==
    /\ ui' = [ui EXCEPT ![id] = e.what]
    /\ adopt' = adopt
    /\ transport' = IF e.what = "Disconnected"
                    THEN [transport EXCEPT ![id] = NoAttempt] ELSE transport
    /\ gate' = IF e.what = "Disconnected"
               THEN [gate EXCEPT ![id] = Settle(@, "no")] ELSE gate

\* _onBusStateChanged.
HearState(id, e) ==
    /\ ui' = [ui EXCEPT ![id] = e.what]
    /\ adopt' = IF e.what = "Connected" THEN [adopt EXCEPT ![e.src] = "ask"] ELSE adopt
    /\ transport' = IF e.what = "Disconnected"
                    THEN [transport EXCEPT ![id] = NoAttempt] ELSE transport
    /\ gate' = IF e.what = "Disconnected"
               THEN [gate EXCEPT ![id] = Settle(@, "no")] ELSE gate

\* The listener handles the next event; ConnectionRemoved only wakes dispose.
Hear(id) ==
    /\ sub[id] /\ inbox[id] # <<>>
    /\ inbox' = [inbox EXCEPT ![id] = Tail(@)]
    /\ \/ /\ Head(inbox[id]).what = "Removed"
          /\ UNCHANGED <<ui, adopt, transport, gate>>
       \/ /\ Head(inbox[id]).what # "Removed"
          /\ HearState(id, Head(inbox[id]))
    /\ UNCHANGED <<owner, latest, ready, sub, actorVars, drv, mon, clsVars, histVars>>

\* Mutant: the row is not looked up before its state is read.
AdoptAsk_Unchecked(a) ==
    /\ adopt[a] = "ask"
    /\ adopt' = [adopt EXCEPT ![a] = reg[home[a]]]
    /\ UNCHANGED <<dartVars, busVars, actorVars, drv, mon, clsVars, histVars>>

\* connection_get_session: the session of the row, if it is Connected.
AdoptAsk(a) ==
    /\ adopt[a] = "ask"
    /\ LET r == reg[home[a]]
       IN adopt' = [adopt EXCEPT ![a] =
                       IF r # NoAttempt /\ st[r] = "Connected" THEN r ELSE "null"]
    /\ UNCHANGED <<dartVars, busVars, actorVars, drv, mon, clsVars, histVars>>

\* The continuation of _adoptSession.
AdoptLand(a) ==
    /\ adopt[a] \in Attempts \cup {"null"}
    /\ transport' = IF adopt[a] # "null" /\ sub[home[a]]
                    THEN [transport EXCEPT ![home[a]] = adopt[a]] ELSE transport
    /\ gate' = [gate EXCEPT ![home[a]] =
                   Settle(@, IF adopt[a] = "null" THEN "no" ELSE "yes")]
    /\ adopt' = [adopt EXCEPT ![a] = "off"]
    /\ UNCHANGED <<owner, latest, ui, ready, busVars, actorVars, drv, mon, clsVars, histVars>>

-----------------------------------------------------------------------------
\* External: the peer or the network closes the transport.
LinkDies(a) ==
    /\ link[a] = "up"
    /\ link' = [link EXCEPT ![a] = "dead"]
    /\ UNCHANGED <<dartVars, busVars, adopt, reg, home, st, sess, drv, mon, clsVars, histVars>>

User(id) == Disconnect(id) \/ \E a \in Attempts : Connect(id, a) \/ Reconnect(id, a)

DriverStep(a) ==
    \/ StageThrows(a) \/ Insert(a) \/ Enter(a) \/ Announce(a)
    \/ AuthOk(a) \/ Up(a) \/ AuthFail(a) \/ Down(a) \/ Return(a)
MonitorStep(a) ==
    MonitorLook(a) \/ MonitorCheck(a) \/ MonitorFlip(a) \/ MonitorTell(a)
CloserStep(id) == Remove(id) \/ Take(id) \/ Close(id) \/ TellRemoved(id)
AdoptStep(a) == AdoptAsk(a) \/ AdoptLand(a)

Next ==
    \/ \E id \in Ids : User(id) \/ CloserStep(id) \/ Hear(id) \/ Dispose(id)
    \/ \E a \in Attempts : DriverStep(a) \/ MonitorStep(a) \/ AdoptStep(a) \/ LinkDies(a)

Spec == Init /\ [][Next]_vars

-----------------------------------------------------------------------------
(* Properties.                                                             *)

\* Type correctness of the Dart objects, the registry, the actors and the tasks.
TypeOK ==
    /\ owner \in [Ids -> {"fresh", "open", "gone"}]
    /\ latest \in [Ids -> Attempts \cup {NoAttempt}]
    /\ ui \in [Ids -> States]
    /\ transport \in [Ids -> Attempts \cup {NoAttempt}]
    /\ gate \in [Ids -> {"pending", "yes", "no"}]
    /\ ready \in [Ids -> BOOLEAN]
    /\ sub \in [Ids -> BOOLEAN]
    /\ inbox \in [Ids -> Seq(Events)]
    /\ adopt \in [Attempts -> {"off", "ask", "null"} \cup Attempts]
    /\ reg \in [Ids -> Attempts \cup {NoAttempt}]
    /\ home \in [Attempts -> Ids \cup {NoId}]
    /\ st \in [Attempts -> States]
    /\ sess \in [Attempts -> BOOLEAN]
    /\ link \in [Attempts -> {"none", "up", "dead"}]
    /\ drv \in [Attempts -> {"idle", "staging", "enter", "announce", "auth", "up",
                             "down", "return", "done", "thrown"}]
    /\ mon \in [Attempts -> {"off", "sleep", "looked", "tell"}]
    /\ cls \in [Ids -> {"off", "remove", "take", "close", "tell"}]
    /\ held \in [Ids -> Attempts \cup {NoAttempt}]
    /\ crossed \in [Ids -> BOOLEAN]
    /\ late \subseteq Attempts

\* clone_session answers exactly while the actor is Connected, whatever the
\* driver, the monitor and a teardown of the same actor do to each other.
SessionIffConnected == \A a \in Attempts : sess[a] <=> st[a] = "Connected"

\* The row of an id never holds a session nobody watches: its driver is about
\* to spawn the monitor, or the monitor is alive (run_transport_monitor).
Watched ==
    \A a \in Attempts :
        Registered(a) /\ sess[a] => drv[a] = "up" \/ mon[a] \in {"sleep", "looked"}

\* A row leaves Connected, as long as it is the row, only when its own
\* transport is dead: no stale driver, monitor or teardown takes it down.
NoSpuriousDrop ==
    [][\A a \in Attempts :
          Registered(a) /\ Registered(a)' /\ st[a] = "Connected" /\ st'[a] # "Connected"
              => link[a] = "dead"]_vars

\* The mirror of an open connection shows the row of its registered actor.
Agrees(id) ==
    /\ ui[id] \in {"Connected", "Disconnected"}
    /\ ui[id] = "Connected" <=> \E a \in Attempts : reg[id] = a /\ sess[a]
    /\ ui[id] = "Connected" => transport[id] = reg[id] /\ gate[id] = "yes"

\* When nothing of an open connection is in flight, the Dart Connection shows
\* Connected exactly when the registered actor is, and then wraps that
\* actor's session and has told the waiters of transportReady "yes"
\* (_onBusStateChanged, _adoptSession).  Two exceptions: a retry that began
\* while something of an earlier attempt was left, and a dismissed prompt,
\* which leaves the connection at Connecting.
UiAgrees ==
    \A id \in Ids :
        /\ owner[id] = "open" /\ Quiet(id)
        /\ ~crossed[id] /\ drv[latest[id]] # "thrown"
        => Agrees(id)

\* What run_connect_driver says of a reconnect in mid-handshake: the results of
\* the earlier attempt are discarded and never overwrite the newer state.
NewerStateKept ==
    \A id \in Ids :
        owner[id] = "open" /\ Quiet(id) /\ drv[latest[id]] # "thrown" => Agrees(id)

\* When nothing is in flight and the Connection of a disconnected id has been
\* disposed, a session is alive only where it is wanted: in the row of an open
\* connection, or under a monitor whose next tick lets it go.  An attempt
\* that lost its row to a reconnect or a disconnect, also in the middle of
\* its handshake, leaves none behind.  Two exceptions: an attempt whose
\* credentials were staged only after the disconnect takes a row that nobody
\* owns (`late`), and after crossed attempts an open mirror may wrap the
\* session of the one that lost.
OrphansEnd ==
    \A a \in Attempts : \A id \in Ids :
        home[a] = id /\ Quiet(id) /\ (owner[id] = "gone" => ~sub[id]) /\ SessionAlive(a) =>
            \/ reg[id] = a /\ (owner[id] = "open" \/ a \in late)
            \/ mon[a] = "sleep" /\ reg[id] # a
            \/ owner[id] = "open" /\ crossed[id] /\ transport[id] = a

\* At rest nobody waits for `ready` or `transportReady` of an open connection,
\* however its attempts overlapped, except after a dismissed prompt, whose
\* exception ends _doConnect before the completers are reached.
AttemptResolves ==
    \A id \in Ids :
        owner[id] = "open" /\ Quiet(id) /\ drv[latest[id]] # "thrown" =>
            ready[id] /\ gate[id] # "pending"

=============================================================================
