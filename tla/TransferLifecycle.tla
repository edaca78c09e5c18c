-------------------------- MODULE TransferLifecycle --------------------------
(***************************************************************************)
(* The life of the row of one task, as the task lifecycle diagram of       *)
(* docs/ARCHITECTURE.md draws it.                                          *)
(***************************************************************************)
CONSTANT Tasks
VARIABLE state

Init == state = [t \in Tasks |-> "none"]

Move(t, from, to) ==
    /\ state[t] \in from
    /\ \E s \in to : state' = [state EXCEPT ![t] = s]

Enqueue(t) == Move(t, {"none"}, {"Queued"})
Forgo(t)   == Move(t, {"Queued"}, {"Cancelled"})
PickUp(t)  == Move(t, {"Queued"}, {"Running"})
Finish(t)  == Move(t, {"Running"}, {"Completed", "Failed", "Cancelled"})
Drop(t)    == Move(t, {"Completed", "Failed", "Cancelled"}, {"none"})

Next == \E t \in Tasks : Enqueue(t) \/ Forgo(t) \/ PickUp(t) \/ Finish(t) \/ Drop(t)

Spec == Init /\ [][Next]_state
=============================================================================
