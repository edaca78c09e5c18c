------------------------- MODULE TransferPoolProofs -------------------------
(***************************************************************************)
(* Proofs about TransferPool for every number of tasks, workers, targets   *)
(* and every channel capacity.                                             *)
(*                                                                         *)
(* The heart is ownership: a task is in exactly one place (a dispatch      *)
(* call, a slot of the channel, the hands of one worker), and that place   *)
(* determines the state of its row.  It is what makes the token map, the   *)
(* outcome a worker reports and the staging files belong to one run.       *)
(***************************************************************************)
EXTENDS TransferPool, TLAPS

Executing == {"start", "check", "io", "cleanup", "promote", "unlink", "rename", "disarm"}

InChan(t) == \E i \in 1 .. Len(chan) : chan[i] = t

\* Where a task is, and what its row says there.
Ownership ==
    /\ \A w \in Workers : job[w] = NoTask <=> pc[w] = "recv"
    /\ \A w, v \in Workers : job[w] = job[v] /\ job[w] # NoTask => w = v
    /\ \A i, j \in 1 .. Len(chan) : chan[i] = chan[j] => i = j
    /\ \A t \in sending : state[t] = "Queued" /\ ~InChan(t)
    /\ \A i \in 1 .. Len(chan) : state[chan[i]] = "Queued"
    /\ \A w \in Workers : job[w] # NoTask => job[w] \notin sending /\ ~InChan(job[w])
    /\ \A w \in Workers : pc[w] \in {"taken", "armed"} => state[job[w]] = "Queued"
    /\ \A w \in Workers : pc[w] \in Executing \cup {"report"} => state[job[w]] = "Running"
    /\ \A t \in fresh : state[t] = "none"
    /\ \A t \in Tasks \ fresh : req[t] \in Targets
    /\ \A t \in Tasks : state[t] = "Running" => \E w \in Workers : job[w] = t

\* The token map is exactly the set of armed runs.
TokenMap ==
    \A t \in Tasks, w \in Workers :
        tokens[t] = w <=> job[w] = t /\ pc[w] \in Executing \cup {"armed"}

\* What a run knows of its outcome before it writes it into the row.
Outcome ==
    /\ \A t \in fresh : t \notin delivered /\ t \notin unanswered
    /\ \A t \in Tasks : state[t] = "Queued" => t \notin delivered /\ t \notin unanswered
    /\ \A w \in Workers : pc[w] \in Executing \ {"disarm"} =>
          job[w] \notin delivered /\ job[w] \notin unanswered
    /\ \A w \in Workers : pc[w] \in {"disarm", "report"} =>
          \/ result[w] = "ok" /\ job[w] \in delivered
          \/ result[w] = "err" /\ (job[w] \notin delivered \/ job[w] \in unanswered)
    /\ \A w \in Workers : flag[w] =>
          pc[w] \in Executing \cup {"armed", "report"} /\ asked[job[w]] = "flagged"
    /\ ReportIsTrue

\* Only a run that is about to promote has a complete staging file to lose.
Staging ==
    /\ \A t \in fresh : part[t] = "absent"
    /\ \A t \in Tasks : state[t] = "Queued" => part[t] = "absent"
    /\ \A w \in Workers : pc[w] \in {"start", "check", "io", "cleanup"} => part[job[w]] # "full"
    /\ \A w \in Workers : pc[w] \in {"promote", "unlink", "rename"} => part[job[w]] = "full"
    /\ NoLostCopy

\* A run that unlinks its target, or will, uploads.
Direction ==
    \A w \in Workers : pc[w] \in {"unlink", "rename"} => Target(w).kind = "upload"

-----------------------------------------------------------------------------
\* A worker past its receive holds a task.
LEMMA JobTyped ==
    TypeOK /\ Ownership => \A w \in Workers : pc[w] # "recv" => job[w] \in Tasks
BY DEF TypeOK, Ownership

\* Every action keeps the state well typed: transfer/mod.rs and driver.rs
\* never store a value of another shape, and the channel never exceeds Cap.
LEMMA TypeStep == TypeOK /\ Ownership /\ [Next]_vars => TypeOK'
<1> SUFFICES ASSUME TypeOK, Ownership, [Next]_vars PROVE TypeOK'
  OBVIOUS
<1> DEFINE Goal == TypeOK'
<1> SUFFICES Goal
  OBVIOUS
<1>0. \A w \in Workers : pc[w] # "recv" => job[w] \in Tasks
  BY JobTyped
<1> USE PoolAssumption, <1>0 DEF TypeOK, States, Terminal, PCs, Content
<1>1. ASSUME NEW t \in Tasks, NEW g \in Targets, Enqueue(t, g) PROVE Goal
  BY <1>1 DEF Enqueue, workVars, fileVars
<1>2. ASSUME NEW t \in Tasks, Dispatch(t) PROVE Goal
  BY <1>2 DEF Dispatch, queueVars, workVars, fileVars
<1>3. ASSUME NEW t \in Tasks, Cancel(t) PROVE Goal
  <2>1. CASE tokens[t] # NoWorker
    BY <1>3, <2>1 DEF Cancel, queueVars, callVars, fileVars
  <2>2. CASE tokens[t] = NoWorker
    BY <1>3, <2>2 DEF Cancel, queueVars, callVars, fileVars
  <2> QED
    BY <2>1, <2>2
<1>4. ASSUME NEW t \in Tasks, DropTerminal(t) PROVE Goal
  BY <1>4 DEF DropTerminal, DropRow, callVars, workVars, fileVars
<1>5. ASSUME NEW t \in Tasks, ClearNext(t) PROVE Goal
  BY <1>5 DEF ClearNext, DropRow, workVars, fileVars
<1>6. ASSUME ClearHistory PROVE Goal
  BY <1>6 DEF ClearHistory, queueVars, workVars, fileVars
<1>7. ASSUME NEW w \in Workers, Recv(w) PROVE Goal
  BY <1>7 DEF Recv, Goto, queueVars, callVars, fileVars
<1>8. ASSUME NEW w \in Workers, Arm(w) PROVE Goal
  <2>1. CASE state[job[w]] = "none"
    BY <1>8, <2>1 DEF Arm, Goto, queueVars, callVars, fileVars
  <2>2. CASE state[job[w]] # "none"
    <3>1. tokens' = [tokens EXCEPT ![job[w]] = w]
      BY <1>8, <2>2 DEF Arm
    <3>2. pc' \in [Workers -> PCs] /\ flag' \in [Workers -> BOOLEAN]
      BY <1>8, <2>2 DEF Arm, Goto
    <3> QED
      BY <1>8, <2>2, <3>1, <3>2 DEF Arm, queueVars, callVars, fileVars
  <2> QED
    BY <2>1, <2>2
<1>9. ASSUME NEW w \in Workers, SetRunning(w) PROVE Goal
  BY <1>9 DEF SetRunning, Goto, SetState, callVars, fileVars
<1>10. ASSUME NEW w \in Workers, StartFail(w) PROVE Goal
  BY <1>10 DEF StartFail, Goto, Return, queueVars, callVars, fileVars
<1>11. ASSUME NEW w \in Workers, StartOk(w) PROVE Goal
  BY <1>11 DEF StartOk, Goto, Target, queueVars, callVars
<1>12. ASSUME NEW w \in Workers, Check(w) PROVE Goal
  BY <1>12 DEF Check, Goto, queueVars, callVars, fileVars
<1>13. ASSUME NEW w \in Workers, Chunk(w) PROVE Goal
  BY <1>13 DEF Chunk, Goto, queueVars, callVars, fileVars
<1>14. ASSUME NEW w \in Workers, IoError(w) PROVE Goal
  BY <1>14 DEF IoError, Goto, queueVars, callVars, fileVars
<1>15. ASSUME NEW w \in Workers, Eof(w) PROVE Goal
  <2>1. CASE Staged(Target(w))
    BY <1>15, <2>1 DEF Eof, Goto, Return, Target, queueVars, callVars
  <2>2. CASE ~Staged(Target(w))
    <3>1. file' \in [Targets -> Content] /\ delivered' \subseteq Tasks
      BY <1>15, <2>2 DEF Eof
    <3> QED
      BY <1>15, <2>2, <3>1 DEF Eof, Goto, Return, queueVars, callVars
  <2> QED
    BY <2>1, <2>2
<1>16. ASSUME NEW w \in Workers, Cleanup(w) PROVE Goal
  <2>1. CASE Staged(Target(w))
    BY <1>16, <2>1 DEF Cleanup, Goto, Return, Target, queueVars, callVars
  <2>2. CASE ~Staged(Target(w))
    BY <1>16, <2>2 DEF Cleanup, Goto, Return, Target, queueVars, callVars
  <2> QED
    BY <2>1, <2>2
<1>17. ASSUME NEW w \in Workers, RenameLocal(w) PROVE Goal
  <2>1. CASE Promoted(w)
    <3>1. file' \in [Targets -> Content] /\ delivered' \subseteq Tasks
      BY <1>17, <2>1 DEF RenameLocal, Promoted
    <3>2. part' \in [Tasks -> {"absent", "partial", "full"}]
      BY <1>17, <2>1 DEF RenameLocal, Promoted
    <3> QED
      BY <1>17, <2>1, <3>1, <3>2 DEF RenameLocal, Promoted, Return, Goto, queueVars, callVars
  <2>2. CASE NotPromoted(w)
    BY <1>17, <2>2 DEF RenameLocal, Goto, Return, Promoted, NotPromoted, Target, queueVars, callVars
  <2> QED
    BY <1>17, <2>1, <2>2 DEF RenameLocal
<1>18. ASSUME NEW w \in Workers, Unlink(w) PROVE Goal
  <2>1. file' \in [Targets -> Content]
    BY <1>18 DEF Unlink, Target
  <2> QED
    BY <1>18, <2>1 DEF Unlink, Goto, queueVars, callVars
<1>19. ASSUME NEW w \in Workers, RenameRemote(w) PROVE Goal
  <2>1. CASE Promoted(w)
    <3>1. file' \in [Targets -> Content] /\ delivered' \subseteq Tasks
      BY <1>19, <2>1 DEF RenameRemote, Promoted
    <3>2. part' \in [Tasks -> {"absent", "partial", "full"}]
      BY <1>19, <2>1 DEF RenameRemote, Promoted
    <3> QED
      BY <1>19, <2>1, <3>1, <3>2 DEF RenameRemote, Promoted, Return, Goto, queueVars, callVars
  <2>2. CASE NotPromoted(w)
    BY <1>19, <2>2 DEF RenameRemote, Goto, Return, Promoted, NotPromoted, Target, queueVars, callVars
  <2> QED
    BY <1>19, <2>1, <2>2 DEF RenameRemote
<1>20. ASSUME NEW w \in Workers, Disarm(w) PROVE Goal
  BY <1>20 DEF Disarm, Goto, queueVars, callVars, fileVars
<1>21. ASSUME NEW w \in Workers, Report(w) PROVE Goal
  BY <1>21 DEF Report, Goto, SetState, FailRow, CancelRow, callVars, fileVars
<1>23. ASSUME NEW w \in Workers, Unanswered(w) PROVE Goal
  BY <1>23 DEF Unanswered, Return, Goto, queueVars, callVars
<1>24. ASSUME NEW t \in Tasks, Lands(t) PROVE Goal
  <2>1. /\ file' \in [Targets -> Content] /\ delivered' \subseteq Tasks
        /\ part' \in [Tasks -> {"absent", "partial", "full"}]
    BY <1>24 DEF Lands
  <2> QED
    BY <1>24, <2>1 DEF Lands, queueVars, callVars, workVars
<1>22. ASSUME UNCHANGED vars PROVE Goal
  BY <1>22 DEF vars, queueVars, callVars, workVars, fileVars
<1> QED
  BY <1>1, <1>2, <1>3, <1>4, <1>5, <1>6, <1>7, <1>8, <1>9, <1>10, <1>11, <1>12, <1>13, <1>14, <1>15, <1>16, <1>17, <1>18, <1>19, <1>20, <1>21, <1>22, <1>23, <1>24 DEF Next, CallStep, WorkerStep

\* A step of a worker inside the executor leaves ownership alone.
LEMMA InsideExecutor ==
    ASSUME TypeOK, Ownership, NEW w \in Workers, pc[w] \in Executing,
           NEW l \in Executing \cup {"report"}, pc' = [pc EXCEPT ![w] = l],
           UNCHANGED <<state, req, fresh, sending, chan, job>>
    PROVE  Ownership'
BY DEF TypeOK, Ownership, InChan, Executing

\* A task that is neither Queued nor Running is in nobody's hands.
LEMMA Unowned ==
    ASSUME TypeOK, Ownership, NEW t \in Tasks, state[t] \notin {"Queued", "Running"}
    PROVE  t \notin sending /\ ~InChan(t) /\ \A w \in Workers : job[w] # t
<1>1. t \notin sending
  BY DEF Ownership
<1>2. ~InChan(t)
  BY DEF Ownership, InChan
<1>3. ASSUME NEW w \in Workers, job[w] = t PROVE FALSE
  <2>1. pc[w] # "recv" /\ pc[w] \in PCs
    BY <1>3, PoolAssumption DEF Ownership, TypeOK
  <2>2. pc[w] \in {"taken", "armed"} \/ pc[w] \in Executing \cup {"report"}
    BY <2>1 DEF PCs, Executing
  <2> QED
    BY <2>2, <1>3 DEF Ownership
<1> QED
  BY <1>1, <1>2, <1>3

\* Every action keeps ownership.
LEMMA OwnershipStep == TypeOK /\ Ownership /\ [Next]_vars => Ownership'
<1> SUFFICES ASSUME TypeOK, Ownership, [Next]_vars PROVE Ownership'
  OBVIOUS
<1> DEFINE Goal == Ownership'
<1> SUFFICES Goal
  OBVIOUS
<1>0. \A w \in Workers : pc[w] # "recv" => job[w] \in Tasks
  BY JobTyped
<1> USE PoolAssumption, <1>0
<1>1. ASSUME NEW t \in Tasks, NEW g \in Targets, Enqueue(t, g) PROVE Goal
  <2>1. state[t] = "none" /\ t \in fresh
    BY <1>1 DEF Enqueue, Ownership
  <2>2. t \notin sending /\ ~InChan(t) /\ \A w \in Workers : job[w] # t
    BY <2>1, Unowned
  <2>3. /\ state' = [state EXCEPT ![t] = "Queued"] /\ req' = [req EXCEPT ![t] = g]
        /\ sending' = sending \cup {t} /\ fresh' = fresh \ {t}
        /\ UNCHANGED <<chan, job, pc>>
    BY <1>1 DEF Enqueue, workVars
  <2> QED
    BY <2>1, <2>2, <2>3 DEF Ownership, InChan, TypeOK
<1>2. ASSUME NEW t \in Tasks, Dispatch(t) PROVE Goal
  BY <1>2 DEF Dispatch, queueVars, workVars, fileVars, TypeOK, Ownership, InChan, Terminal, Executing
<1>3. ASSUME NEW t \in Tasks, Cancel(t) PROVE Goal
  <2>1. UNCHANGED <<state, req, fresh, sending, chan, job, pc>>
    BY <1>3 DEF Cancel, queueVars, callVars
  <2> QED
    BY <2>1 DEF Ownership, InChan
<1>4. ASSUME NEW t \in Tasks, DropTerminal(t) PROVE Goal
  <2>1. t \notin sending /\ ~InChan(t) /\ \A w \in Workers : job[w] # t
    BY <1>4, Unowned DEF DropTerminal, DropRow, Terminal
  <2>2. /\ state' = [state EXCEPT ![t] = "none"]
        /\ UNCHANGED <<req, sending, fresh, chan, job, pc>>
    BY <1>4 DEF DropTerminal, DropRow, callVars, workVars
  <2> QED
    BY <2>1, <2>2 DEF Ownership, InChan, TypeOK
<1>5. ASSUME NEW t \in Tasks, ClearNext(t) PROVE Goal
  <2>1. CASE state[t] \in Terminal
    <3>1. t \notin sending /\ ~InChan(t) /\ \A w \in Workers : job[w] # t
      BY <2>1, Unowned DEF Terminal
    <3>2. /\ state' = [state EXCEPT ![t] = "none"]
          /\ UNCHANGED <<req, sending, fresh, chan, job, pc>>
      BY <1>5, <2>1 DEF ClearNext, DropRow, workVars
    <3> QED
      BY <3>1, <3>2 DEF Ownership, InChan, TypeOK
  <2>2. CASE state[t] \notin Terminal
    <3>1. UNCHANGED <<state, req, fresh, sending, chan, job, pc>>
      BY <1>5, <2>2 DEF ClearNext, DropRow, workVars
    <3> QED
      BY <3>1 DEF Ownership, InChan
  <2> QED
    BY <2>1, <2>2
<1>6. ASSUME ClearHistory PROVE Goal
  <2>1. UNCHANGED <<state, req, fresh, sending, chan, job, pc>>
    BY <1>6 DEF ClearHistory, queueVars, workVars
  <2> QED
    BY <2>1 DEF Ownership, InChan
<1>7. ASSUME NEW w \in Workers, Recv(w) PROVE Goal
  BY <1>7 DEF Recv, Goto, queueVars, callVars, fileVars, TypeOK, Ownership, InChan, Terminal, Executing
<1>8. ASSUME NEW w \in Workers, Arm(w) PROVE Goal
  BY <1>8 DEF Arm, Goto, queueVars, callVars, fileVars, TypeOK, Ownership, InChan, Terminal, Executing
<1>9. ASSUME NEW w \in Workers, SetRunning(w) PROVE Goal
  BY <1>9 DEF SetRunning, Goto, SetState, callVars, fileVars, TypeOK, Ownership, InChan, Terminal, Executing
<1>10. ASSUME NEW w \in Workers, StartFail(w) PROVE Goal
  <2>1. pc[w] \in Executing
    BY <1>10 DEF StartFail, Executing
  <2>2. \E l \in Executing \cup {"report"} : pc' = [pc EXCEPT ![w] = l]
    BY <1>10 DEF StartFail, Goto, Return, Executing
  <2>3. UNCHANGED <<state, req, fresh, sending, chan, job>>
    BY <1>10 DEF StartFail, queueVars, callVars
  <2> QED
    BY <2>1, <2>2, <2>3, InsideExecutor
<1>11. ASSUME NEW w \in Workers, StartOk(w) PROVE Goal
  <2>1. pc[w] \in Executing
    BY <1>11 DEF StartOk, Executing
  <2>2. \E l \in Executing \cup {"report"} : pc' = [pc EXCEPT ![w] = l]
    BY <1>11 DEF StartOk, Goto, Executing
  <2>3. UNCHANGED <<state, req, fresh, sending, chan, job>>
    BY <1>11 DEF StartOk, queueVars, callVars
  <2> QED
    BY <2>1, <2>2, <2>3, InsideExecutor
<1>12. ASSUME NEW w \in Workers, Check(w) PROVE Goal
  <2>1. pc[w] \in Executing
    BY <1>12 DEF Check, Executing
  <2>2. \E l \in Executing \cup {"report"} : pc' = [pc EXCEPT ![w] = l]
    BY <1>12 DEF Check, Goto, Executing
  <2>3. UNCHANGED <<state, req, fresh, sending, chan, job>>
    BY <1>12 DEF Check, queueVars, callVars
  <2> QED
    BY <2>1, <2>2, <2>3, InsideExecutor
<1>13. ASSUME NEW w \in Workers, Chunk(w) PROVE Goal
  <2>1. pc[w] \in Executing
    BY <1>13 DEF Chunk, Executing
  <2>2. \E l \in Executing \cup {"report"} : pc' = [pc EXCEPT ![w] = l]
    BY <1>13 DEF Chunk, Goto, Executing
  <2>3. UNCHANGED <<state, req, fresh, sending, chan, job>>
    BY <1>13 DEF Chunk, queueVars, callVars
  <2> QED
    BY <2>1, <2>2, <2>3, InsideExecutor
<1>14. ASSUME NEW w \in Workers, IoError(w) PROVE Goal
  <2>1. pc[w] \in Executing
    BY <1>14 DEF IoError, Executing
  <2>2. \E l \in Executing \cup {"report"} : pc' = [pc EXCEPT ![w] = l]
    BY <1>14 DEF IoError, Goto, Executing
  <2>3. UNCHANGED <<state, req, fresh, sending, chan, job>>
    BY <1>14 DEF IoError, queueVars, callVars
  <2> QED
    BY <2>1, <2>2, <2>3, InsideExecutor
<1>15. ASSUME NEW w \in Workers, Eof(w) PROVE Goal
  <2>1. pc[w] \in Executing
    BY <1>15 DEF Eof, Executing
  <2>2. \E l \in Executing \cup {"report"} : pc' = [pc EXCEPT ![w] = l]
    BY <1>15 DEF Eof, Goto, Return, Executing
  <2>3. UNCHANGED <<state, req, fresh, sending, chan, job>>
    BY <1>15 DEF Eof, queueVars, callVars
  <2> QED
    BY <2>1, <2>2, <2>3, InsideExecutor
<1>16. ASSUME NEW w \in Workers, Cleanup(w) PROVE Goal
  <2>1. pc[w] \in Executing
    BY <1>16 DEF Cleanup, Executing
  <2>2. \E l \in Executing \cup {"report"} : pc' = [pc EXCEPT ![w] = l]
    BY <1>16 DEF Cleanup, Goto, Return, Executing
  <2>3. UNCHANGED <<state, req, fresh, sending, chan, job>>
    BY <1>16 DEF Cleanup, queueVars, callVars
  <2> QED
    BY <2>1, <2>2, <2>3, InsideExecutor
<1>17. ASSUME NEW w \in Workers, RenameLocal(w) PROVE Goal
  <2>1. pc[w] \in Executing
    BY <1>17 DEF RenameLocal, Executing
  <2>2. \E l \in Executing \cup {"report"} : pc' = [pc EXCEPT ![w] = l]
    BY <1>17 DEF RenameLocal, Goto, Return, Promoted, NotPromoted, Executing
  <2>3. UNCHANGED <<state, req, fresh, sending, chan, job>>
    BY <1>17 DEF RenameLocal, queueVars, callVars
  <2> QED
    BY <2>1, <2>2, <2>3, InsideExecutor
<1>18. ASSUME NEW w \in Workers, Unlink(w) PROVE Goal
  <2>1. pc[w] \in Executing
    BY <1>18 DEF Unlink, Executing
  <2>2. \E l \in Executing \cup {"report"} : pc' = [pc EXCEPT ![w] = l]
    BY <1>18 DEF Unlink, Goto, Executing
  <2>3. UNCHANGED <<state, req, fresh, sending, chan, job>>
    BY <1>18 DEF Unlink, queueVars, callVars
  <2> QED
    BY <2>1, <2>2, <2>3, InsideExecutor
<1>19. ASSUME NEW w \in Workers, RenameRemote(w) PROVE Goal
  <2>1. pc[w] \in Executing
    BY <1>19 DEF RenameRemote, Executing
  <2>2. \E l \in Executing \cup {"report"} : pc' = [pc EXCEPT ![w] = l]
    BY <1>19 DEF RenameRemote, Goto, Return, Promoted, NotPromoted, Executing
  <2>3. UNCHANGED <<state, req, fresh, sending, chan, job>>
    BY <1>19 DEF RenameRemote, queueVars, callVars
  <2> QED
    BY <2>1, <2>2, <2>3, InsideExecutor
<1>20. ASSUME NEW w \in Workers, Disarm(w) PROVE Goal
  <2>1. pc[w] \in Executing
    BY <1>20 DEF Disarm, Executing
  <2>2. \E l \in Executing \cup {"report"} : pc' = [pc EXCEPT ![w] = l]
    BY <1>20 DEF Disarm, Goto, Executing
  <2>3. UNCHANGED <<state, req, fresh, sending, chan, job>>
    BY <1>20 DEF Disarm, queueVars, callVars
  <2> QED
    BY <2>1, <2>2, <2>3, InsideExecutor
<1>21. ASSUME NEW w \in Workers, Report(w) PROVE Goal
  BY <1>21 DEF Report, Goto, SetState, FailRow, CancelRow, callVars, fileVars, TypeOK, Ownership, InChan, Terminal, Executing
<1>23. ASSUME NEW w \in Workers, Unanswered(w) PROVE Goal
  <2>1. pc[w] \in Executing
    BY <1>23 DEF Unanswered, Executing
  <2>2. \E l \in Executing \cup {"report"} : pc' = [pc EXCEPT ![w] = l]
    BY <1>23 DEF Unanswered, Goto, Return, Executing
  <2>3. UNCHANGED <<state, req, fresh, sending, chan, job>>
    BY <1>23 DEF Unanswered, queueVars, callVars
  <2> QED
    BY <2>1, <2>2, <2>3, InsideExecutor
<1>24. ASSUME NEW t \in Tasks, Lands(t) PROVE Goal
  <2>1. UNCHANGED <<state, req, fresh, sending, chan, job, pc>>
    BY <1>24 DEF Lands, queueVars, callVars, workVars
  <2> QED
    BY <2>1 DEF Ownership, InChan
<1>22. ASSUME UNCHANGED vars PROVE Goal
  <2>1. UNCHANGED <<state, req, fresh, sending, chan, job, pc>>
    BY <1>22 DEF vars, queueVars, callVars, workVars
  <2> QED
    BY <2>1 DEF Ownership, InChan
<1> QED
  BY <1>1, <1>2, <1>3, <1>4, <1>5, <1>6, <1>7, <1>8, <1>9, <1>10, <1>11, <1>12, <1>13, <1>14, <1>15, <1>16, <1>17, <1>18, <1>19, <1>20, <1>21, <1>22, <1>23, <1>24 DEF Next, CallStep, WorkerStep

\* Every action keeps the token map exact.
LEMMA TokenStep == TypeOK /\ Ownership /\ TokenMap /\ [Next]_vars => TokenMap'
<1> SUFFICES ASSUME TypeOK, Ownership, TokenMap, [Next]_vars PROVE TokenMap'
  OBVIOUS
<1> DEFINE Goal == TokenMap'
<1> SUFFICES Goal
  OBVIOUS
<1>0. \A w \in Workers : pc[w] # "recv" => job[w] \in Tasks
  BY JobTyped
<1> USE PoolAssumption, <1>0
<1>1. ASSUME NEW t \in Tasks, NEW g \in Targets, Enqueue(t, g) PROVE Goal
  BY <1>1 DEF Enqueue, workVars, fileVars, TypeOK, Ownership, TokenMap, Executing
<1>2. ASSUME NEW t \in Tasks, Dispatch(t) PROVE Goal
  BY <1>2 DEF Dispatch, queueVars, workVars, fileVars, TypeOK, Ownership, TokenMap, Executing
<1>3. ASSUME NEW t \in Tasks, Cancel(t) PROVE Goal
  BY <1>3 DEF Cancel, queueVars, callVars, fileVars, TypeOK, Ownership, TokenMap, Executing
<1>4. ASSUME NEW t \in Tasks, DropTerminal(t) PROVE Goal
  BY <1>4 DEF DropTerminal, DropRow, callVars, workVars, fileVars, TypeOK, Ownership, TokenMap, Executing
<1>5. ASSUME NEW t \in Tasks, ClearNext(t) PROVE Goal
  BY <1>5 DEF ClearNext, DropRow, workVars, fileVars, TypeOK, Ownership, TokenMap, Executing
<1>6. ASSUME ClearHistory PROVE Goal
  BY <1>6 DEF ClearHistory, queueVars, workVars, fileVars, TypeOK, Ownership, TokenMap, Executing
<1>7. ASSUME NEW w \in Workers, Recv(w) PROVE Goal
  BY <1>7 DEF Recv, Goto, queueVars, callVars, fileVars, TypeOK, Ownership, TokenMap, Executing
<1>8. ASSUME NEW w \in Workers, Arm(w) PROVE Goal
  BY <1>8 DEF Arm, Goto, queueVars, callVars, fileVars, TypeOK, Ownership, TokenMap, Executing
<1>9. ASSUME NEW w \in Workers, SetRunning(w) PROVE Goal
  BY <1>9 DEF SetRunning, Goto, SetState, callVars, fileVars, TypeOK, Ownership, TokenMap, Executing
<1>10. ASSUME NEW w \in Workers, StartFail(w) PROVE Goal
  BY <1>10 DEF StartFail, Goto, Return, queueVars, callVars, fileVars, TypeOK, Ownership, TokenMap, Executing
<1>11. ASSUME NEW w \in Workers, StartOk(w) PROVE Goal
  BY <1>11 DEF StartOk, Goto, Target, queueVars, callVars, TypeOK, Ownership, TokenMap, Executing
<1>12. ASSUME NEW w \in Workers, Check(w) PROVE Goal
  BY <1>12 DEF Check, Goto, Target, queueVars, callVars, fileVars, TypeOK, Ownership, TokenMap, Executing
<1>13. ASSUME NEW w \in Workers, Chunk(w) PROVE Goal
  BY <1>13 DEF Chunk, Goto, Target, queueVars, callVars, fileVars, TypeOK, Ownership, TokenMap, Executing
<1>14. ASSUME NEW w \in Workers, IoError(w) PROVE Goal
  BY <1>14 DEF IoError, Goto, queueVars, callVars, fileVars, TypeOK, Ownership, TokenMap, Executing
<1>15. ASSUME NEW w \in Workers, Eof(w) PROVE Goal
  BY <1>15 DEF Eof, Goto, Return, Target, queueVars, callVars, TypeOK, Ownership, TokenMap, Executing
<1>16. ASSUME NEW w \in Workers, Cleanup(w) PROVE Goal
  BY <1>16 DEF Cleanup, Goto, Return, Target, queueVars, callVars, TypeOK, Ownership, TokenMap, Executing
<1>17. ASSUME NEW w \in Workers, RenameLocal(w) PROVE Goal
  BY <1>17 DEF RenameLocal, Goto, Return, Promoted, NotPromoted, Target, queueVars, callVars, TypeOK, Ownership, TokenMap, Executing
<1>18. ASSUME NEW w \in Workers, Unlink(w) PROVE Goal
  BY <1>18 DEF Unlink, Goto, Target, queueVars, callVars, TypeOK, Ownership, TokenMap, Executing
<1>19. ASSUME NEW w \in Workers, RenameRemote(w) PROVE Goal
  BY <1>19 DEF RenameRemote, Goto, Return, Promoted, NotPromoted, Target, queueVars, callVars, TypeOK, Ownership, TokenMap, Executing
<1>20. ASSUME NEW w \in Workers, Disarm(w) PROVE Goal
  BY <1>20 DEF Disarm, Goto, queueVars, callVars, fileVars, TypeOK, Ownership, TokenMap, Executing
<1>21. ASSUME NEW w \in Workers, Report(w) PROVE Goal
  BY <1>21 DEF Report, Goto, SetState, FailRow, CancelRow, callVars, fileVars, TypeOK, Ownership, TokenMap, Executing
<1>23. ASSUME NEW w \in Workers, Unanswered(w) PROVE Goal
  BY <1>23 DEF Unanswered, Goto, Return, TypeOK, Ownership, TokenMap, Executing
<1>24. ASSUME NEW t \in Tasks, Lands(t) PROVE Goal
  BY <1>24 DEF Lands, workVars, TokenMap
<1>22. ASSUME UNCHANGED vars PROVE Goal
  BY <1>22 DEF vars, queueVars, callVars, workVars, fileVars, TypeOK, Ownership, TokenMap, Executing
<1> QED
  BY <1>1, <1>2, <1>3, <1>4, <1>5, <1>6, <1>7, <1>8, <1>9, <1>10, <1>11, <1>12, <1>13, <1>14, <1>15, <1>16, <1>17, <1>18, <1>19, <1>20, <1>21, <1>22, <1>23, <1>24 DEF Next, CallStep, WorkerStep

\* A payload that reaches its target settles the outcome of its run.
LEMMA Delivery ==
    ASSUME TypeOK, Ownership, Outcome, NEW w \in Workers, pc[w] \in Executing \ {"disarm"},
           pc' = [pc EXCEPT ![w] = "disarm"], result' = [result EXCEPT ![w] = "ok"],
           delivered' = delivered \cup {job[w]},
           UNCHANGED <<state, fresh, job, flag, unanswered, asked>>
    PROVE  Outcome'
<1>1. state[job[w]] = "Running" /\ job[w] # NoTask
  BY DEF Ownership, Executing
<1>2. job[w] \notin fresh /\ \A v \in Workers : job[v] = job[w] => v = w
  BY <1>1 DEF Ownership
<1> QED
  BY <1>1, <1>2 DEF TypeOK, Outcome, ReportIsTrue, Executing

\* Every action keeps what the runs and the rows know of the outcome.
LEMMA OutcomeStep == TypeOK /\ Ownership /\ TokenMap /\ Outcome /\ [Next]_vars => Outcome'
<1> SUFFICES ASSUME TypeOK, Ownership, TokenMap, Outcome, [Next]_vars PROVE Outcome'
  OBVIOUS
<1> DEFINE Goal == Outcome'
<1> SUFFICES Goal
  OBVIOUS
<1>0. \A w \in Workers : pc[w] # "recv" => job[w] \in Tasks
  BY JobTyped
<1> USE PoolAssumption, <1>0
<1>1. ASSUME NEW t \in Tasks, NEW g \in Targets, Enqueue(t, g) PROVE Goal
  BY <1>1 DEF Enqueue, workVars, fileVars, TypeOK, Ownership, Outcome, ReportIsTrue, Executing, Terminal
<1>2. ASSUME NEW t \in Tasks, Dispatch(t) PROVE Goal
  BY <1>2 DEF Dispatch, queueVars, workVars, fileVars, TypeOK, Ownership, Outcome, ReportIsTrue, Executing, Terminal
<1>3. ASSUME NEW t \in Tasks, Cancel(t) PROVE Goal
  <2>1. CASE tokens[t] # NoWorker
    <3> DEFINE v == tokens[t]
    <3>1. v \in Workers /\ job[v] = t /\ pc[v] \in Executing \cup {"armed"}
      BY <2>1 DEF TokenMap, TypeOK
    <3>2. /\ flag' = [flag EXCEPT ![v] = TRUE] /\ asked' = [asked EXCEPT ![t] = "flagged"]
          /\ UNCHANGED <<state, fresh, pc, job, result, delivered, unanswered>>
      BY <1>3, <2>1 DEF Cancel, queueVars, callVars, fileVars
    <3> HIDE DEF v
    <3> QED
      BY <3>1, <3>2 DEF TypeOK, Ownership, Outcome, ReportIsTrue, Executing
  <2>2. CASE tokens[t] = NoWorker
    <3>1. /\ asked' = [asked EXCEPT ![t] = IF @ = "no" THEN "missed" ELSE @]
          /\ UNCHANGED <<state, fresh, pc, job, flag, result, delivered, unanswered>>
      BY <1>3, <2>2 DEF Cancel, queueVars, callVars, fileVars
    <3>2. \A u \in Tasks : asked[u] = "flagged" => asked'[u] = "flagged"
      BY <3>1 DEF TypeOK
    <3> QED
      BY <3>1, <3>2 DEF TypeOK, Ownership, Outcome, ReportIsTrue, Executing
  <2> QED
    BY <2>1, <2>2
<1>4. ASSUME NEW t \in Tasks, DropTerminal(t) PROVE Goal
  BY <1>4 DEF DropTerminal, DropRow, callVars, workVars, fileVars, TypeOK, Ownership, Outcome, ReportIsTrue, Executing, Terminal
<1>5. ASSUME NEW t \in Tasks, ClearNext(t) PROVE Goal
  BY <1>5 DEF ClearNext, DropRow, workVars, fileVars, TypeOK, Ownership, Outcome, ReportIsTrue, Executing, Terminal
<1>6. ASSUME ClearHistory PROVE Goal
  BY <1>6 DEF ClearHistory, queueVars, workVars, fileVars, TypeOK, Ownership, Outcome, ReportIsTrue, Executing, Terminal
<1>7. ASSUME NEW w \in Workers, Recv(w) PROVE Goal
  BY <1>7 DEF Recv, Goto, queueVars, callVars, fileVars, TypeOK, Ownership, Outcome, ReportIsTrue, Executing, Terminal
<1>8. ASSUME NEW w \in Workers, Arm(w) PROVE Goal
  <2>1. state[job[w]] = "Queued"
    BY <1>8 DEF Arm, Ownership
  <2>2. /\ pc[w] = "taken" /\ pc' = [pc EXCEPT ![w] = "armed"] /\ flag' = [flag EXCEPT ![w] = FALSE]
        /\ UNCHANGED <<state, fresh, job, result, delivered, unanswered, asked>>
    BY <1>8, <2>1 DEF Arm, Goto, queueVars, callVars, fileVars
  <2> QED
    BY <2>2 DEF TypeOK, Ownership, Outcome, ReportIsTrue, Executing
<1>9. ASSUME NEW w \in Workers, SetRunning(w) PROVE Goal
  BY <1>9 DEF SetRunning, Goto, SetState, callVars, fileVars, TypeOK, Ownership, Outcome, ReportIsTrue, Executing, Terminal
<1>10. ASSUME NEW w \in Workers, StartFail(w) PROVE Goal
  BY <1>10 DEF StartFail, Goto, Return, queueVars, callVars, fileVars, TypeOK, Ownership, Outcome, ReportIsTrue, Executing, Terminal
<1>11. ASSUME NEW w \in Workers, StartOk(w) PROVE Goal
  BY <1>11 DEF StartOk, Goto, Target, queueVars, callVars, TypeOK, Ownership, Outcome, ReportIsTrue, Executing, Terminal
<1>12. ASSUME NEW w \in Workers, Check(w) PROVE Goal
  <2>1. /\ pc[w] = "check" /\ \E l \in {"io", "cleanup"} : pc' = [pc EXCEPT ![w] = l]
        /\ UNCHANGED <<state, fresh, job, flag, result, delivered, unanswered, asked>>
    BY <1>12 DEF Check, Goto, queueVars, callVars, fileVars
  <2> QED
    BY <2>1 DEF TypeOK, Ownership, Outcome, ReportIsTrue, Executing
<1>13. ASSUME NEW w \in Workers, Chunk(w) PROVE Goal
  BY <1>13 DEF Chunk, Goto, Target, queueVars, callVars, fileVars, TypeOK, Ownership, Outcome, ReportIsTrue, Executing, Terminal
<1>14. ASSUME NEW w \in Workers, IoError(w) PROVE Goal
  BY <1>14 DEF IoError, Goto, queueVars, callVars, fileVars, TypeOK, Ownership, Outcome, ReportIsTrue, Executing, Terminal
<1>15. ASSUME NEW w \in Workers, Eof(w) PROVE Goal
  <2>1. CASE Staged(Target(w))
    <3>1. /\ pc[w] = "io" /\ \E l \in {"promote", "unlink"} : pc' = [pc EXCEPT ![w] = l]
          /\ UNCHANGED <<state, fresh, job, flag, result, delivered, unanswered, asked>>
      BY <1>15, <2>1 DEF Eof, Goto, queueVars, callVars
    <3> QED
      BY <3>1 DEF TypeOK, Ownership, Outcome, ReportIsTrue, Executing
  <2>2. CASE ~Staged(Target(w))
    BY <1>15, <2>2, Delivery DEF Eof, Executing, Return, Goto, queueVars, callVars
  <2> QED
    BY <2>1, <2>2
<1>16. ASSUME NEW w \in Workers, Cleanup(w) PROVE Goal
  BY <1>16 DEF Cleanup, Goto, Return, Target, queueVars, callVars, TypeOK, Ownership, Outcome, ReportIsTrue, Executing, Terminal
<1>17. ASSUME NEW w \in Workers, RenameLocal(w) PROVE Goal
  <2>1. CASE Promoted(w)
    BY <1>17, <2>1, Delivery DEF RenameLocal, Executing, Promoted, Return, Goto, queueVars, callVars
  <2>2. CASE NotPromoted(w)
    <3>1. /\ pc[w] \in {"promote", "rename"} /\ pc' = [pc EXCEPT ![w] = "disarm"]
          /\ result' = [result EXCEPT ![w] = "err"]
          /\ UNCHANGED <<state, fresh, job, flag, delivered, unanswered, asked>>
      BY <1>17, <2>2 DEF RenameLocal, NotPromoted, Return, Goto, queueVars, callVars
    <3> QED
      BY <3>1 DEF TypeOK, Ownership, Outcome, ReportIsTrue, Executing
  <2> QED
    BY <1>17, <2>1, <2>2 DEF RenameLocal
<1>18. ASSUME NEW w \in Workers, Unlink(w) PROVE Goal
  BY <1>18 DEF Unlink, Goto, Target, queueVars, callVars, TypeOK, Ownership, Outcome, ReportIsTrue, Executing, Terminal
<1>19. ASSUME NEW w \in Workers, RenameRemote(w) PROVE Goal
  <2>1. CASE Promoted(w)
    BY <1>19, <2>1, Delivery DEF RenameRemote, Executing, Promoted, Return, Goto, queueVars, callVars
  <2>2. CASE NotPromoted(w)
    <3>1. /\ pc[w] \in {"promote", "rename"} /\ pc' = [pc EXCEPT ![w] = "disarm"]
          /\ result' = [result EXCEPT ![w] = "err"]
          /\ UNCHANGED <<state, fresh, job, flag, delivered, unanswered, asked>>
      BY <1>19, <2>2 DEF RenameRemote, NotPromoted, Return, Goto, queueVars, callVars
    <3> QED
      BY <3>1 DEF TypeOK, Ownership, Outcome, ReportIsTrue, Executing
  <2> QED
    BY <1>19, <2>1, <2>2 DEF RenameRemote
<1>20. ASSUME NEW w \in Workers, Disarm(w) PROVE Goal
  BY <1>20 DEF Disarm, Goto, queueVars, callVars, fileVars, TypeOK, Ownership, Outcome, ReportIsTrue, Executing, Terminal
<1>21. ASSUME NEW w \in Workers, Report(w) PROVE Goal
  BY <1>21 DEF Report, Goto, SetState, FailRow, CancelRow, callVars, fileVars, TypeOK, Ownership, Outcome, ReportIsTrue, Executing, Terminal
<1>23. ASSUME NEW w \in Workers, Unanswered(w) PROVE Goal
  <2>1. /\ pc[w] \in {"io", "rename"} /\ pc' = [pc EXCEPT ![w] = "disarm"]
        /\ result' = [result EXCEPT ![w] = "err"] /\ unanswered' = unanswered \cup {job[w]}
        /\ UNCHANGED <<state, fresh, job, flag, delivered, asked>>
    BY <1>23 DEF Unanswered, Return, Goto, queueVars, callVars
  <2>2. state[job[w]] = "Running" /\ job[w] # NoTask /\ job[w] \notin fresh
    BY <2>1 DEF Ownership, Executing
  <2>3. \A v \in Workers : job[v] = job[w] => v = w
    BY <2>2 DEF Ownership
  <2> QED
    BY <2>1, <2>2, <2>3 DEF TypeOK, Outcome, ReportIsTrue, Executing
<1>24. ASSUME NEW t \in Tasks, Lands(t) PROVE Goal
  <2>1. /\ t \in unanswered /\ t \notin delivered /\ delivered' = delivered \cup {t}
        /\ UNCHANGED <<state, fresh, pc, job, flag, result, unanswered, asked>>
    BY <1>24 DEF Lands, queueVars, callVars, workVars
  <2> QED
    BY <2>1 DEF TypeOK, Outcome, ReportIsTrue, Executing
<1>22. ASSUME UNCHANGED vars PROVE Goal
  BY <1>22 DEF vars, queueVars, callVars, workVars, fileVars, TypeOK, Ownership, Outcome, ReportIsTrue, Executing, Terminal
<1> QED
  BY <1>1, <1>2, <1>3, <1>4, <1>5, <1>6, <1>7, <1>8, <1>9, <1>10, <1>11, <1>12, <1>13, <1>14, <1>15, <1>16, <1>17, <1>18, <1>19, <1>20, <1>21, <1>22, <1>23, <1>24 DEF Next, CallStep, WorkerStep

\* A promotion swaps the complete copy from the staging file to the target.
LEMMA Promotion ==
    ASSUME TypeOK, Ownership, Staging, NEW w \in Workers, pc[w] \in {"promote", "rename"},
           pc' = [pc EXCEPT ![w] = "disarm"], part' = [part EXCEPT ![job[w]] = "absent"],
           file' = [file EXCEPT ![Target(w)] = job[w]],
           UNCHANGED <<state, fresh, req, job>>
    PROVE  Staging'
<1>1. state[job[w]] = "Running" /\ job[w] # NoTask /\ job[w] \in Tasks
  BY DEF Ownership, Executing, TypeOK
<1>2. job[w] \notin fresh /\ \A v \in Workers : job[v] = job[w] => v = w
  BY <1>1 DEF Ownership
<1>3. NoLostCopy'
  <2> SUFFICES ASSUME NEW g \in Existing, file'[g] = "absent"
               PROVE  \E t \in Tasks : req'[t] = g /\ part'[t] = "full"
    BY DEF NoLostCopy
  <2>1. g \in Targets /\ g # Target(w) /\ file[g] = "absent"
    BY <1>1, PoolAssumption DEF TypeOK
  <2>2. PICK t \in Tasks : req[t] = g /\ part[t] = "full"
    BY <2>1 DEF Staging, NoLostCopy
  <2>3. t # job[w]
    BY <2>1, <2>2 DEF Target
  <2> QED
    BY <2>2, <2>3 DEF TypeOK
<1> QED
  BY <1>1, <1>2, <1>3 DEF TypeOK, Staging

\* Every action keeps a complete copy of every destination.
LEMMA StagingStep == TypeOK /\ Ownership /\ Outcome /\ Staging /\ [Next]_vars => Staging'
<1> SUFFICES ASSUME TypeOK, Ownership, Outcome, Staging, [Next]_vars PROVE Staging'
  OBVIOUS
<1> DEFINE Goal == Staging'
<1> SUFFICES Goal
  OBVIOUS
<1>0. \A w \in Workers : pc[w] # "recv" => job[w] \in Tasks
  BY JobTyped
<1> USE PoolAssumption, <1>0
<1>1. ASSUME NEW t \in Tasks, NEW g \in Targets, Enqueue(t, g) PROVE Goal
  BY <1>1 DEF Enqueue, workVars, fileVars, TypeOK, Ownership, Staging, NoLostCopy, Executing, Terminal
<1>2. ASSUME NEW t \in Tasks, Dispatch(t) PROVE Goal
  BY <1>2 DEF Dispatch, queueVars, workVars, fileVars, TypeOK, Ownership, Staging, NoLostCopy, Executing, Terminal
<1>3. ASSUME NEW t \in Tasks, Cancel(t) PROVE Goal
  BY <1>3 DEF Cancel, queueVars, callVars, fileVars, TypeOK, Ownership, Staging, NoLostCopy, Executing, Terminal
<1>4. ASSUME NEW t \in Tasks, DropTerminal(t) PROVE Goal
  BY <1>4 DEF DropTerminal, DropRow, callVars, workVars, fileVars, TypeOK, Ownership, Staging, NoLostCopy, Executing, Terminal
<1>5. ASSUME NEW t \in Tasks, ClearNext(t) PROVE Goal
  BY <1>5 DEF ClearNext, DropRow, workVars, fileVars, TypeOK, Ownership, Staging, NoLostCopy, Executing, Terminal
<1>6. ASSUME ClearHistory PROVE Goal
  BY <1>6 DEF ClearHistory, queueVars, workVars, fileVars, TypeOK, Ownership, Staging, NoLostCopy, Executing, Terminal
<1>7. ASSUME NEW w \in Workers, Recv(w) PROVE Goal
  BY <1>7 DEF Recv, Goto, queueVars, callVars, fileVars, TypeOK, Ownership, Staging, NoLostCopy, Executing, Terminal
<1>8. ASSUME NEW w \in Workers, Arm(w) PROVE Goal
  BY <1>8 DEF Arm, Goto, queueVars, callVars, fileVars, TypeOK, Ownership, Staging, NoLostCopy, Executing, Terminal
<1>9. ASSUME NEW w \in Workers, SetRunning(w) PROVE Goal
  BY <1>9 DEF SetRunning, Goto, SetState, callVars, fileVars, TypeOK, Ownership, Staging, NoLostCopy, Executing, Terminal
<1>10. ASSUME NEW w \in Workers, StartFail(w) PROVE Goal
  BY <1>10 DEF StartFail, Goto, Return, queueVars, callVars, fileVars, TypeOK, Ownership, Staging, NoLostCopy, Executing, Terminal
<1>11. ASSUME NEW w \in Workers, StartOk(w) PROVE Goal
  BY <1>11 DEF StartOk, Goto, Target, queueVars, callVars, TypeOK, Ownership, Staging, NoLostCopy, Executing, Terminal
<1>12. ASSUME NEW w \in Workers, Check(w) PROVE Goal
  BY <1>12 DEF Check, Goto, Target, queueVars, callVars, fileVars, TypeOK, Ownership, Staging, NoLostCopy, Executing, Terminal
<1>13. ASSUME NEW w \in Workers, Chunk(w) PROVE Goal
  BY <1>13 DEF Chunk, Goto, Target, queueVars, callVars, fileVars, TypeOK, Ownership, Staging, NoLostCopy, Executing, Terminal
<1>14. ASSUME NEW w \in Workers, IoError(w) PROVE Goal
  BY <1>14 DEF IoError, Goto, queueVars, callVars, fileVars, TypeOK, Ownership, Staging, NoLostCopy, Executing, Terminal
<1>15. ASSUME NEW w \in Workers, Eof(w) PROVE Goal
  <2>1. CASE Staged(Target(w))
    <3>1. /\ pc[w] = "io" /\ \E l \in {"promote", "unlink"} : pc' = [pc EXCEPT ![w] = l]
          /\ part' = [part EXCEPT ![job[w]] = "full"]
          /\ UNCHANGED <<state, fresh, req, job, file>>
      BY <1>15, <2>1 DEF Eof, Goto, queueVars, callVars
    <3> QED
      BY <3>1 DEF TypeOK, Ownership, Staging, NoLostCopy, Executing
  <2>2. CASE ~Staged(Target(w))
    <3>1. /\ pc[w] = "io" /\ pc' = [pc EXCEPT ![w] = "disarm"]
          /\ file' = [file EXCEPT ![Target(w)] = job[w]]
          /\ UNCHANGED <<state, fresh, req, job, part>>
      BY <1>15, <2>2 DEF Eof, Return, Goto, queueVars, callVars
    <3> QED
      BY <3>1 DEF TypeOK, Ownership, Staging, NoLostCopy, Executing
  <2> QED
    BY <2>1, <2>2
<1>16. ASSUME NEW w \in Workers, Cleanup(w) PROVE Goal
  <2>1. /\ pc[w] = "cleanup" /\ pc' = [pc EXCEPT ![w] = "disarm"]
        /\ UNCHANGED <<state, fresh, req, job>>
    BY <1>16 DEF Cleanup, Return, Goto, queueVars, callVars
  <2>2. CASE Staged(Target(w))
    <3>1. UNCHANGED file /\ \E left \in {"absent", "partial"} : part' = [part EXCEPT ![job[w]] = left]
      BY <1>16, <2>2 DEF Cleanup
    <3> QED
      BY <2>1, <3>1 DEF TypeOK, Ownership, Staging, NoLostCopy, Executing
  <2>3. CASE ~Staged(Target(w))
    <3>1. UNCHANGED part /\ \E c \in {file[Target(w)], "torn"} : file' = [file EXCEPT ![Target(w)] = c]
      BY <1>16, <2>3 DEF Cleanup
    <3> QED
      BY <2>1, <3>1 DEF TypeOK, Ownership, Staging, NoLostCopy, Executing
  <2> QED
    BY <2>2, <2>3
<1>17. ASSUME NEW w \in Workers, RenameLocal(w) PROVE Goal
  <2>1. CASE Promoted(w)
    <3>1. /\ pc[w] \in {"promote", "rename"} /\ pc' = [pc EXCEPT ![w] = "disarm"]
          /\ part' = [part EXCEPT ![job[w]] = "absent"]
          /\ file' = [file EXCEPT ![Target(w)] = job[w]]
          /\ UNCHANGED <<state, fresh, req, job>>
      BY <1>17, <2>1 DEF RenameLocal, Promoted, Return, Goto, queueVars, callVars
    <3> QED
      BY <3>1, Promotion
  <2>2. CASE NotPromoted(w)
    <3>1. /\ pc[w] \in {"promote", "rename"} /\ pc' = [pc EXCEPT ![w] = "disarm"]
          /\ UNCHANGED <<state, fresh, req, job, part, file>>
      BY <1>17, <2>2 DEF RenameLocal, NotPromoted, Return, Goto, queueVars, callVars
    <3> QED
      BY <3>1 DEF TypeOK, Ownership, Staging, NoLostCopy, Executing
  <2> QED
    BY <1>17, <2>1, <2>2 DEF RenameLocal
<1>18. ASSUME NEW w \in Workers, Unlink(w) PROVE Goal
  BY <1>18 DEF Unlink, Goto, Target, queueVars, callVars, TypeOK, Ownership, Staging, NoLostCopy, Executing, Terminal
<1>19. ASSUME NEW w \in Workers, RenameRemote(w) PROVE Goal
  <2>1. CASE Promoted(w)
    <3>1. /\ pc[w] \in {"promote", "rename"} /\ pc' = [pc EXCEPT ![w] = "disarm"]
          /\ part' = [part EXCEPT ![job[w]] = "absent"]
          /\ file' = [file EXCEPT ![Target(w)] = job[w]]
          /\ UNCHANGED <<state, fresh, req, job>>
      BY <1>19, <2>1 DEF RenameRemote, Promoted, Return, Goto, queueVars, callVars
    <3> QED
      BY <3>1, Promotion
  <2>2. CASE NotPromoted(w)
    <3>1. /\ pc[w] \in {"promote", "rename"} /\ pc' = [pc EXCEPT ![w] = "disarm"]
          /\ UNCHANGED <<state, fresh, req, job, part, file>>
      BY <1>19, <2>2 DEF RenameRemote, NotPromoted, Return, Goto, queueVars, callVars
    <3> QED
      BY <3>1 DEF TypeOK, Ownership, Staging, NoLostCopy, Executing
  <2> QED
    BY <1>19, <2>1, <2>2 DEF RenameRemote
<1>20. ASSUME NEW w \in Workers, Disarm(w) PROVE Goal
  BY <1>20 DEF Disarm, Goto, queueVars, callVars, fileVars, TypeOK, Ownership, Staging, NoLostCopy, Executing, Terminal
<1>21. ASSUME NEW w \in Workers, Report(w) PROVE Goal
  BY <1>21 DEF Report, Goto, SetState, FailRow, CancelRow, callVars, fileVars, TypeOK, Ownership, Staging, NoLostCopy, Executing, Terminal
<1>23. ASSUME NEW w \in Workers, Unanswered(w) PROVE Goal
  <2>1. /\ pc[w] \in {"io", "rename"} /\ pc' = [pc EXCEPT ![w] = "disarm"]
        /\ UNCHANGED <<state, fresh, req, job, part, file>>
    BY <1>23 DEF Unanswered, Return, Goto, queueVars, callVars
  <2> QED
    BY <2>1 DEF TypeOK, Ownership, Staging, NoLostCopy, Executing
<1>24. ASSUME NEW t \in Tasks, Lands(t) PROVE Goal
  <2>1. /\ t \in unanswered /\ part' = [part EXCEPT ![t] = "absent"]
        /\ file' = [file EXCEPT ![req[t]] = t]
        /\ UNCHANGED <<state, fresh, req, job, pc>>
    BY <1>24 DEF Lands, queueVars, callVars, workVars
  <2>2. t \notin fresh /\ req[t] \in Targets /\ t # "absent"
    BY <2>1 DEF Outcome, Ownership
  <2>3. \A w \in Workers : pc[w] \in {"promote", "unlink", "rename"} => job[w] # t
    BY <2>1 DEF Outcome, Executing
  <2>4. NoLostCopy'
    BY <2>1, <2>2 DEF TypeOK, Staging, NoLostCopy
  <2> QED
    BY <2>1, <2>2, <2>3, <2>4 DEF TypeOK, Staging
<1>22. ASSUME UNCHANGED vars PROVE Goal
  BY <1>22 DEF vars, queueVars, callVars, workVars, fileVars, TypeOK, Ownership, Staging, NoLostCopy, Executing, Terminal
<1> QED
  BY <1>1, <1>2, <1>3, <1>4, <1>5, <1>6, <1>7, <1>8, <1>9, <1>10, <1>11, <1>12, <1>13, <1>14, <1>15, <1>16, <1>17, <1>18, <1>19, <1>20, <1>21, <1>22, <1>23, <1>24 DEF Next, CallStep, WorkerStep

\* Only an upload takes the unlink-then-rename path.
LEMMA DirectionStep == TypeOK /\ Ownership /\ Direction /\ [Next]_vars => Direction'
<1> SUFFICES ASSUME TypeOK, Ownership, Direction, [Next]_vars PROVE Direction'
  OBVIOUS
<1> DEFINE Goal == Direction'
<1> SUFFICES Goal
  OBVIOUS
<1>0. \A w \in Workers : pc[w] # "recv" => job[w] \in Tasks
  BY JobTyped
<1> USE PoolAssumption, <1>0
<1>1. ASSUME NEW t \in Tasks, NEW g \in Targets, Enqueue(t, g) PROVE Goal
  BY <1>1 DEF Enqueue, workVars, fileVars, TypeOK, Ownership, Direction, Target, Executing
<1>2. ASSUME NEW t \in Tasks, Dispatch(t) PROVE Goal
  BY <1>2 DEF Dispatch, queueVars, workVars, fileVars, TypeOK, Ownership, Direction, Target, Executing
<1>3. ASSUME NEW t \in Tasks, Cancel(t) PROVE Goal
  BY <1>3 DEF Cancel, queueVars, callVars, fileVars, TypeOK, Ownership, Direction, Target, Executing
<1>4. ASSUME NEW t \in Tasks, DropTerminal(t) PROVE Goal
  BY <1>4 DEF DropTerminal, DropRow, callVars, workVars, fileVars, TypeOK, Ownership, Direction, Target, Executing
<1>5. ASSUME NEW t \in Tasks, ClearNext(t) PROVE Goal
  BY <1>5 DEF ClearNext, DropRow, workVars, fileVars, TypeOK, Ownership, Direction, Target, Executing
<1>6. ASSUME ClearHistory PROVE Goal
  BY <1>6 DEF ClearHistory, queueVars, workVars, fileVars, TypeOK, Ownership, Direction, Target, Executing
<1>7. ASSUME NEW w \in Workers, Recv(w) PROVE Goal
  BY <1>7 DEF Recv, Goto, queueVars, callVars, fileVars, TypeOK, Ownership, Direction, Target, Executing
<1>8. ASSUME NEW w \in Workers, Arm(w) PROVE Goal
  BY <1>8 DEF Arm, Goto, queueVars, callVars, fileVars, TypeOK, Ownership, Direction, Target, Executing
<1>9. ASSUME NEW w \in Workers, SetRunning(w) PROVE Goal
  BY <1>9 DEF SetRunning, Goto, SetState, callVars, fileVars, TypeOK, Ownership, Direction, Target, Executing
<1>10. ASSUME NEW w \in Workers, StartFail(w) PROVE Goal
  BY <1>10 DEF StartFail, Goto, Return, queueVars, callVars, fileVars, TypeOK, Ownership, Direction, Target, Executing
<1>11. ASSUME NEW w \in Workers, StartOk(w) PROVE Goal
  BY <1>11 DEF StartOk, Goto, Target, queueVars, callVars, TypeOK, Ownership, Direction, Executing
<1>12. ASSUME NEW w \in Workers, Check(w) PROVE Goal
  BY <1>12 DEF Check, Goto, Target, queueVars, callVars, fileVars, TypeOK, Ownership, Direction, Executing
<1>13. ASSUME NEW w \in Workers, Chunk(w) PROVE Goal
  BY <1>13 DEF Chunk, Goto, Target, queueVars, callVars, fileVars, TypeOK, Ownership, Direction, Executing
<1>14. ASSUME NEW w \in Workers, IoError(w) PROVE Goal
  BY <1>14 DEF IoError, Goto, queueVars, callVars, fileVars, TypeOK, Ownership, Direction, Target, Executing
<1>15. ASSUME NEW w \in Workers, Eof(w) PROVE Goal
  <2>1. job[w] \in Tasks /\ state[job[w]] = "Running"
    BY <1>15 DEF Eof, Ownership, Executing
  <2>2. Target(w) \in Targets
    BY <2>1 DEF Ownership, Target
  <2>3. Target(w).kind \in {"download", "upload"}
    BY <2>2, TargetsAssumption DEF Kinds
  <2>4. UNCHANGED <<req, job>> /\ \A v \in Workers : v # w => pc'[v] = pc[v]
    BY <1>15 DEF Eof, Goto, Return, queueVars, TypeOK
  <2>5. pc'[w] \in {"unlink", "rename"} => Target(w).kind = "upload"
    BY <1>15, <2>3 DEF Eof, Goto, Return, TypeOK
  <2> QED
    BY <2>4, <2>5 DEF Direction, Target
<1>16. ASSUME NEW w \in Workers, Cleanup(w) PROVE Goal
  BY <1>16 DEF Cleanup, Goto, Return, Target, queueVars, callVars, TypeOK, Ownership, Direction, Executing
<1>17. ASSUME NEW w \in Workers, RenameLocal(w) PROVE Goal
  BY <1>17 DEF RenameLocal, Goto, Return, Promoted, NotPromoted, Target, queueVars, callVars, TypeOK, Ownership, Direction, Executing
<1>18. ASSUME NEW w \in Workers, Unlink(w) PROVE Goal
  BY <1>18 DEF Unlink, Goto, Target, queueVars, callVars, TypeOK, Ownership, Direction, Executing
<1>19. ASSUME NEW w \in Workers, RenameRemote(w) PROVE Goal
  BY <1>19 DEF RenameRemote, Goto, Return, Promoted, NotPromoted, Target, queueVars, callVars, TypeOK, Ownership, Direction, Executing
<1>20. ASSUME NEW w \in Workers, Disarm(w) PROVE Goal
  BY <1>20 DEF Disarm, Goto, queueVars, callVars, fileVars, TypeOK, Ownership, Direction, Target, Executing
<1>21. ASSUME NEW w \in Workers, Report(w) PROVE Goal
  BY <1>21 DEF Report, Goto, SetState, FailRow, CancelRow, callVars, fileVars, TypeOK, Ownership, Direction, Target, Executing
<1>23. ASSUME NEW w \in Workers, Unanswered(w) PROVE Goal
  BY <1>23 DEF Unanswered, Goto, Return, queueVars, TypeOK, Direction, Target
<1>24. ASSUME NEW t \in Tasks, Lands(t) PROVE Goal
  BY <1>24 DEF Lands, queueVars, workVars, Direction, Target
<1>22. ASSUME UNCHANGED vars PROVE Goal
  BY <1>22 DEF vars, queueVars, callVars, workVars, fileVars, TypeOK, Ownership, Direction, Target, Executing
<1> QED
  BY <1>1, <1>2, <1>3, <1>4, <1>5, <1>6, <1>7, <1>8, <1>9, <1>10, <1>11, <1>12, <1>13, <1>14, <1>15, <1>16, <1>17, <1>18, <1>19, <1>20, <1>21, <1>22, <1>23, <1>24 DEF Next, CallStep, WorkerStep

-----------------------------------------------------------------------------
\* The inductive invariant of the transfer engine.
IInv == TypeOK /\ Ownership /\ TokenMap /\ Outcome /\ Staging /\ Direction

\* Before the first call nothing is queued, armed, delivered or staged.
LEMMA InitIInv == Init => IInv
<1> SUFFICES ASSUME Init PROVE IInv
  OBVIOUS
<1> USE PoolAssumption DEF Init
<1>1. TypeOK
  BY DEF TypeOK, States, PCs, Content
<1>2. Ownership
  BY DEF Ownership, InChan, Executing
<1>3. TokenMap
  BY DEF TokenMap, Executing
<1>4. Outcome
  BY DEF Outcome, ReportIsTrue, Executing
<1>5. Staging
  BY DEF Staging, NoLostCopy
<1>6. Direction
  BY DEF Direction
<1> QED
  BY <1>1, <1>2, <1>3, <1>4, <1>5, <1>6 DEF IInv

\* The invariant holds in every reachable state.
THEOREM Invariance == Spec => []IInv
<1>1. IInv /\ [Next]_vars => IInv'
  BY TypeStep, OwnershipStep, TokenStep, OutcomeStep, StagingStep, DirectionStep DEF IInv
<1> QED
  BY <1>1, InitIInv, PTL DEF Spec

\* The registry, the pool and the file systems stay well typed.
THEOREM TypeCorrect == Spec => []TypeOK
<1>1. IInv => TypeOK
  BY DEF IInv
<1> QED
  BY <1>1, Invariance, PTL

\* WorkerPool::cancel never stops another task's run, and a running task can
\* be cancelled until its outcome is being written.
THEOREM CancelHitsOwner == Spec => []TokenHitsOwner
<1>1. IInv => TokenHitsOwner
  <2> SUFFICES ASSUME IInv, NEW t \in Tasks
               PROVE  /\ tokens[t] # NoWorker => job[tokens[t]] = t
                      /\ state[t] = "Running" /\ tokens[t] = NoWorker
                            => \E w \in Workers : job[w] = t /\ pc[w] = "report"
    BY DEF TokenHitsOwner
  <2>1. tokens[t] # NoWorker => job[tokens[t]] = t
    BY DEF IInv, TypeOK, TokenMap
  <2>2. ASSUME state[t] = "Running", tokens[t] = NoWorker
        PROVE  \E w \in Workers : job[w] = t /\ pc[w] = "report"
    <3>1. PICK w \in Workers : job[w] = t
      BY <2>2 DEF IInv, Ownership
    <3>2. pc[w] \notin {"recv", "taken"} \cup Executing \cup {"armed"}
      BY <2>2, <3>1, PoolAssumption DEF IInv, Ownership, TokenMap
    <3>3. pc[w] = "report"
      BY <3>2 DEF IInv, TypeOK, PCs, Executing
    <3> QED
      BY <3>1, <3>3
  <2> QED
    BY <2>1, <2>2
<1> QED
  BY <1>1, Invariance, PTL

\* A row never lies about its transfer.
THEOREM ReportsAreTrue == Spec => []ReportIsTrue
<1>1. IInv => ReportIsTrue
  BY DEF IInv, Outcome
<1> QED
  BY <1>1, Invariance, PTL

\* No interleaving of transfers, cancels, failures and crashes loses the only
\* copy of a destination file.
THEOREM CopiesSurvive == Spec => []NoLostCopy
<1>1. IInv => NoLostCopy
  BY DEF IInv, Staging
<1> QED
  BY <1>1, Invariance, PTL

\* A staged destination only ever changes to a whole payload.
THEOREM OnlyWholeFiles == Spec => WholeFilesOnly
<1> DEFINE Whole == \A g \in Targets : Staged(g) /\ file'[g] # file[g] =>
          \E t \in Tasks :
              /\ req[t] = g /\ part[t] = "full"
              /\ file'[g] = t \/ (file'[g] = "absent" /\ g.kind = "upload")
<1>1. IInv /\ [Next]_vars => [Whole]_vars
  <2> SUFFICES ASSUME IInv, [Next]_vars, NEW g \in Targets, Staged(g), file'[g] # file[g]
               PROVE  \E t \in Tasks :
                         /\ req[t] = g /\ part[t] = "full"
                         /\ file'[g] = t \/ (file'[g] = "absent" /\ g.kind = "upload")
    OBVIOUS
  <2>0. CASE \E t \in Tasks : Lands(t)
    BY <2>0 DEF Lands, IInv, TypeOK
  <2> SUFFICES ASSUME ~ \E t \in Tasks : Lands(t)
               PROVE  \E t \in Tasks :
                         /\ req[t] = g /\ part[t] = "full"
                         /\ file'[g] = t \/ (file'[g] = "absent" /\ g.kind = "upload")
    BY <2>0
  <2>1. PICK w \in Workers : Eof(w) \/ Cleanup(w) \/ RenameLocal(w) \/ Unlink(w) \/ RenameRemote(w)
    BY DEF Next, CallStep, WorkerStep, vars, fileVars, Enqueue, Dispatch, Cancel, DropTerminal,
           ClearHistory, ClearNext, Recv, Arm, SetRunning, StartFail, StartOk, Check, Chunk,
           IoError, Unanswered, Disarm, Report
  <2>2. job[w] \in Tasks
    BY <2>1, JobTyped DEF IInv, Eof, Cleanup, RenameLocal, Unlink, RenameRemote
  <2>3. CASE Eof(w) \/ Cleanup(w)
    BY <2>3 DEF Eof, Cleanup, IInv, TypeOK
  <2>4. CASE RenameLocal(w)
    BY <2>2, <2>4 DEF RenameLocal, Promoted, NotPromoted, Target, IInv, TypeOK, Staging
  <2>5. CASE RenameRemote(w)
    BY <2>2, <2>5 DEF RenameRemote, Promoted, NotPromoted, Target, IInv, TypeOK, Staging
  <2>6. CASE Unlink(w)
    <3>1. g = Target(w) /\ file'[g] = "absent"
      BY <2>6 DEF Unlink, IInv, TypeOK
    <3>2. part[job[w]] = "full"
      BY <2>6 DEF Unlink, IInv, Staging
    <3>3. g.kind = "upload"
      BY <2>6, <3>1 DEF Unlink, IInv, Direction, Target
    <3> QED
      BY <2>2, <3>1, <3>2, <3>3 DEF Target
  <2> QED
    BY <2>1, <2>3, <2>4, <2>5, <2>6
<1> QED
  BY <1>1, Invariance, PTL DEF Spec, WholeFilesOnly

\* The rows of TransferPool live the life TransferLifecycle promises.
THEOREM RefinesLifecycle == Spec => LifecycleSpec
<1>1. Init => Lifecycle!Init
  BY DEF Init, Lifecycle!Init
<1>2. ASSUME IInv, [Next]_vars PROVE [Lifecycle!Next]_state
  <2> DEFINE Goal == [Lifecycle!Next]_state
  <2> SUFFICES Goal
    OBVIOUS
  <2> USE DEF Lifecycle!Next, Lifecycle!Enqueue, Lifecycle!Forgo, Lifecycle!PickUp, Lifecycle!Finish, Lifecycle!Drop,
              Lifecycle!Move
  <2>1. ASSUME NEW t \in Tasks, NEW g \in Targets, Enqueue(t, g) PROVE Goal
    BY <1>2, <2>1 DEF Enqueue, IInv, Ownership
  <2>2. ASSUME NEW t \in Tasks, DropTerminal(t) \/ ClearNext(t) PROVE Goal
    BY <2>2 DEF DropTerminal, ClearNext, DropRow, Terminal
  <2>3. ASSUME NEW w \in Workers, SetRunning(w) PROVE Goal
    <3>1. job[w] \in Tasks /\ state[job[w]] = "Queued"
      BY <1>2, <2>3, JobTyped DEF SetRunning, IInv, Ownership
    <3> QED
      BY <2>3, <3>1 DEF SetRunning, SetState
  <2>4. ASSUME NEW w \in Workers, Report(w) PROVE Goal
    <3>1. job[w] \in Tasks /\ state[job[w]] = "Running"
      BY <1>2, <2>4, JobTyped DEF Report, IInv, Ownership
    <3>2. \E s \in {"Completed", "Failed", "Cancelled"} : state' = [state EXCEPT ![job[w]] = s]
      BY <2>4, <3>1 DEF Report, CancelRow, SetState, FailRow, Terminal
    <3> QED
      BY <3>1, <3>2
  <2>5. ASSUME UNCHANGED state PROVE Goal
    BY <2>5
  <2> QED
    BY <1>2, <2>1, <2>2, <2>3, <2>4, <2>5
       DEF Next, CallStep, WorkerStep, vars, queueVars, Dispatch, Cancel, ClearHistory, Recv, Arm,
           StartFail, StartOk, Check, Chunk, IoError, Eof, Cleanup, RenameLocal, Unlink,
           RenameRemote, Unanswered, Lands, Disarm
<1> QED
  BY <1>1, <1>2, Invariance, PTL DEF Spec, LifecycleSpec, Lifecycle!Spec
=============================================================================
