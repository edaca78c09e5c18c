---------------------------- MODULE TransferPool ----------------------------
(***************************************************************************)
(* The file-transfer engine: the task registry (transfer/mod.rs), the      *)
(* bounded worker pool and its per-task cancellation tokens, the streaming *)
(* executors with their `.part` staging (transfer/driver.rs), and the      *)
(* calls the UI makes on them (lfs_frb/src/api/transfer.rs).               *)
(*                                                                         *)
(* A task id is a fresh UUID (lib/providers/transfer_provider.dart), so an *)
(* id is enqueued and dispatched once.  Bytes are abstracted: a file holds *)
(* the content it had before ("prior"), nothing ("absent"), a mixture      *)
(* ("torn"), or the whole payload of a task (the task itself).  The byte   *)
(* count of a row (set_progress) is left out: only the UI's bar reads it.  *)
(***************************************************************************)
EXTENDS Integers, Sequences, FiniteSets

CONSTANTS Tasks,     \* task ids the UI may issue
          Workers,   \* tokio workers of the pool
          Cap,       \* capacity of the dispatch channel
          Targets,   \* destination files: records [kind, via, name]
          Existing,  \* the targets that hold a file before any transfer
          NoTask, NoWorker

Kinds == {"download", "upload"}
Vias  == {"ssh", "provider"}

ASSUME TargetsAssumption ==
    \A g \in Targets : g.kind \in Kinds /\ g.via \in Vias

ASSUME PoolAssumption ==
    /\ Cap \in Nat \ {0}
    /\ Existing \subseteq Targets
    /\ NoTask \notin Tasks
    /\ NoWorker \notin Workers
    /\ {"prior", "absent", "torn"} \cap Tasks = {}

VARIABLES
    \* TransferQueue (by_id): the row of a task; "none" when there is no row
    state,      \* TaskActor.state
    req,        \* the target the task was enqueued for
    \* callers
    fresh,      \* ids not issued yet
    sending,    \* ids whose `dispatch(..).await` has not returned
    clearing,   \* ids transfer_clear_history has still to drop
    \* WorkerPool
    chan,       \* the bounded dispatch channel
    tokens,     \* cancel_tokens: the worker whose token the task maps to
    \* one worker each
    pc, job,
    flag,       \* the CancellationToken the worker made for its job
    result,     \* what the executor returned
    \* file systems
    part,       \* the staging file `<dest>.<task>.part` of a task
    file,       \* content of every target
    \* history, for the properties
    asked,      \* what the cancels of a task met: "missed" no token, "flagged" one
    delivered,  \* tasks whose payload replaced the target
    unanswered  \* tasks whose last request to the server got no answer

queueVars == <<state, req>>
callVars  == <<fresh, sending, clearing>>
workVars  == <<pc, job, flag, result>>
fileVars  == <<part, file, delivered, unanswered>>
vars == <<queueVars, callVars, chan, tokens, workVars, fileVars, asked>>

Terminal == {"Completed", "Failed", "Cancelled"}
States   == {"none", "Queued", "Running"} \cup Terminal
PCs      == {"recv", "taken", "armed", "start", "check", "io", "cleanup",
             "promote", "unlink", "rename", "disarm", "report"}
Content  == {"prior", "absent", "torn"} \cup Tasks

NoTarget == [kind |-> "none", via |-> "none", name |-> "none"]

\* Everything but an upload through a WebDAV / S3 provider is staged.
Staged(g) == ~(g.kind = "upload" /\ g.via = "provider")
\* The provider download polls its stream before it looks at the token.
ReadsFirst(g) == g.kind = "download" /\ g.via = "provider"

Target(w) == req[job[w]]

Init ==
    /\ state = [t \in Tasks |-> "none"]
    /\ req = [t \in Tasks |-> NoTarget]
    /\ fresh = Tasks
    /\ sending = {}
    /\ clearing = {}
    /\ chan = <<>>
    /\ tokens = [t \in Tasks |-> NoWorker]
    /\ pc = [w \in Workers |-> "recv"]
    /\ job = [w \in Workers |-> NoTask]
    /\ flag = [w \in Workers |-> FALSE]
    /\ result = [w \in Workers |-> "none"]
    /\ part = [t \in Tasks |-> "absent"]
    /\ file = [g \in Targets |-> IF g \in Existing THEN "prior" ELSE "absent"]
    /\ asked = [t \in Tasks |-> "no"]
    /\ delivered = {}
    /\ unanswered = {}

-----------------------------------------------------------------------------
(* TransferQueue: every method is one critical section.                    *)

\* set_state: a missing row is left missing.
SetState(t, s) == IF state[t] = "none" THEN state ELSE [state EXCEPT ![t] = s]

\* fail: any row becomes Failed.
FailRow(t) == SetState(t, "Failed")

\* cancel: a terminal row keeps its state.
CancelRow(t) == IF state[t] \in Terminal THEN state ELSE SetState(t, "Cancelled")

\* by_id.remove: the row and all it holds are gone.
DropRow(t) ==
    /\ state' = [state EXCEPT ![t] = "none"]
    /\ asked' = [asked EXCEPT ![t] = "no"]

-----------------------------------------------------------------------------
(* The calls of the UI.                                                    *)

\* transfer_enqueue: the row is registered, then `dispatch` is awaited.
Enqueue(t, g) ==
    /\ t \in fresh
    /\ req' = [req EXCEPT ![t] = g]
    /\ fresh' = fresh \ {t}
    /\ state' = [state EXCEPT ![t] = "Queued"]
    /\ sending' = sending \cup {t}
    /\ UNCHANGED <<clearing, chan, tokens, workVars, fileVars, asked>>

\* Mutant: an unbounded channel.
Dispatch_Unbounded(t) ==
    /\ t \in sending
    /\ chan' = Append(chan, t)
    /\ sending' = sending \ {t}
    /\ UNCHANGED <<queueVars, fresh, clearing, tokens, workVars, fileVars, asked>>

\* WorkerPool::dispatch: the send waits for room in the channel.  (Its doc
\* comment speaks of an Err on a full channel; the code has no such path.)
Dispatch(t) ==
    /\ t \in sending
    /\ Len(chan) < Cap
    /\ chan' = Append(chan, t)
    /\ sending' = sending \ {t}
    /\ UNCHANGED <<queueVars, fresh, clearing, tokens, workVars, fileVars, asked>>

\* transfer_cancel -> WorkerPool::cancel: flips the token of the task, if the
\* map has one, and touches nothing else.
Cancel(t) ==
    /\ state[t] \in {"Queued", "Running"}
    /\ IF tokens[t] # NoWorker
       THEN /\ flag' = [flag EXCEPT ![tokens[t]] = TRUE]
            /\ asked' = [asked EXCEPT ![t] = "flagged"]
       ELSE /\ asked' = [asked EXCEPT ![t] = IF @ = "no" THEN "missed" ELSE @]
            /\ UNCHANGED flag
    /\ UNCHANGED <<queueVars, callVars, chan, tokens, pc, job, result, fileVars>>

\* Mutant: drop_terminal without its look at the state.
DropTerminal_Any(t) ==
    /\ state[t] # "none"
    /\ DropRow(t)
    /\ UNCHANGED <<req, callVars, chan, tokens, workVars, fileVars>>

\* drop_terminal
DropTerminal(t) ==
    /\ state[t] \in Terminal
    /\ DropRow(t)
    /\ UNCHANGED <<req, callVars, chan, tokens, workVars, fileVars>>

\* transfer_clear_history: one snapshot of the rows ...
ClearHistory ==
    /\ clearing = {}
    /\ clearing' = {t \in Tasks : state[t] \in Terminal}
    /\ clearing' # {}
    /\ UNCHANGED <<queueVars, fresh, sending, chan, tokens, workVars, fileVars, asked>>

\* ... then drop_terminal on each row that was terminal in it.
ClearNext(t) ==
    /\ t \in clearing
    /\ clearing' = clearing \ {t}
    /\ IF state[t] \in Terminal THEN DropRow(t) ELSE UNCHANGED <<state, asked>>
    /\ UNCHANGED <<req, fresh, sending, chan, tokens, workVars, fileVars>>

-----------------------------------------------------------------------------
(* The worker: the receive loop and run_one.                               *)

Goto(w, l) == pc' = [pc EXCEPT ![w] = l]

Recv(w) ==
    /\ pc[w] = "recv" /\ chan # <<>>
    /\ job' = [job EXCEPT ![w] = Head(chan)]
    /\ chan' = Tail(chan)
    /\ Goto(w, "taken")
    /\ UNCHANGED <<queueVars, callVars, tokens, flag, result, fileVars, asked>>

\* The snapshot (a row that is gone ends the run), then a new token under the
\* lock of the token map.
Arm(w) ==
    /\ pc[w] = "taken"
    /\ IF state[job[w]] = "none"
       THEN /\ Goto(w, "recv")
            /\ job' = [job EXCEPT ![w] = NoTask]
            /\ UNCHANGED <<tokens, flag>>
       ELSE /\ Goto(w, "armed")
            /\ tokens' = [tokens EXCEPT ![job[w]] = w]
            /\ flag' = [flag EXCEPT ![w] = FALSE]
            /\ UNCHANGED job
    /\ UNCHANGED <<queueVars, callVars, chan, result, fileVars, asked>>

SetRunning(w) ==
    /\ pc[w] = "armed"
    /\ state' = SetState(job[w], "Running")
    /\ Goto(w, "start")
    /\ UNCHANGED <<req, callVars, chan, tokens, job, flag, result, fileVars, asked>>

\* The executor returned r.
Return(w, r) ==
    /\ result' = [result EXCEPT ![w] = r]
    /\ Goto(w, "disarm")

\* SftpTaskExecutor::execute gives up before it opened anything: cancelled
\* before start, no session, no live handle, or the source does not open.
StartFail(w) ==
    /\ pc[w] = "start"
    /\ Return(w, "err")
    /\ UNCHANGED <<queueVars, callVars, chan, tokens, job, flag, fileVars, asked>>

\* Mutant: the target is opened, and truncated, in place of a staging file.
StartOk_Truncates(w) ==
    /\ pc[w] = "start" /\ ~flag[w]
    /\ file' = [file EXCEPT ![Target(w)] = "torn"]
    /\ Goto(w, "check")
    /\ UNCHANGED <<queueVars, callVars, chan, tokens, job, flag, result, part, delivered, unanswered,
                   asked>>

\* Both ends open; a staged transfer has created its `.part`.
StartOk(w) ==
    /\ pc[w] = "start" /\ ~flag[w]
    /\ part' = IF Staged(Target(w)) THEN [part EXCEPT ![job[w]] = "partial"] ELSE part
    /\ Goto(w, IF ReadsFirst(Target(w)) THEN "io" ELSE "check")
    /\ UNCHANGED <<queueVars, callVars, chan, tokens, job, flag, result, file, delivered, unanswered,
                   asked>>

\* Mutant: the loop does not look at the token.
Check_Blind(w) ==
    /\ pc[w] = "check"
    /\ Goto(w, "io")
    /\ UNCHANGED <<queueVars, callVars, chan, tokens, job, flag, result, fileVars, asked>>

\* The look at the token between two chunks.
Check(w) ==
    /\ pc[w] = "check"
    /\ Goto(w, IF flag[w] THEN "cleanup" ELSE "io")
    /\ UNCHANGED <<queueVars, callVars, chan, tokens, job, flag, result, fileVars, asked>>

\* One more chunk arrived.
Chunk(w) ==
    /\ pc[w] = "io"
    /\ Goto(w, "check")
    /\ UNCHANGED <<queueVars, callVars, chan, tokens, job, flag, result, fileVars, asked>>

\* A read, a write or the final fsync fails.
IoError(w) ==
    /\ pc[w] = "io"
    /\ Goto(w, "cleanup")
    /\ UNCHANGED <<queueVars, callVars, chan, tokens, job, flag, result, fileVars, asked>>

\* End of the source: the staging file is complete and synced; an unstaged
\* upload is on the server.
Eof(w) ==
    /\ pc[w] = "io"
    /\ IF Staged(Target(w))
       THEN /\ part' = [part EXCEPT ![job[w]] = "full"]
            /\ Goto(w, IF Target(w).kind = "download" THEN "promote" ELSE "unlink")
            /\ UNCHANGED <<file, delivered, result>>
       ELSE /\ file' = [file EXCEPT ![Target(w)] = job[w]]
            /\ delivered' = delivered \cup {job[w]}
            /\ Return(w, "ok")
            /\ UNCHANGED part
    /\ UNCHANGED <<queueVars, callVars, chan, tokens, job, flag, unanswered, asked>>

\* Mutant: the error is swallowed once the staging file is removed.
Cleanup_Swallows(w) ==
    /\ pc[w] = "cleanup"
    /\ part' = [part EXCEPT ![job[w]] = "absent"]
    /\ Return(w, "ok")
    /\ UNCHANGED <<queueVars, callVars, chan, tokens, job, flag, file, delivered, unanswered, asked>>

\* The error path: a best-effort removal of the staging file.  An unstaged
\* upload that broke off may have left its bytes on the target.
Cleanup(w) ==
    /\ pc[w] = "cleanup"
    /\ IF Staged(Target(w))
       THEN /\ \E left \in {"absent", "partial"} : part' = [part EXCEPT ![job[w]] = left]
            /\ UNCHANGED file
       ELSE /\ \E c \in {file[Target(w)], "torn"} : file' = [file EXCEPT ![Target(w)] = c]
            /\ UNCHANGED part
    /\ Return(w, "err")
    /\ UNCHANGED <<queueVars, callVars, chan, tokens, job, flag, delivered, unanswered, asked>>

\* A rename that put the staging file in the place of the target.
Promoted(w) ==
    /\ file' = [file EXCEPT ![Target(w)] = job[w]]
    /\ part' = [part EXCEPT ![job[w]] = "absent"]
    /\ delivered' = delivered \cup {job[w]}
    /\ Return(w, "ok")

\* Mutant: a failed promotion is cleaned up like any other error.
NotPromoted_Removes(w) ==
    /\ Return(w, "err")
    /\ part' = [part EXCEPT ![job[w]] = "absent"]
    /\ UNCHANGED <<file, delivered>>

\* A rename that failed: nothing moves and the staging file stays.
NotPromoted(w) == Return(w, "err") /\ UNCHANGED <<part, file, delivered>>

\* Local rename: replaces the target in one step.
RenameLocal(w) ==
    /\ pc[w] = "promote"
    /\ Promoted(w) \/ NotPromoted(w)
    /\ UNCHANGED <<queueVars, callVars, chan, tokens, job, flag, unanswered, asked>>

\* Sftp::promote_staged, first request: drop the target, best effort.
Unlink(w) ==
    /\ pc[w] = "unlink"
    /\ \E c \in {file[Target(w)], "absent"} : file' = [file EXCEPT ![Target(w)] = c]
    /\ Goto(w, "rename")
    /\ UNCHANGED <<queueVars, callVars, chan, tokens, job, flag, result, part, delivered, unanswered,
                   asked>>

\* Sftp::promote_staged, second request: the server refuses an existing target.
RenameRemote(w) ==
    /\ pc[w] = "rename"
    /\ (file[Target(w)] = "absent" /\ Promoted(w)) \/ NotPromoted(w)
    /\ UNCHANGED <<queueVars, callVars, chan, tokens, job, flag, unanswered, asked>>

\* The request that would put the payload in place (the rename of a staged
\* upload, the PUT of an unstaged one) times out or its link drops: to the
\* executor an error like any other, while the server may still act on it.
Unanswered(w) ==
    /\ pc[w] = "rename" \/ (pc[w] = "io" /\ ~Staged(Target(w)))
    /\ unanswered' = unanswered \cup {job[w]}
    /\ Return(w, "err")
    /\ UNCHANGED <<queueVars, callVars, chan, tokens, job, flag, part, file, delivered, asked>>

\* The server acts on such a request, at any time after.
Lands(t) ==
    /\ t \in unanswered \ delivered
    /\ Staged(req[t]) => part[t] = "full" /\ file[req[t]] = "absent"
    /\ file' = [file EXCEPT ![req[t]] = t]
    /\ part' = [part EXCEPT ![t] = "absent"]
    /\ delivered' = delivered \cup {t}
    /\ UNCHANGED <<queueVars, callVars, chan, tokens, workVars, unanswered, asked>>

\* Mutant: the token stays in the map.
Disarm_Leaks(w) ==
    /\ pc[w] = "disarm"
    /\ Goto(w, "report")
    /\ UNCHANGED <<queueVars, callVars, chan, tokens, job, flag, result, fileVars, asked>>

\* run_one takes the token out of the map ...
Disarm(w) ==
    /\ pc[w] = "disarm"
    /\ tokens' = [tokens EXCEPT ![job[w]] = NoWorker]
    /\ Goto(w, "report")
    /\ UNCHANGED <<queueVars, callVars, chan, job, flag, result, fileVars, asked>>

\* Mutant: the error of a failed run is logged and not written to its row.
Report_LogsOnly(w) ==
    /\ pc[w] = "report"
    /\ state' = IF flag[w] THEN CancelRow(job[w])
                ELSE IF result[w] = "ok" THEN SetState(job[w], "Completed")
                ELSE state
    /\ Goto(w, "recv")
    /\ job' = [job EXCEPT ![w] = NoTask]
    /\ flag' = [flag EXCEPT ![w] = FALSE]
    /\ result' = [result EXCEPT ![w] = "none"]
    /\ UNCHANGED <<req, callVars, chan, tokens, fileVars, asked>>

\* ... and writes the outcome: a flipped token wins over the result.
Report(w) ==
    /\ pc[w] = "report"
    /\ state' = IF flag[w] THEN CancelRow(job[w])
                ELSE IF result[w] = "ok" THEN SetState(job[w], "Completed")
                ELSE FailRow(job[w])
    /\ Goto(w, "recv")
    /\ job' = [job EXCEPT ![w] = NoTask]
    /\ flag' = [flag EXCEPT ![w] = FALSE]
    /\ result' = [result EXCEPT ![w] = "none"]
    /\ UNCHANGED <<req, callVars, chan, tokens, fileVars, asked>>

WorkerStep(w) ==
    \/ Recv(w) \/ Arm(w) \/ SetRunning(w) \/ StartFail(w) \/ StartOk(w)
    \/ Check(w) \/ Chunk(w) \/ IoError(w) \/ Eof(w) \/ Cleanup(w)
    \/ RenameLocal(w) \/ Unlink(w) \/ RenameRemote(w) \/ Unanswered(w)
    \/ Disarm(w) \/ Report(w)

CallStep(t) ==
    \/ \E g \in Targets : Enqueue(t, g)
    \/ Dispatch(t) \/ Cancel(t) \/ DropTerminal(t) \/ ClearNext(t)

Next ==
    \/ \E t \in Tasks : CallStep(t)
    \/ ClearHistory
    \/ \E t \in Tasks : Lands(t)
    \/ \E w \in Workers : WorkerStep(w)

Spec == Init /\ [][Next]_vars

-----------------------------------------------------------------------------
(* Fairness.  tokio polls every ready task, the channel hands room to a    *)
(* waiting sender, and every read, write and rename returns: the SFTP      *)
(* client and the HTTP clients time a request out.                         *)
Fairness ==
    /\ \A w \in Workers : WF_vars(WorkerStep(w))
    /\ \A t \in Tasks : WF_vars(Dispatch(t))

\* Sources are finite: a worker that keeps reading meets the end.
FiniteSources == \A w \in Workers : SF_vars(Eof(w))

LiveSpec == Spec /\ Fairness

-----------------------------------------------------------------------------
(* Properties.                                                             *)

\* Type correctness of the registry, the pool and the file systems.
TypeOK ==
    /\ state \in [Tasks -> States]
    /\ req \in [Tasks -> Targets \cup {NoTarget}]
    /\ fresh \subseteq Tasks /\ sending \subseteq Tasks /\ clearing \subseteq Tasks
    /\ chan \in Seq(Tasks) /\ Len(chan) <= Cap
    /\ tokens \in [Tasks -> Workers \cup {NoWorker}]
    /\ pc \in [Workers -> PCs]
    /\ job \in [Workers -> Tasks \cup {NoTask}]
    /\ flag \in [Workers -> BOOLEAN]
    /\ result \in [Workers -> {"none", "ok", "err"}]
    /\ part \in [Tasks -> {"absent", "partial", "full"}]
    /\ file \in [Targets -> Content]
    /\ asked \in [Tasks -> {"no", "missed", "flagged"}]
    /\ delivered \subseteq Tasks /\ unanswered \subseteq Tasks

\* The token map never points a task at a worker that runs another task, so
\* WorkerPool::cancel cannot stop the wrong transfer, and a Running row whose
\* worker has not finished can always be cancelled.
TokenHitsOwner ==
    \A t \in Tasks :
        /\ tokens[t] # NoWorker => job[tokens[t]] = t
        /\ state[t] = "Running" /\ tokens[t] = NoWorker
              => \E w \in Workers : job[w] = t /\ pc[w] = "report"

\* What a row reports is what happened to the file: Completed only after the
\* payload replaced the target, Failed over a replaced target only if the
\* server never answered the request that replaced it, Cancelled only after a
\* cancel call that found the token.
ReportIsTrue ==
    \A t \in Tasks :
        /\ state[t] = "Completed" => t \in delivered
        /\ state[t] = "Failed" => t \notin delivered \/ t \in unanswered
        /\ state[t] = "Cancelled" => asked[t] = "flagged"

\* A destination that held a file is never lost: at every moment, a crash
\* included, either the target has content or a complete staging file for it
\* is on disk (the window inside Sftp::promote_staged included).
NoLostCopy ==
    \A g \in Existing :
        file[g] = "absent" =>
            \E t \in Tasks : req[t] = g /\ part[t] = "full"

\* A staged target only ever changes to the complete payload of a task that
\* was enqueued for it, or is unlinked while that payload is staged: no reader
\* of the destination sees a partial file.
WholeFilesOnly ==
    [][\A g \in Targets : Staged(g) /\ file'[g] # file[g] =>
          \E t \in Tasks :
              /\ req[t] = g /\ part[t] = "full"
              /\ file'[g] = t \/ (file'[g] = "absent" /\ g.kind = "upload")]_vars

\* A row only ever moves along the edges of the task lifecycle diagram of
\* docs/ARCHITECTURE.md.  (It never takes one of them: see CancelBeforeStart.)
Lifecycle == INSTANCE TransferLifecycle WITH state <- state
LifecycleSpec == Lifecycle!Spec

\* docs/ARCHITECTURE.md draws "queued --> cancelled: cancel() before start": a
\* task whose cancel came while it was queued does not start to run.
CancelBeforeStart ==
    [][\A t \in Tasks : state[t] = "Queued" /\ asked[t] = "missed" =>
          state'[t] \in {"Queued", "Cancelled"}]_vars

\* As long as sources are finite, every task the UI enqueued ends in a
\* terminal state, however many wait for a worker or, in `dispatch`, for room
\* in the channel.  (The comment on `dispatch` has it return an error instead
\* when the channel is full; the code awaits the send.)
EveryTaskEnds ==
    FiniteSources => \A t \in Tasks : state[t] = "Queued" ~> state[t] \in Terminal

\* A cancel that found the token ends the task even if its source never ends.
CancelEnds ==
    \A t \in Tasks : asked[t] = "flagged" ~> state[t] \in Terminal \cup {"none"}

=============================================================================
