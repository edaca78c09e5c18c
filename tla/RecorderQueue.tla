---------------------------- MODULE RecorderQueue ----------------------------
(***************************************************************************)
(* Session recording: the terminal tee that produces chunks, the           *)
(* per-direction buffers with their deadline flush, the bounded mailbox    *)
(* and its worker (lfs_core/src/recorder/queue.rs), the file of the actor  *)
(* (recorder/mod.rs) and the Dart SessionRecorder that rotates and closes  *)
(* (lib/core/session/session_recorder.dart).                               *)
(*                                                                         *)
(* One recording.  Chunks are numbered in the order in which they enter    *)
(* the buffers.  Whoever holds entries it has still to send into the       *)
(* mailbox is a sender: a tee call, a deadline timer, a rotation or the    *)
(* close.  A threshold of bytes is a threshold of chunks.  Nobody but the  *)
(* worker touches the file, so an entry is received and written in one     *)
(* step; sealing the file, leaving the worker map and dropping the         *)
(* receiver are one step too, for an entry sent in between is lost         *)
(* either way.                                                             *)
(***************************************************************************)
EXTENDS Naturals, Sequences, FiniteSets

CONSTANTS Typists,      \* concurrent input calls of the terminal
          Timers,       \* deadline-flush tasks alive at a time
          Rotors,       \* _rotate calls alive at a time
          NoTimer,
          Threshold,    \* FLUSH_THRESHOLD_BYTES, in chunks
          Capacity,     \* QUEUE_CAPACITY
          MaxSize,      \* MAX_FILE_BYTES, in frames
          MaxChunks,    \* bound: chunks recorded
          Faults        \* TRUE: a write or the opening of a file may fail

Callers == {"pump"} \cup Typists
Senders == Callers \cup Timers \cup Rotors \cup {"close"}

ASSUME RecorderAssumption ==
    /\ NoTimer \notin Timers
    /\ Threshold \in Nat \ {0} /\ Capacity \in Nat \ {0}
    /\ MaxSize \in Nat /\ MaxChunks \in Nat
    /\ Faults \in BOOLEAN
    /\ Timers \cap (Callers \cup Rotors \cup {"close"}) = {}
    /\ Rotors \cap (Callers \cup {"close"}) = {}
    /\ "close" \notin Callers /\ "pump" \notin Typists

VARIABLES
    attached,  \* TerminalSession.recorder is Some
    call,      \* a tee call: "idle", or "cloned" the id and not yet in the buffer
    next,      \* number of the next chunk
    buf,       \* EventBuffers.output and .input
    slot,      \* EventBuffers.flush_task
    timer,     \* the deadline-flush tasks
    out,       \* entries a sender has still to send
    chan,      \* the mailbox
    latch,     \* rotate_requested of worker_loop
    requests,  \* RecorderRotateRequested events on their way to Dart
    rotor,     \* _rotate: "off", "begin", "rotate" or "header"
    closer,    \* SessionRecorder.close: "open", "closing", "sent"
    cut,       \* history: the chunks the close owes, the ones not lost when it drained the
               \* buffers; none when another sender held entries just then
    file,      \* number of the actor's current file
    open,      \* RecorderActor.file is Some
    size,      \* RecorderActor.bytes_written, in frames
    frame,     \* RecorderActor.frame_index
    disk,      \* history: the frames written, in order
    spoilt,    \* history: files with a failed write, and the file that could not be opened
    lost,      \* history: chunks that will never be written
    sealed     \* the actor is removed and the worker gone

teeVars    == <<attached, call, next>>
bufVars    == <<buf, slot, timer>>
dartVars   == <<requests, rotor, closer, cut>>
fileVars   == <<file, open, size, frame, disk, spoilt>>
vars == <<teeVars, bufVars, out, chan, latch, dartVars, fileVars, lost, sealed>>

Dirs == {"Output", "Input"}

\* The shell pump records output, the input methods of the session input.
DirOf(c) == IF c = "pump" THEN "Output" ELSE "Input"

\* QueueEntry.
Event(d, cs) == [kind |-> "event", dir |-> d, chunks |-> cs]
Marker(k)    == [kind |-> k, dir |-> "none", chunks |-> <<>>]

ChunksOf(entries) == UNION {{entries[i].chunks[j] : j \in 1 .. Len(entries[i].chunks)} :
                            i \in 1 .. Len(entries)}

\* SessionRecorder.open has registered the actor, spawned the worker and sent
\* the header before the recording is attached to the terminal.
Init ==
    /\ attached = TRUE
    /\ call = [c \in Callers |-> "idle"]
    /\ next = 1
    /\ buf = [d \in Dirs |-> <<>>]
    /\ slot = NoTimer
    /\ timer = [t \in Timers |-> "off"]
    /\ out = [p \in Senders |-> <<>>]
    /\ chan = <<Marker("header")>>
    /\ latch = FALSE
    /\ requests = 0
    /\ rotor = [r \in Rotors |-> "off"]
    /\ closer = "open"
    /\ cut = {}
    /\ file = 1 /\ open = TRUE /\ size = 0 /\ frame = 0
    /\ disk = <<>> /\ spoilt = {} /\ lost = {}
    /\ sealed = FALSE

-----------------------------------------------------------------------------
(* EventBuffers.                                                           *)

\* One Event entry per non-empty direction, output first.
Pending(b) ==
    (IF b["Output"] = <<>> THEN <<>> ELSE <<Event("Output", b["Output"])>>)
    \o (IF b["Input"] = <<>> THEN <<>> ELSE <<Event("Input", b["Input"])>>)

\* Mutant: drain forgets to empty the input buffer it hands out.
Drain_KeepsInput(p, b, tail) ==
    /\ buf' = [b EXCEPT !["Output"] = <<>>]
    /\ out' = [out EXCEPT ![p] = Pending(b) \o tail]
    /\ slot' = NoTimer
    /\ timer' = IF slot = NoTimer THEN timer
                ELSE [timer EXCEPT ![slot] = IF @ = "sleep" THEN "off" ELSE "doomed"]

\* EventBuffers::drain of the contents b by sender p, which goes on to send
\* `tail`.  Aborting a sleeping timer ends it; one that already runs goes on
\* until it has to wait.
Drain(p, b, tail) ==
    /\ buf' = [d \in Dirs |-> <<>>]
    /\ out' = [out EXCEPT ![p] = Pending(b) \o tail]
    /\ slot' = NoTimer
    /\ timer' = IF slot = NoTimer THEN timer
                ELSE [timer EXCEPT ![slot] = IF @ = "sleep" THEN "off" ELSE "doomed"]

-----------------------------------------------------------------------------
(* The terminal tee: enqueue_event_chunk.                                  *)

\* A byte chunk arrives and the recorder id is cloned out of its slot.
Tee(c) ==
    /\ call[c] = "idle" /\ out[c] = <<>>
    /\ attached
    /\ next + Cardinality({k \in Callers : call[k] = "cloned"}) <= MaxChunks
    /\ call' = [call EXCEPT ![c] = "cloned"]
    /\ UNCHANGED <<attached, next, bufVars, out, chan, latch, dartVars, fileVars, lost, sealed>>

\* "queue not spawned": the chunk is dropped with a warning.
TeeRefused(c) ==
    /\ call[c] = "cloned" /\ sealed
    /\ call' = [call EXCEPT ![c] = "idle"]
    /\ UNCHANGED <<attached, next, bufVars, out, chan, latch, dartVars, fileVars, lost, sealed>>

\* Mutant: the chunk that finds no timer does not start one.
Buffer_Unarmed(c) ==
    /\ Len(buf[DirOf(c)]) + 1 < Threshold
    /\ buf' = [buf EXCEPT ![DirOf(c)] = Append(@, next)]
    /\ UNCHANGED <<slot, timer, out>>

\* Below the threshold: the first chunk starts the deadline timer.
Buffer(c) ==
    /\ Len(buf[DirOf(c)]) + 1 < Threshold
    /\ buf' = [buf EXCEPT ![DirOf(c)] = Append(@, next)]
    /\ \/ slot # NoTimer /\ UNCHANGED <<slot, timer>>
       \/ /\ slot = NoTimer
          /\ \E t \in Timers : /\ timer[t] = "off"
                               /\ slot' = t
                               /\ timer' = [timer EXCEPT ![t] = "sleep"]
    /\ UNCHANGED out

\* The threshold is reached: the caller drains both directions itself.
Overrun(c) ==
    /\ Len(buf[DirOf(c)]) + 1 >= Threshold
    /\ Drain(c, [buf EXCEPT ![DirOf(c)] = Append(@, next)], <<>>)

\* enqueue_event_chunk under the buffer lock.
Chunk(c) ==
    /\ call[c] = "cloned" /\ ~sealed
    /\ call' = [call EXCEPT ![c] = "idle"]
    /\ next' = next + 1
    /\ Buffer(c) \/ Overrun(c)
    /\ UNCHANGED <<attached, chan, latch, dartVars, fileVars, lost, sealed>>

-----------------------------------------------------------------------------
(* spawn_deadline_flush.                                                   *)

TimerFires(t) ==
    /\ timer[t] = "sleep"
    /\ timer' = [timer EXCEPT ![t] = "awake"]
    /\ UNCHANGED <<teeVars, buf, slot, out, chan, latch, dartVars, fileVars, lost, sealed>>

\* The timer clears the slot, whoever's it is, and takes the buffers; it
\* sends after the lock is released.
TimerDrains(t) ==
    /\ timer[t] \in {"awake", "doomed"}
    /\ buf' = [d \in Dirs |-> <<>>]
    /\ slot' = NoTimer
    /\ out' = [out EXCEPT ![t] = Pending(buf)]
    /\ timer' = [timer EXCEPT ![t] = IF \A d \in Dirs : buf[d] = <<>> THEN "off"
                                     ELSE IF @ = "awake" THEN "send" ELSE "doomedSend"]
    /\ UNCHANGED <<teeVars, chan, latch, dartVars, fileVars, lost, sealed>>

\* An aborted timer that finds the mailbox full is cancelled at that await.
TimerCancelled(t) ==
    /\ timer[t] = "doomedSend" /\ ~sealed /\ Len(chan) >= Capacity
    /\ timer' = [timer EXCEPT ![t] = "off"]
    /\ out' = [out EXCEPT ![t] = <<>>]
    /\ lost' = lost \cup ChunksOf(out[t])
    /\ UNCHANGED <<teeVars, buf, slot, chan, latch, dartVars, fileVars, sealed>>

-----------------------------------------------------------------------------
(* Senders.                                                                *)

\* A timer with nothing left to send ends.
Rest(p, left) ==
    timer' = IF p \in Timers /\ left = <<>> THEN [timer EXCEPT ![p] = "off"] ELSE timer

\* Mutant: the mailbox is unbounded.
Send_Unbounded(p) ==
    /\ out[p] # <<>> /\ ~sealed
    /\ chan' = Append(chan, Head(out[p]))
    /\ out' = [out EXCEPT ![p] = Tail(@)]
    /\ Rest(p, Tail(out[p]))
    /\ UNCHANGED <<teeVars, buf, slot, latch, dartVars, fileVars, lost, sealed>>

\* sender.send(..).await with room in the mailbox.
Send(p) ==
    /\ out[p] # <<>> /\ ~sealed /\ Len(chan) < Capacity
    /\ chan' = Append(chan, Head(out[p]))
    /\ out' = [out EXCEPT ![p] = Tail(@)]
    /\ Rest(p, Tail(out[p]))
    /\ UNCHANGED <<teeVars, buf, slot, latch, dartVars, fileVars, lost, sealed>>

\* Mutant: a sender that finds the receiver gone tries again for ever.
SendFails_Retries(p) ==
    /\ out[p] # <<>> /\ sealed
    /\ UNCHANGED vars

\* The receiver is gone: the sender gives the rest up; _rotate ends in its catch.
SendFails(p) ==
    /\ out[p] # <<>> /\ sealed
    /\ lost' = lost \cup ChunksOf(out[p])
    /\ out' = [out EXCEPT ![p] = <<>>]
    /\ Rest(p, <<>>)
    /\ rotor' = IF p \in Rotors THEN [rotor EXCEPT ![p] = "off"] ELSE rotor
    /\ UNCHANGED <<teeVars, buf, slot, chan, latch, requests, closer, cut, fileVars, sealed>>

-----------------------------------------------------------------------------
(* SessionRecorder.                                                        *)

\* _onBusEvent(RecorderRotateRequested) starts _rotate, which returns at once
\* when the recorder is closed.
RotateHeard(r) ==
    /\ requests > 0 /\ rotor[r] = "off"
    /\ requests' = requests - 1
    /\ rotor' = IF closer = "open" THEN [rotor EXCEPT ![r] = "begin"] ELSE rotor
    /\ UNCHANGED <<teeVars, bufVars, out, chan, latch, closer, cut, fileVars, lost, sealed>>

\* The two enqueue_blocking calls of _rotate.
RotateCall(r) ==
    /\ \/ rotor[r] = "begin" /\ ~sealed
          /\ rotor' = [rotor EXCEPT ![r] = "rotate"]
          /\ Drain(r, buf, <<Marker("rotate")>>)
       \/ rotor[r] = "rotate" /\ out[r] = <<>> /\ ~sealed
          /\ rotor' = [rotor EXCEPT ![r] = "header"]
          /\ Drain(r, buf, <<Marker("header")>>)
    /\ UNCHANGED <<teeVars, chan, latch, requests, closer, cut, fileVars, lost, sealed>>

\* _rotate returns, or finds the queue gone.
RotateEnds(r) ==
    /\ out[r] = <<>>
    /\ rotor[r] = "header" \/ (rotor[r] \in {"begin", "rotate"} /\ sealed)
    /\ rotor' = [rotor EXCEPT ![r] = "off"]
    /\ UNCHANGED <<teeVars, bufVars, out, chan, latch, requests, closer, cut, fileVars,
                   lost, sealed>>

\* _stopRecording detaches the tee first; the dispose of the pane does not.
StopRecording ==
    /\ closer = "open"
    /\ closer' = "closing"
    /\ attached' \in {FALSE, attached}
    /\ UNCHANGED <<call, next, bufVars, out, chan, latch, requests, rotor, cut, fileVars,
                   lost, sealed>>

\* history: what was recorded before a close that no other sender overtakes.
Closing == cut' = IF \A p \in Senders : out[p] = <<>> THEN (1 .. next - 1) \ lost ELSE {}

\* Mutant: Close is sent without the buffers it should push ahead of it.
CloseCall_NoDrain ==
    /\ closer = "closing"
    /\ closer' = "sent"
    /\ Closing
    /\ out' = [out EXCEPT !["close"] = <<Marker("close")>>]
    /\ UNCHANGED <<bufVars, teeVars, chan, latch, requests, rotor, fileVars, lost, sealed>>

\* close: enqueue_blocking(Close).  Its wait for RecorderStopped, at most two
\* seconds, changes nothing.
CloseCall ==
    /\ closer = "closing"
    /\ closer' = "sent"
    /\ Closing
    /\ Drain("close", buf, <<Marker("close")>>)
    /\ UNCHANGED <<teeVars, chan, latch, requests, rotor, fileVars, lost, sealed>>

-----------------------------------------------------------------------------
(* worker_loop.                                                            *)

Receive(kind) ==
    /\ ~sealed /\ chan # <<>>
    /\ Head(chan).kind = kind
    /\ chan' = Tail(chan)

Written(e) == [file |-> file, frame |-> frame, entry |-> e]

\* record_frame_at: the index is claimed before the write.
WriteFrame(e) ==
    /\ open
    /\ disk' = Append(disk, Written(e))
    /\ frame' = frame + 1
    /\ size' = size + 1
    /\ UNCHANGED <<file, open, spoilt, lost>>

\* No file after a failed rotation, or the write fails after the claim.
WriteFails(e) ==
    /\ ~open \/ Faults
    /\ frame' = IF open THEN frame + 1 ELSE frame
    /\ spoilt' = IF open THEN spoilt \cup {file} ELSE spoilt
    /\ lost' = lost \cup ChunksOf(<<e>>)
    /\ UNCHANGED <<file, open, size, disk>>

\* handle_header.
WorkHeader ==
    /\ Receive("header")
    /\ WriteFrame(Head(chan)) \/ WriteFails(Head(chan))
    /\ UNCHANGED <<teeVars, bufVars, out, latch, dartVars, sealed>>

\* Mutant: the request is not latched.
WorkEvent_Unlatched ==
    /\ Receive("event")
    /\ \/ /\ WriteFrame(Head(chan))
          /\ requests' = IF ~latch /\ size' > MaxSize THEN requests + 1 ELSE requests
       \/ WriteFails(Head(chan)) /\ UNCHANGED requests
    /\ UNCHANGED <<teeVars, bufVars, out, latch, rotor, closer, cut, sealed>>

\* handle_event: a file over its size asks for a rotation, once.
WorkEvent ==
    /\ Receive("event")
    /\ \/ /\ WriteFrame(Head(chan))
          /\ latch' = (latch \/ size' > MaxSize)
          /\ requests' = IF ~latch /\ size' > MaxSize THEN requests + 1 ELSE requests
       \/ WriteFails(Head(chan)) /\ UNCHANGED <<latch, requests>>
    /\ UNCHANGED <<teeVars, bufVars, out, rotor, closer, cut, sealed>>

\* Mutant: the rotated file goes on with the frame counter of the old one.
WorkRotate_KeepsIndex ==
    /\ Receive("rotate")
    /\ latch' = FALSE
    /\ \/ open /\ file' = file + 1 /\ size' = 0 /\ UNCHANGED <<open, frame>>
       \/ (~open \/ Faults) /\ open' = FALSE /\ UNCHANGED <<file, size, frame>>
    /\ UNCHANGED <<teeVars, bufVars, out, dartVars, disk, spoilt, lost, sealed>>

\* handle_rotate: rotate_to gives the old file up first, so a failure leaves
\* the actor without one.
WorkRotate ==
    /\ Receive("rotate")
    /\ latch' = FALSE
    /\ \/ open /\ file' = file + 1 /\ size' = 0 /\ frame' = 0 /\ UNCHANGED <<open, spoilt>>
       \/ /\ ~open \/ Faults
          /\ open' = FALSE /\ spoilt' = spoilt \cup {file + 1}
          /\ UNCHANGED <<file, size, frame>>
    /\ UNCHANGED <<teeVars, bufVars, out, dartVars, disk, lost, sealed>>

\* Mutant: the worker goes on receiving after Close.
WorkClose_Lingers ==
    /\ Receive("close")
    /\ open' = FALSE
    /\ UNCHANGED <<teeVars, bufVars, out, latch, dartVars, file, size, frame, disk, spoilt,
                   lost, sealed>>

\* handle_close and drop_worker: what is still in the mailbox is dropped.
WorkClose ==
    /\ ~sealed /\ chan # <<>> /\ Head(chan).kind = "close"
    /\ sealed' = TRUE /\ open' = FALSE /\ chan' = <<>>
    /\ lost' = lost \cup ChunksOf(Tail(chan))
    /\ UNCHANGED <<teeVars, bufVars, out, latch, dartVars, file, size, frame, disk, spoilt>>

-----------------------------------------------------------------------------
Work == WorkHeader \/ WorkEvent \/ WorkRotate \/ WorkClose
CallStep(c) == TeeRefused(c) \/ Chunk(c)
TimerStep(t) == TimerFires(t) \/ TimerDrains(t) \/ TimerCancelled(t)
RotorStep(r) == RotateHeard(r) \/ RotateCall(r) \/ RotateEnds(r)
SendStep(p) == Send(p) \/ SendFails(p)

Next ==
    \/ \E c \in Callers : Tee(c) \/ CallStep(c)
    \/ \E t \in Timers : TimerStep(t)
    \/ \E r \in Rotors : RotorStep(r)
    \/ \E p \in Senders : SendStep(p)
    \/ StopRecording \/ CloseCall
    \/ Work

Spec == Init /\ [][Next]_vars

\* The runtime polls its ready tasks, waiting senders get the mailbox's
\* permits in order, the blocking pool finishes its writes and Dart's event
\* loop drains.  The shell and the user owe nothing.
Fairness ==
    /\ WF_vars(Work) /\ WF_vars(CloseCall)
    /\ \A c \in Callers : WF_vars(CallStep(c))
    /\ \A t \in Timers : WF_vars(TimerStep(t))
    /\ \A r \in Rotors : WF_vars(RotorStep(r))
    /\ \A p \in Senders : WF_vars(SendStep(p))

LiveSpec == Spec /\ Fairness

-----------------------------------------------------------------------------
(* Properties.                                                             *)

Chunks == 1 .. MaxChunks
Entries ==
    [kind : {"event"}, dir : Dirs, chunks : Seq(Chunks)]
    \cup {Marker(k) : k \in {"header", "rotate", "close"}}

\* Type correctness of tee, buffers, timers and file, and the mailbox keeps to
\* its capacity (QUEUE_CAPACITY) however many senders wait.
TypeOK ==
    /\ attached \in BOOLEAN
    /\ call \in [Callers -> {"idle", "cloned"}]
    /\ next \in Nat \ {0}
    /\ buf \in [Dirs -> Seq(Chunks)]
    /\ slot \in Timers \cup {NoTimer}
    /\ timer \in [Timers -> {"off", "sleep", "awake", "doomed", "send", "doomedSend"}]
    /\ out \in [Senders -> Seq(Entries)]
    /\ chan \in Seq(Entries) /\ Len(chan) <= Capacity
    /\ latch \in BOOLEAN
    /\ requests \in Nat
    /\ rotor \in [Rotors -> {"off", "begin", "rotate", "header"}]
    /\ closer \in {"open", "closing", "sent"}
    /\ cut \subseteq Chunks
    /\ file \in Nat /\ open \in BOOLEAN /\ size \in Nat /\ frame \in Nat
    /\ disk \in Seq([file : Nat, frame : Nat, entry : Entries])
    /\ spoilt \subseteq Nat /\ lost \subseteq Chunks
    /\ sealed \in BOOLEAN

OnDisk(c) == \E i \in 1 .. Len(disk) : c \in ChunksOf(<<disk[i].entry>>)

\* Every place a chunk is in.
Holders(c) ==
    {<<"buf", d>> : d \in {d \in Dirs : \E i \in 1 .. Len(buf[d]) : buf[d][i] = c}}
    \cup {<<"out", p>> : p \in {p \in Senders : c \in ChunksOf(out[p])}}
    \cup {<<"chan", i>> : i \in {i \in 1 .. Len(chan) : c \in ChunksOf(<<chan[i]>>)}}
    \cup {<<"disk", i>> : i \in {i \in 1 .. Len(disk) : c \in ChunksOf(<<disk[i].entry>>)}}
    \cup (IF c \in lost THEN {<<"lost", 0>>} ELSE {})

\* A chunk that entered the buffers is in exactly one place from then on: no
\* race of threshold, deadline, rotate and close drains duplicates it, and it
\* goes missing only where a sender or the worker gives it up.
Accounted == \A c \in 1 .. next - 1 : Cardinality(Holders(c)) = 1

\* Buffered bytes always have a deadline timer that will still drain them,
\* although any timer may clear the slot of another (flush_task).
NoStrandedBytes ==
    (\E d \in Dirs : buf[d] # <<>>) =>
        \E t \in Timers : timer[t] \in {"sleep", "awake", "doomed"}

\* A file that overflows is rotated once: between the request and the worker's
\* rotate_to there is never a second rotation under way (rotate_requested).
OneRotation ==
    LET begun == Cardinality({r \in Rotors : rotor[r] = "begin"})
        held  == Cardinality({p \in Rotors : \E i \in 1 .. Len(out[p]) : out[p][i].kind = "rotate"})
        sent  == Cardinality({i \in 1 .. Len(chan) : chan[i].kind = "rotate"})
    IN requests + begun + held + sent <= 1

\* The n-th frame of a file was sealed with frame index n, which is what the
\* reader recomputes, as long as no write to that file failed.
FramesDecodable ==
    \A i \in 1 .. Len(disk) :
        disk[i].file \notin spoilt =>
            disk[i].frame = Cardinality({j \in 1 .. i - 1 : disk[j].file = disk[i].file})

\* What entered the buffers is written or given up in the end: it does not
\* stay in a buffer, a blocked sender or the mailbox.
ChunkSettles == \A c \in Chunks : (c < next) ~> (OnDisk(c) \/ c \in lost)

\* A close seals the file in the end, also with a full mailbox, concurrent
\* rotations and failing writes.
CloseSeals == (closer # "open") ~> sealed

\* A close that no other sender crosses keeps every byte: what was recorded and
\* not lost before it (enqueue_blocking drains the buffers ahead of Close) is in
\* the sealed file, past a full mailbox, rotations and timers that come alive
\* later, unless a write or the opening of a file failed.
CloseKeeps == (sealed /\ spoilt = {}) => \A c \in cut : OnDisk(c)

=============================================================================
