----------------------- MODULE RecorderQueueProofs ------------------------
(***************************************************************************)
(* Proofs about RecorderQueue for every number of callers, timers,         *)
(* rotations and chunks, every threshold, capacity and file size, with     *)
(* and without failing writes: the types, the deadline timers, the         *)
(* rotations and the frame numbers.  Where each chunk is, is the subject   *)
(* of RecorderLedgerProofs.                                                *)
(***************************************************************************)
EXTENDS RecorderQueue, FiniteSetTheorems, SequenceTheorems, TLAPS

-----------------------------------------------------------------------------
(* Types.                                                                  *)

\* The callers that have cloned the recorder id and not yet buffered.
Cloned == {k \in Callers : call[k] = "cloned"}

\* The numbers of the chunks under way are within the bound.
Bounded == IsFiniteSet(Cloned) /\ next + Cardinality(Cloned) <= MaxChunks + 1

Typed == TypeOK /\ Bounded

\* A marker is an entry.
LEMMA MarkerTyped ==
    ASSUME NEW k \in {"header", "rotate", "close"}
    PROVE  Marker(k) \in Entries
BY DEF Entries

\* So is what a direction hands out.
LEMMA EventTyped ==
    ASSUME NEW d \in Dirs, NEW cs \in Seq(Chunks)
    PROVE  Event(d, cs) \in Entries
BY DEF Entries, Event

\* An entry carries chunks that exist.
LEMMA EntryChunks ==
    ASSUME NEW e \in Entries
    PROVE  e.chunks \in Seq(Chunks)
<1>1. CASE e \in [kind : {"event"}, dir : Dirs, chunks : Seq(Chunks)]
  BY <1>1
<1>2. CASE \E k \in {"header", "rotate", "close"} : e = Marker(k)
  BY <1>2 DEF Marker
<1> QED
  BY <1>1, <1>2 DEF Entries

\* So does a sequence of entries.
LEMMA ChunksTyped ==
    ASSUME NEW es \in Seq(Entries)
    PROVE  ChunksOf(es) \subseteq Chunks
<1> SUFFICES ASSUME NEW c \in ChunksOf(es) PROVE c \in Chunks
  OBVIOUS
<1>1. PICK i \in 1 .. Len(es) : c \in {es[i].chunks[j] : j \in 1 .. Len(es[i].chunks)}
  BY DEF ChunksOf
<1>2. es[i].chunks \in Seq(Chunks)
  BY EntryChunks
<1> QED
  BY <1>1, <1>2

\* A drain hands out entries.
LEMMA PendingTyped ==
    ASSUME NEW b \in [Dirs -> Seq(Chunks)]
    PROVE  Pending(b) \in Seq(Entries)
<1>1. Event("Output", b["Output"]) \in Entries /\ Event("Input", b["Input"]) \in Entries
  BY EventTyped DEF Dirs
<1> QED
  BY <1>1 DEF Pending

\* A drain keeps buffers, slot, timers and senders in their types.
LEMMA DrainTyped ==
    ASSUME TypeOK, NEW p \in Senders, NEW b \in [Dirs -> Seq(Chunks)],
           NEW tail \in Seq(Entries), Drain(p, b, tail)
    PROVE  /\ buf' \in [Dirs -> Seq(Chunks)]
           /\ slot' \in Timers \cup {NoTimer}
           /\ timer' \in [Timers -> {"off", "sleep", "awake", "doomed", "send", "doomedSend"}]
           /\ out' \in [Senders -> Seq(Entries)]
<1>1. Pending(b) \o tail \in Seq(Entries)
  BY PendingTyped
<1>2. out' \in [Senders -> Seq(Entries)]
  BY <1>1 DEF Drain, TypeOK
<1>3. timer' \in [Timers -> {"off", "sleep", "awake", "doomed", "send", "doomedSend"}]
  <2>1. CASE slot = NoTimer
    BY <2>1 DEF Drain, TypeOK
  <2>2. CASE slot # NoTimer
    BY <2>2 DEF Drain, TypeOK
  <2> QED
    BY <2>1, <2>2
<1>4. buf' \in [Dirs -> Seq(Chunks)]
  BY DEF Drain
<1> QED
  BY <1>2, <1>3, <1>4 DEF Drain

\* A step that leaves the calls alone keeps the bound.
LEMMA BoundKept ==
    ASSUME Bounded, UNCHANGED <<call, next>>
    PROVE  Bounded'
BY DEF Bounded, Cloned

\* The recording starts well-typed, with nothing under way.
LEMMA TypedInit == Init => Typed
<1> SUFFICES ASSUME Init PROVE Typed
  OBVIOUS
<1>1. Cloned = {} /\ next = 1
  BY DEF Init, Cloned
<1>2. Bounded
  BY <1>1, FS_EmptySet, RecorderAssumption DEF Bounded
<1>3. chan \in Seq(Entries) /\ Len(chan) <= Capacity
  BY MarkerTyped, RecorderAssumption DEF Init
<1>4. TypeOK
  <2>1. call \in [Callers -> {"idle", "cloned"}] /\ buf \in [Dirs -> Seq(Chunks)]
    BY DEF Init
  <2>2. timer \in [Timers -> {"off", "sleep", "awake", "doomed", "send", "doomedSend"}]
    BY DEF Init
  <2>3. out \in [Senders -> Seq(Entries)]
    BY DEF Init
  <2>4. rotor \in [Rotors -> {"off", "begin", "rotate", "header"}]
    BY DEF Init
  <2>5. disk \in Seq([file : Nat, frame : Nat, entry : Entries])
    BY DEF Init
  <2>6. slot \in Timers \cup {NoTimer} /\ next \in Nat \ {0} /\ requests \in Nat
    BY DEF Init
  <2>7. /\ attached \in BOOLEAN /\ latch \in BOOLEAN /\ open \in BOOLEAN /\ sealed \in BOOLEAN
        /\ closer \in {"open", "closing", "sent"}
    BY DEF Init
  <2>8. cut \subseteq Chunks /\ spoilt \subseteq Nat /\ lost \subseteq Chunks
    BY DEF Init
  <2>9. file \in Nat /\ size \in Nat /\ frame \in Nat
    BY DEF Init
  <2> QED
    BY <1>3, <2>1, <2>2, <2>3, <2>4, <2>5, <2>6, <2>7, <2>8, <2>9 DEF TypeOK
<1> QED
  BY <1>2, <1>4 DEF Typed

\* A free caller starts a call: one more chunk under way, within the bound.
LEMMA TypedTee ==
    ASSUME Typed, NEW c \in Callers, Tee(c)
    PROVE  Typed'
<1>1. TypeOK'
  BY DEF Typed, TypeOK, Tee, bufVars, dartVars, fileVars
<1>2. Cloned' = Cloned \cup {c} /\ c \notin Cloned /\ next' = next
  BY DEF Typed, TypeOK, Tee, Cloned
<1>3. IsFiniteSet(Cloned') /\ Cardinality(Cloned') = Cardinality(Cloned) + 1
  BY <1>2, FS_AddElement DEF Typed, Bounded
<1>4. next + Cardinality(Cloned) <= MaxChunks
  BY DEF Tee, Cloned
<1>5. Cardinality(Cloned) \in Nat /\ next \in Nat
  BY FS_CardinalityType DEF Typed, Bounded, TypeOK
<1> QED
  BY <1>1, <1>2, <1>3, <1>4, <1>5, RecorderAssumption DEF Typed, Bounded

\* A call ends: it was under way, and the rest still fit.
LEMMA CallEnds ==
    ASSUME Typed, NEW c \in Callers, call[c] = "cloned",
           call' = [call EXCEPT ![c] = "idle"]
    PROVE  /\ next \in Chunks
           /\ next' \in {next, next + 1} => Bounded'
<1>1. Cloned' = Cloned \ {c} /\ c \in Cloned
  BY DEF Typed, TypeOK, Cloned
<1>2. IsFiniteSet(Cloned') /\ Cardinality(Cloned') = Cardinality(Cloned) - 1
  BY <1>1, FS_RemoveElement DEF Typed, Bounded
<1>3. Cardinality(Cloned) \in Nat /\ Cardinality(Cloned') \in Nat /\ next \in Nat \ {0}
  BY <1>2, FS_CardinalityType DEF Typed, Bounded, TypeOK
<1>4. next + Cardinality(Cloned) <= MaxChunks + 1
  BY DEF Typed, Bounded
<1> QED
  BY <1>2, <1>3, <1>4, RecorderAssumption DEF Bounded, Chunks

\* A chunk within the bound enters the buffers or is drained with them.
LEMMA TypedChunk ==
    ASSUME Typed, NEW c \in Callers, Chunk(c)
    PROVE  Typed'
<1>1. next \in Chunks /\ Bounded'
  BY CallEnds DEF Chunk
<1>2. DirOf(c) \in Dirs /\ c \in Senders
  BY DEF DirOf, Dirs, Senders
<1>3. [buf EXCEPT ![DirOf(c)] = Append(@, next)] \in [Dirs -> Seq(Chunks)]
  BY <1>1, <1>2 DEF Typed, TypeOK
<1>4. /\ buf' \in [Dirs -> Seq(Chunks)]
      /\ slot' \in Timers \cup {NoTimer}
      /\ timer' \in [Timers -> {"off", "sleep", "awake", "doomed", "send", "doomedSend"}]
      /\ out' \in [Senders -> Seq(Entries)]
  <2>1. CASE Buffer(c)
    BY <2>1, <1>3 DEF Buffer, Typed, TypeOK
  <2>2. CASE Overrun(c)
    <3>1. <<>> \in Seq(Entries)
      OBVIOUS
    <3> QED
      BY <2>2, <1>2, <1>3, <3>1, DrainTyped DEF Overrun, Typed
  <2> QED
    BY <2>1, <2>2 DEF Chunk
<1>5. TypeOK'
  BY <1>4 DEF Typed, TypeOK, Chunk, dartVars, fileVars
<1> QED
  BY <1>1, <1>5 DEF Typed

\* The steps of a timer.
LEMMA TypedTimer ==
    ASSUME Typed, NEW t \in Timers, TimerStep(t)
    PROVE  Typed'
<1>0. t \in Senders
  BY DEF Senders
<1>1. CASE TimerFires(t)
  <2>1. TypeOK'
    BY <1>1 DEF Typed, TypeOK, TimerFires, teeVars, dartVars, fileVars
  <2> QED
    BY <1>1, <2>1, BoundKept DEF Typed, TimerFires, teeVars
<1>2. CASE TimerDrains(t)
  <2>1. Pending(buf) \in Seq(Entries)
    BY PendingTyped DEF Typed, TypeOK
  <2>2. buf' \in [Dirs -> Seq(Chunks)]
    BY <1>2 DEF TimerDrains
  <2>3. out' \in [Senders -> Seq(Entries)]
    BY <1>2, <2>1 DEF TimerDrains, Typed, TypeOK
  <2>4. timer' \in [Timers -> {"off", "sleep", "awake", "doomed", "send", "doomedSend"}]
    BY <1>2 DEF TimerDrains, Typed, TypeOK
  <2>5. TypeOK'
    BY <1>2, <2>2, <2>3, <2>4 DEF TimerDrains, Typed, TypeOK, teeVars, dartVars, fileVars
  <2> QED
    BY <1>2, <2>5, BoundKept DEF Typed, TimerDrains, teeVars
<1>3. CASE TimerCancelled(t)
  <2>1. ChunksOf(out[t]) \subseteq Chunks
    BY <1>0, ChunksTyped DEF Typed, TypeOK
  <2>2. out' \in [Senders -> Seq(Entries)]
    <3>1. <<>> \in Seq(Entries)
      OBVIOUS
    <3> QED
      BY <1>3, <3>1 DEF TimerCancelled, Typed, TypeOK
  <2>3. TypeOK'
    BY <1>3, <2>1, <2>2 DEF TimerCancelled, Typed, TypeOK, teeVars, dartVars, fileVars
  <2> QED
    BY <1>3, <2>3, BoundKept DEF Typed, TimerCancelled, teeVars
<1> QED
  BY <1>1, <1>2, <1>3 DEF TimerStep

\* The steps of a sender.
LEMMA TypedSend ==
    ASSUME Typed, NEW p \in Senders, SendStep(p)
    PROVE  Typed'
<1>0. out[p] \in Seq(Entries)
  BY DEF Typed, TypeOK
<1>1. CASE Send(p)
  <2>1. Head(out[p]) \in Entries /\ Tail(out[p]) \in Seq(Entries)
    BY <1>0, <1>1 DEF Send
  <2>2. chan' \in Seq(Entries) /\ Len(chan') <= Capacity
    BY <1>1, <2>1, RecorderAssumption DEF Send, Typed, TypeOK
  <2>3. out' \in [Senders -> Seq(Entries)]
    BY <1>1, <2>1 DEF Send, Typed, TypeOK
  <2>4. timer' \in [Timers -> {"off", "sleep", "awake", "doomed", "send", "doomedSend"}]
    BY <1>1 DEF Send, Rest, Typed, TypeOK
  <2>5. TypeOK'
    BY <1>1, <2>2, <2>3, <2>4 DEF Send, Typed, TypeOK, teeVars, dartVars, fileVars
  <2> QED
    BY <1>1, <2>5, BoundKept DEF Typed, Send, teeVars
<1>2. CASE SendFails(p)
  <2>1. ChunksOf(out[p]) \subseteq Chunks
    BY <1>0, ChunksTyped
  <2>2. out' \in [Senders -> Seq(Entries)]
    BY <1>2 DEF SendFails, Typed, TypeOK
  <2>3. timer' \in [Timers -> {"off", "sleep", "awake", "doomed", "send", "doomedSend"}]
    BY <1>2 DEF SendFails, Rest, Typed, TypeOK
  <2>4. rotor' \in [Rotors -> {"off", "begin", "rotate", "header"}]
    BY <1>2 DEF SendFails, Typed, TypeOK
  <2>5. TypeOK'
    BY <1>2, <2>1, <2>2, <2>3, <2>4 DEF SendFails, Typed, TypeOK, teeVars, fileVars
  <2> QED
    BY <1>2, <2>5, BoundKept DEF Typed, SendFails, teeVars
<1> QED
  BY <1>1, <1>2 DEF SendStep

\* The steps of the Dart recorder.
LEMMA TypedRotor ==
    ASSUME Typed, NEW r \in Rotors, RotorStep(r)
    PROVE  Typed'
<1>1. CASE RotateHeard(r)
  <2>1. TypeOK'
    BY <1>1 DEF Typed, TypeOK, RotateHeard, teeVars, bufVars, fileVars
  <2> QED
    BY <1>1, <2>1, BoundKept DEF Typed, RotateHeard, teeVars
<1>2. CASE RotateCall(r)
  <2>1. PICK k \in {"rotate", "header"} : Drain(r, buf, <<Marker(k)>>)
    BY <1>2 DEF RotateCall
  <2>2. <<Marker(k)>> \in Seq(Entries) /\ r \in Senders /\ buf \in [Dirs -> Seq(Chunks)]
    BY MarkerTyped DEF Senders, Typed, TypeOK
  <2>3. /\ buf' \in [Dirs -> Seq(Chunks)]
        /\ slot' \in Timers \cup {NoTimer}
        /\ timer' \in [Timers -> {"off", "sleep", "awake", "doomed", "send", "doomedSend"}]
        /\ out' \in [Senders -> Seq(Entries)]
    BY <2>1, <2>2, DrainTyped DEF Typed
  <2>4. rotor' \in [Rotors -> {"off", "begin", "rotate", "header"}]
    BY <1>2 DEF RotateCall, Typed, TypeOK
  <2>5. TypeOK'
    BY <1>2, <2>3, <2>4 DEF RotateCall, Typed, TypeOK, teeVars, fileVars
  <2> QED
    BY <1>2, <2>5, BoundKept DEF Typed, RotateCall, teeVars
<1>3. CASE RotateEnds(r)
  <2>1. TypeOK'
    BY <1>3 DEF Typed, TypeOK, RotateEnds, teeVars, bufVars, fileVars
  <2> QED
    BY <1>3, <2>1, BoundKept DEF Typed, RotateEnds, teeVars
<1> QED
  BY <1>1, <1>2, <1>3 DEF RotorStep

\* The close, by way of _stopRecording or the dispose of the pane.
LEMMA TypedClose ==
    ASSUME Typed, StopRecording \/ CloseCall
    PROVE  Typed'
<1>1. CASE StopRecording
  <2>1. TypeOK'
    BY <1>1 DEF Typed, TypeOK, StopRecording, bufVars, fileVars
  <2> QED
    BY <1>1, <2>1, BoundKept DEF Typed, StopRecording
<1>2. CASE CloseCall
  <2>1. Drain("close", buf, <<Marker("close")>>)
    BY <1>2 DEF CloseCall
  <2>2. /\ <<Marker("close")>> \in Seq(Entries) /\ "close" \in Senders
        /\ buf \in [Dirs -> Seq(Chunks)]
    BY MarkerTyped DEF Senders, Typed, TypeOK
  <2>3. /\ buf' \in [Dirs -> Seq(Chunks)]
        /\ slot' \in Timers \cup {NoTimer}
        /\ timer' \in [Timers -> {"off", "sleep", "awake", "doomed", "send", "doomedSend"}]
        /\ out' \in [Senders -> Seq(Entries)]
    BY <2>1, <2>2, DrainTyped DEF Typed
  <2>4. cut' \subseteq Chunks
    <3>1. Cardinality(Cloned) \in Nat /\ next \in Nat
      BY FS_CardinalityType DEF Typed, Bounded, TypeOK
    <3>2. next - 1 <= MaxChunks
      BY <3>1, RecorderAssumption DEF Typed, Bounded
    <3> QED
      BY <1>2, <3>1, <3>2, RecorderAssumption DEF CloseCall, Closing, Chunks
  <2>5. TypeOK'
    BY <1>2, <2>3, <2>4 DEF CloseCall, Typed, TypeOK, teeVars, fileVars
  <2> QED
    BY <1>2, <2>5, BoundKept DEF Typed, CloseCall, teeVars
<1> QED
  BY <1>1, <1>2

\* What the worker receives and leaves, and the file after a write.
LEMMA WorkTyped ==
    ASSUME Typed, ~sealed, chan # <<>>, chan' = Tail(chan),
           WriteFrame(Head(chan)) \/ WriteFails(Head(chan))
    PROVE  /\ chan' \in Seq(Entries) /\ Len(chan') <= Capacity
           /\ file' \in Nat /\ open' \in BOOLEAN /\ size' \in Nat /\ frame' \in Nat
           /\ disk' \in Seq([file : Nat, frame : Nat, entry : Entries])
           /\ spoilt' \subseteq Nat /\ lost' \subseteq Chunks
<1>1. Head(chan) \in Entries /\ chan' \in Seq(Entries) /\ Len(chan') <= Capacity
  BY RecorderAssumption DEF Typed, TypeOK
<1>2. CASE WriteFrame(Head(chan))
  <2>1. Written(Head(chan)) \in [file : Nat, frame : Nat, entry : Entries]
    BY <1>1 DEF Written, Typed, TypeOK
  <2> QED
    BY <1>1, <1>2, <2>1 DEF WriteFrame, Typed, TypeOK
<1>3. CASE WriteFails(Head(chan))
  <2>1. ChunksOf(<<Head(chan)>>) \subseteq Chunks
    <3>1. <<Head(chan)>> \in Seq(Entries)
      BY <1>1
    <3> QED
      BY <3>1, ChunksTyped
  <2>2. frame' \in Nat
    BY <1>3 DEF WriteFails, Typed, TypeOK
  <2>3. spoilt' \subseteq Nat
    BY <1>3 DEF WriteFails, Typed, TypeOK
  <2>4. UNCHANGED <<file, open, size, disk>> /\ lost' = lost \cup ChunksOf(<<Head(chan)>>)
    BY <1>3 DEF WriteFails
  <2> QED
    BY <1>1, <2>1, <2>2, <2>3, <2>4 DEF Typed, TypeOK
<1> QED
  BY <1>2, <1>3

\* The steps of the worker.
LEMMA TypedWork ==
    ASSUME Typed, Work
    PROVE  Typed'
<1>1. CASE WorkHeader
  <2>1. TypeOK'
    BY <1>1, WorkTyped DEF WorkHeader, Receive, Typed, TypeOK, teeVars, bufVars, dartVars
  <2> QED
    BY <1>1, <2>1, BoundKept DEF Typed, WorkHeader, teeVars
<1>2. CASE WorkEvent
  <2>1. /\ chan' \in Seq(Entries) /\ Len(chan') <= Capacity
        /\ file' \in Nat /\ open' \in BOOLEAN /\ size' \in Nat /\ frame' \in Nat
        /\ disk' \in Seq([file : Nat, frame : Nat, entry : Entries])
        /\ spoilt' \subseteq Nat /\ lost' \subseteq Chunks
    BY <1>2, WorkTyped DEF WorkEvent, Receive
  <2>2. latch' \in BOOLEAN /\ requests' \in Nat
    <3>1. CASE UNCHANGED <<latch, requests>>
      BY <3>1 DEF Typed, TypeOK
    <3>2. CASE /\ latch' = (latch \/ size' > MaxSize)
               /\ requests' = IF ~latch /\ size' > MaxSize THEN requests + 1 ELSE requests
      <4>1. latch' \in BOOLEAN
        BY <3>2
      <4>2. requests' \in Nat
        BY <3>2 DEF Typed, TypeOK
      <4> QED
        BY <4>1, <4>2
    <3> QED
      BY <1>2, <3>1, <3>2 DEF WorkEvent
  <2>3. TypeOK'
    BY <1>2, <2>1, <2>2 DEF WorkEvent, Typed, TypeOK, teeVars, bufVars
  <2> QED
    BY <1>2, <2>3, BoundKept DEF Typed, WorkEvent, teeVars
<1>3. CASE WorkRotate
  <2>1. chan' \in Seq(Entries) /\ Len(chan') <= Capacity
    BY <1>3, RecorderAssumption DEF WorkRotate, Receive, Typed, TypeOK
  <2>2. file' \in Nat /\ size' \in Nat /\ frame' \in Nat
    BY <1>3 DEF WorkRotate, Typed, TypeOK
  <2>3. spoilt' \subseteq Nat
    <3>1. file + 1 \in Nat /\ spoilt \subseteq Nat
      BY DEF Typed, TypeOK
    <3>2. spoilt' = spoilt \/ spoilt' = spoilt \cup {file + 1}
      BY <1>3 DEF WorkRotate
    <3> QED
      BY <3>1, <3>2
  <2>4. open' \in BOOLEAN /\ latch' \in BOOLEAN
    BY <1>3 DEF WorkRotate, Typed, TypeOK
  <2>5. TypeOK'
    BY <1>3, <2>1, <2>2, <2>3, <2>4 DEF WorkRotate, Typed, TypeOK, teeVars, bufVars, dartVars
  <2> QED
    BY <1>3, <2>5, BoundKept DEF Typed, WorkRotate, teeVars
<1>4. CASE WorkClose
  <2>1. Tail(chan) \in Seq(Entries)
    BY <1>4 DEF WorkClose, Typed, TypeOK
  <2>2. ChunksOf(Tail(chan)) \subseteq Chunks
    BY <2>1, ChunksTyped
  <2>4. chan' \in Seq(Entries) /\ Len(chan') <= Capacity
    BY <1>4, RecorderAssumption DEF WorkClose
  <2>5. open' \in BOOLEAN /\ sealed' \in BOOLEAN
    BY <1>4 DEF WorkClose
  <2>3. TypeOK'
    BY <1>4, <2>2, <2>4, <2>5 DEF WorkClose, Typed, TypeOK, teeVars, bufVars, dartVars
  <2> QED
    BY <1>4, <2>3, BoundKept DEF Typed, WorkClose, teeVars
<1> QED
  BY <1>1, <1>2, <1>3, <1>4 DEF Work

\* Every step keeps the types.
LEMMA TypedStep == Typed /\ [Next]_vars => Typed'
<1> SUFFICES ASSUME Typed, [Next]_vars PROVE Typed'
  OBVIOUS
<1>1. ASSUME NEW c \in Callers, TeeRefused(c) PROVE Typed'
  <2>1. TypeOK'
    BY <1>1 DEF TeeRefused, Typed, TypeOK, bufVars, dartVars, fileVars
  <2> QED
    BY <1>1, <2>1, CallEnds DEF TeeRefused, Typed
<1>2. CASE UNCHANGED vars
  <2>1. TypeOK'
    BY <1>2 DEF vars, Typed, TypeOK, teeVars, bufVars, dartVars, fileVars
  <2> QED
    BY <1>2, <2>1, BoundKept DEF vars, Typed, teeVars
<1> QED
  BY <1>1, <1>2, TypedTee, TypedChunk, TypedTimer, TypedRotor, TypedSend, TypedClose, TypedWork
  DEF Next, CallStep

\* Tee, buffers, timers, senders, mailbox and file keep their types, and the
\* mailbox never exceeds QUEUE_CAPACITY, however many senders wait.
THEOREM RecorderTyped == Spec => []TypeOK
<1>1. Typed => TypeOK
  BY DEF Typed
<1> QED
  BY <1>1, TypedInit, TypedStep, PTL DEF Spec

-----------------------------------------------------------------------------
(* Deadline timers.                                                        *)

Active == {"sleep", "awake", "doomed"}

\* The shape of the slot, the timers and the senders.
Shape ==
    /\ slot \in Timers \cup {NoTimer}
    /\ timer \in [Timers -> Active \cup {"off", "send", "doomedSend"}]
    /\ DOMAIN out = Senders /\ out = [p \in Senders |-> out[p]]

\* The slot names a timer that has neither drained nor been aborted, and only
\* a timer past its drain has something to send.
SlotLive ==
    /\ slot # NoTimer => timer[slot] \in {"sleep", "awake"}
    /\ \A t \in Timers : out[t] # <<>> => timer[t] \in {"send", "doomedSend"}

Armed == Shape /\ SlotLive /\ NoStrandedBytes

-----------------------------------------------------------------------------
\* A drain by a sender that is not a timer leaves the buffers empty and the
\* slot free; the timer it aborts had nothing to send.
LEMMA DrainArmed ==
    ASSUME Armed, NEW p \in Senders \ Timers, NEW b, NEW tail, Drain(p, b, tail)
    PROVE  Armed'
<1> USE RecorderAssumption DEF Armed, Shape
<1>1. buf' = [d \in Dirs |-> <<>>] /\ slot' = NoTimer
  BY DEF Drain
<1>2. NoStrandedBytes'
  BY <1>1 DEF NoStrandedBytes
<1>3. timer' \in [Timers -> Active \cup {"off", "send", "doomedSend"}]
  <2>1. CASE slot = NoTimer
    BY <2>1 DEF Drain
  <2>2. CASE slot # NoTimer
    BY <2>2 DEF Drain, Active
  <2> QED
    BY <2>1, <2>2
<1>4. ASSUME NEW t \in Timers, out'[t] # <<>> PROVE timer'[t] \in {"send", "doomedSend"}
  <2>1. out'[t] = out[t] /\ t \in Senders
    BY DEF Drain, Senders
  <2>2. timer[t] \in {"send", "doomedSend"}
    BY <1>4, <2>1 DEF SlotLive
  <2>3. t # slot
    BY <2>2 DEF SlotLive
  <2> QED
    BY <2>2, <2>3 DEF Drain
<1>5. DOMAIN out' = Senders /\ out' = [q \in Senders |-> out'[q]]
  BY DEF Drain
<1> QED
  BY <1>1, <1>2, <1>3, <1>4, <1>5 DEF SlotLive

-----------------------------------------------------------------------------
\* Every step keeps buffered bytes under a timer.
LEMMA ArmedStep == Armed /\ [Next]_vars => Armed'
<1> SUFFICES ASSUME Armed, [Next]_vars PROVE Armed'
  OBVIOUS
<1> DEFINE Goal == Armed'
<1> SUFFICES Goal
  OBVIOUS
<1> USE RecorderAssumption DEF Armed, Shape
<1>1. ASSUME NEW c \in Callers, Tee(c) PROVE Goal
  BY <1>1 DEF Tee, bufVars, Shape, SlotLive, NoStrandedBytes
<1>2. ASSUME NEW c \in Callers, TeeRefused(c) PROVE Goal
  BY <1>2 DEF TeeRefused, bufVars, Shape, SlotLive, NoStrandedBytes
<1>3. ASSUME NEW c \in Callers, Chunk(c) PROVE Goal
  <2>1. CASE Buffer(c)
    <3>1. CASE slot # NoTimer
      <4>1. UNCHANGED <<slot, timer, out>>
        BY <1>3, <2>1, <3>1 DEF Buffer
      <4>2. timer[slot] \in Active
        BY <3>1 DEF SlotLive, Active
      <4> QED
        BY <3>1, <4>1, <4>2 DEF SlotLive, NoStrandedBytes, Active
    <3>2. CASE slot = NoTimer
      <4>1. PICK t \in Timers : /\ timer[t] = "off"
                                /\ slot' = t
                                /\ timer' = [timer EXCEPT ![t] = "sleep"]
        BY <1>3, <2>1, <3>2 DEF Buffer
      <4>2. UNCHANGED out
        BY <2>1 DEF Buffer
      <4>3. NoStrandedBytes'
        BY <4>1 DEF NoStrandedBytes
      <4>4. SlotLive'
        BY <4>1, <4>2 DEF SlotLive
      <4> QED
        BY <4>1, <4>2, <4>3, <4>4 DEF Active
    <3> QED
      BY <3>1, <3>2
  <2>2. CASE Overrun(c)
    <3>1. Drain(c, [buf EXCEPT ![DirOf(c)] = Append(buf[DirOf(c)], next)], <<>>)
      BY <2>2 DEF Overrun
    <3>2. c \in Senders \ Timers
      BY DEF Senders
    <3> QED
      BY <3>1, <3>2, DrainArmed
  <2> QED
    BY <1>3, <2>1, <2>2 DEF Chunk
<1>4. ASSUME NEW t \in Timers, TimerFires(t) PROVE Goal
  <2>1. timer[t] = "sleep" /\ timer' = [timer EXCEPT ![t] = "awake"] /\ UNCHANGED <<buf, slot, out>>
    BY <1>4 DEF TimerFires
  <2> QED
    BY <2>1 DEF SlotLive, NoStrandedBytes, Active
<1>5. ASSUME NEW t \in Timers, TimerDrains(t) PROVE Goal
  <2>1. NoStrandedBytes' /\ slot' = NoTimer
    BY <1>5 DEF TimerDrains, NoStrandedBytes
  <2>2. out' = [out EXCEPT ![t] = Pending(buf)] /\ t \in Senders
    BY <1>5 DEF TimerDrains, Senders
  <2>3. /\ (\A d \in Dirs : buf[d] = <<>>) => timer' = [timer EXCEPT ![t] = "off"]
        /\ ~(\A d \in Dirs : buf[d] = <<>>) =>
              timer' = [timer EXCEPT ![t] = "send"] \/ timer' = [timer EXCEPT ![t] = "doomedSend"]
    BY <1>5 DEF TimerDrains
  <2>4. (\A d \in Dirs : buf[d] = <<>>) => Pending(buf) = <<>>
    BY DEF Pending, Dirs
  <2>5. timer' \in [Timers -> Active \cup {"off", "send", "doomedSend"}]
    BY <2>3
  <2>6. ASSUME NEW s \in Timers, out'[s] # <<>> PROVE timer'[s] \in {"send", "doomedSend"}
    <3>1. CASE s = t
      BY <2>2, <2>3, <2>4, <2>6, <3>1
    <3>2. CASE s # t
      <4>1. out[s] # <<>>
        BY <2>2, <2>6, <3>2 DEF Senders
      <4>2. timer'[s] = timer[s]
        BY <2>3, <3>2
      <4> QED
        BY <4>1, <4>2 DEF SlotLive
    <3> QED
      BY <3>1, <3>2
  <2> QED
    BY <2>1, <2>2, <2>5, <2>6 DEF SlotLive
<1>6. ASSUME NEW t \in Timers, TimerCancelled(t) PROVE Goal
  <2>1. /\ timer[t] = "doomedSend" /\ timer' = [timer EXCEPT ![t] = "off"]
        /\ out' = [out EXCEPT ![t] = <<>>] /\ UNCHANGED <<buf, slot>>
    BY <1>6 DEF TimerCancelled
  <2>2. t # slot
    BY <2>1 DEF SlotLive
  <2>3. NoStrandedBytes'
    BY <2>1 DEF NoStrandedBytes
  <2>4. SlotLive'
    BY <2>1, <2>2 DEF SlotLive, Senders
  <2> QED
    BY <2>1, <2>3, <2>4
<1>7. ASSUME NEW r \in Rotors, RotateHeard(r) PROVE Goal
  BY <1>7 DEF RotateHeard, bufVars, Shape, SlotLive, NoStrandedBytes
<1>8. ASSUME NEW r \in Rotors, RotateCall(r) PROVE Goal
  <2>1. Drain(r, buf, <<Marker("rotate")>>) \/ Drain(r, buf, <<Marker("header")>>)
    BY <1>8 DEF RotateCall
  <2>2. r \in Senders \ Timers
    BY DEF Senders
  <2> QED
    BY <2>1, <2>2, DrainArmed
<1>9. ASSUME NEW r \in Rotors, RotateEnds(r) PROVE Goal
  BY <1>9 DEF RotateEnds, bufVars, Shape, SlotLive, NoStrandedBytes
<1>10. ASSUME NEW p \in Senders, Send(p) PROVE Goal
  <2>1. /\ out[p] # <<>> /\ UNCHANGED <<buf, slot>>
        /\ out' = [out EXCEPT ![p] = Tail(out[p])]
        /\ timer' = timer \/ (p \in Timers /\ Tail(out[p]) = <<>> /\ timer' = [timer EXCEPT ![p] = "off"])
        /\ p \in Timers /\ Tail(out[p]) = <<>> => timer' = [timer EXCEPT ![p] = "off"]
    BY <1>10 DEF Send, Rest
  <2>2. p \in Timers => timer[p] \notin Active /\ p # slot
    BY <2>1 DEF SlotLive, Active
  <2>3. NoStrandedBytes'
    BY <2>1, <2>2 DEF NoStrandedBytes, Active
  <2>4. ASSUME NEW t \in Timers, out'[t] # <<>> PROVE timer'[t] \in {"send", "doomedSend"}
    <3>1. out[t] # <<>> /\ (t = p => Tail(out[p]) # <<>>)
      BY <2>1, <2>4 DEF Senders
    <3>2. timer[t] \in {"send", "doomedSend"} /\ timer'[t] = timer[t]
      BY <2>1, <3>1 DEF SlotLive
    <3> QED
      BY <3>2
  <2>5. SlotLive'
    BY <2>1, <2>2, <2>4 DEF SlotLive
  <2>6. timer' \in [Timers -> Active \cup {"off", "send", "doomedSend"}]
    BY <2>1
  <2> QED
    BY <2>1, <2>3, <2>5, <2>6
<1>11. ASSUME NEW p \in Senders, SendFails(p) PROVE Goal
  <2>1. /\ out[p] # <<>> /\ UNCHANGED <<buf, slot>>
        /\ out' = [out EXCEPT ![p] = <<>>]
        /\ timer' = timer \/ (p \in Timers /\ <<>> = <<>> /\ timer' = [timer EXCEPT ![p] = "off"])
        /\ p \in Timers /\ <<>> = <<>> => timer' = [timer EXCEPT ![p] = "off"]
    BY <1>11 DEF SendFails, Rest
  <2>2. p \in Timers => timer[p] \notin Active /\ p # slot
    BY <2>1 DEF SlotLive, Active
  <2>3. NoStrandedBytes'
    BY <2>1, <2>2 DEF NoStrandedBytes, Active
  <2>4. ASSUME NEW t \in Timers, out'[t] # <<>> PROVE timer'[t] \in {"send", "doomedSend"}
    <3>1. out[t] # <<>> /\ (t = p => <<>> # <<>>)
      BY <2>1, <2>4 DEF Senders
    <3>2. timer[t] \in {"send", "doomedSend"} /\ timer'[t] = timer[t]
      BY <2>1, <3>1 DEF SlotLive
    <3> QED
      BY <3>2
  <2>5. SlotLive'
    BY <2>1, <2>2, <2>4 DEF SlotLive
  <2>6. timer' \in [Timers -> Active \cup {"off", "send", "doomedSend"}]
    BY <2>1
  <2> QED
    BY <2>1, <2>3, <2>5, <2>6
<1>12. ASSUME StopRecording PROVE Goal
  BY <1>12 DEF StopRecording, bufVars, Shape, SlotLive, NoStrandedBytes
<1>13. ASSUME CloseCall PROVE Goal
  <2>1. Drain("close", buf, <<Marker("close")>>)
    BY <1>13 DEF CloseCall
  <2>2. "close" \in Senders \ Timers
    BY DEF Senders
  <2> QED
    BY <2>1, <2>2, DrainArmed
<1>14. ASSUME WorkHeader PROVE Goal
  BY <1>14 DEF WorkHeader, bufVars, Shape, SlotLive, NoStrandedBytes
<1>15. ASSUME WorkEvent PROVE Goal
  BY <1>15 DEF WorkEvent, bufVars, Shape, SlotLive, NoStrandedBytes
<1>16. ASSUME WorkRotate PROVE Goal
  BY <1>16 DEF WorkRotate, bufVars, Shape, SlotLive, NoStrandedBytes
<1>17. ASSUME WorkClose PROVE Goal
  BY <1>17 DEF WorkClose, bufVars, Shape, SlotLive, NoStrandedBytes
<1>18. ASSUME UNCHANGED vars PROVE Goal
  BY <1>18 DEF vars, bufVars, SlotLive, NoStrandedBytes
<1> QED
  BY <1>1, <1>2, <1>3, <1>4, <1>5, <1>6, <1>7, <1>8, <1>9,
     <1>10, <1>11, <1>12, <1>13, <1>14, <1>15, <1>16, <1>17, <1>18
  DEF Next, CallStep, TimerStep, RotorStep, SendStep, Work

\* Nothing is buffered at first.
LEMMA ArmedInit == Init => Armed
BY RecorderAssumption DEF Init, Armed, Shape, SlotLive, NoStrandedBytes, Senders

\* EventBuffers never holds bytes that no deadline timer will drain, whatever
\* the races of the threshold drains, the aborts and the blocking calls.
THEOREM NothingStranded == Spec => []NoStrandedBytes
<1>1. Armed => NoStrandedBytes
  BY DEF Armed
<1> QED
  BY <1>1, ArmedInit, ArmedStep, PTL DEF Spec

-----------------------------------------------------------------------------
(* Frame numbers.                                                          *)

\* The frames of file f among the first n.
FramesOf(f, n) == {j \in 1 .. n : disk[j].file = f}

\* The counter of the actor is the number of frames in its file, and the files
\* before it are finished.
Counted ==
    /\ \A i \in 1 .. Len(disk) : disk[i].file <= file
    /\ file \notin spoilt => frame = Cardinality(FramesOf(file, Len(disk)))

Numbered == FramesDecodable /\ Counted

\* Some frames of a finite file are finitely many, and one more counts one more.
LEMMA FramesFinite ==
    ASSUME NEW f, NEW n \in Nat
    PROVE  IsFiniteSet(FramesOf(f, n)) /\ Cardinality(FramesOf(f, n)) \in Nat
<1>1. IsFiniteSet(1 .. n) /\ FramesOf(f, n) \in SUBSET (1 .. n)
  BY FS_Interval DEF FramesOf
<1>2. IsFiniteSet(FramesOf(f, n))
  BY <1>1, FS_Subset
<1> QED
  BY <1>2, FS_CardinalityType

\* Steps that write nothing and keep or spoil the file keep the numbers.
LEMMA NumberedKept ==
    ASSUME Typed, Numbered, UNCHANGED <<disk, file>>, spoilt \subseteq spoilt',
           frame' = frame \/ file \in spoilt'
    PROVE  Numbered'
<1>1. FramesDecodable'
  BY DEF Numbered, FramesDecodable
<1>2. Counted'
  BY DEF Numbered, Counted, FramesOf
<1> QED
  BY <1>1, <1>2 DEF Numbered

\* A frame is written under the number of the frames before it.
LEMMA NumberedWrite ==
    ASSUME Typed, Numbered, NEW e, WriteFrame(e)
    PROVE  Numbered'
<1> DEFINE n == Len(disk)
<1>1. /\ disk' = Append(disk, Written(e)) /\ disk \in Seq([file : Nat, frame : Nat, entry : Entries])
      /\ n \in Nat /\ Len(disk') = n + 1 /\ file' = file /\ spoilt' = spoilt /\ frame' = frame + 1
      /\ file \in Nat /\ frame \in Nat
  BY DEF WriteFrame, Typed, TypeOK
<1>2. disk'[n + 1] = Written(e) /\ \A j \in 1 .. n : disk'[j] = disk[j]
  BY <1>1
<1>3. Written(e).file = file /\ Written(e).frame = frame
  BY DEF Written
<1>4. \A i \in 1 .. Len(disk') : disk'[i].file <= file
  BY <1>1, <1>2, <1>3 DEF Numbered, Counted
<1>5. FramesOf(file, n)' = FramesOf(file, n) \cup {n + 1}
  <2>1. FramesOf(file, n)' = {j \in 1 .. n + 1 : disk'[j].file = file}
    BY <1>1 DEF FramesOf
  <2> QED
    BY <2>1, <1>1, <1>2, <1>3 DEF FramesOf
<1>6. Cardinality(FramesOf(file, n)') = Cardinality(FramesOf(file, n)) + 1
  <2>1. IsFiniteSet(FramesOf(file, n)) /\ n + 1 \notin FramesOf(file, n)
    <3>1. IsFiniteSet(FramesOf(file, n))
      BY <1>1, FramesFinite
    <3>2. n + 1 \notin FramesOf(file, n)
      BY <1>1 DEF FramesOf
    <3> QED
      BY <3>1, <3>2
  <2> QED
    BY <2>1, <1>5, FS_AddElement
<1>7. Counted'
  BY <1>1, <1>4, <1>6 DEF Numbered, Counted
<1>8. ASSUME NEW i \in 1 .. n + 1, disk'[i].file \notin spoilt
      PROVE  disk'[i].frame = Cardinality({j \in 1 .. i - 1 : disk'[j].file = disk'[i].file})
  <2>1. CASE i = n + 1
    <3>1. {j \in 1 .. i - 1 : disk'[j].file = disk'[i].file} = FramesOf(file, n)
      BY <2>1, <1>1, <1>2, <1>3 DEF FramesOf
    <3>2. frame = Cardinality(FramesOf(file, n))
      BY <1>8, <2>1, <1>2, <1>3 DEF Numbered, Counted
    <3> QED
      BY <2>1, <3>1, <3>2, <1>2, <1>3
  <2>2. CASE i \in 1 .. n
    <3>1. {j \in 1 .. i - 1 : disk'[j].file = disk'[i].file} = {j \in 1 .. i - 1 : disk[j].file = disk[i].file}
      BY <2>2, <1>1, <1>2
    <3>2. disk[i].frame = Cardinality({j \in 1 .. i - 1 : disk[j].file = disk[i].file})
      BY <1>8, <2>2, <1>2 DEF Numbered, FramesDecodable
    <3> QED
      BY <2>2, <3>1, <3>2, <1>2
  <2>3. i = n + 1 \/ i \in 1 .. n
    BY <1>1
  <2> QED
    BY <2>1, <2>2, <2>3
<1>9. FramesDecodable'
  BY <1>1, <1>8 DEF FramesDecodable
<1> QED
  BY <1>7, <1>9 DEF Numbered

\* The next file starts without frames.
LEMMA NumberedRotate ==
    ASSUME Typed, Numbered, WorkRotate
    PROVE  Numbered'
<1>1. CASE file' = file + 1 /\ frame' = 0 /\ UNCHANGED <<disk, spoilt>>
  <2>1. file \in Nat /\ \A i \in 1 .. Len(disk) : disk[i].file \in Nat /\ disk[i].file <= file
    <3>1. disk \in Seq([file : Nat, frame : Nat, entry : Entries]) /\ file \in Nat
      BY DEF Typed, TypeOK
    <3>2. ASSUME NEW i \in 1 .. Len(disk) PROVE disk[i].file \in Nat
      <4>1. disk[i] \in [file : Nat, frame : Nat, entry : Entries]
        BY <3>1, ElementOfSeq
      <4> QED
        BY <4>1
    <3> QED
      BY <3>1, <3>2 DEF Numbered, Counted
  <2>2. FramesOf(file, Len(disk))' = {}
    BY <1>1, <2>1 DEF FramesOf
  <2>3. Counted'
    <3>1. \A i \in 1 .. Len(disk') : disk'[i].file <= file'
      BY <1>1, <2>1
    <3>2. frame' = Cardinality(FramesOf(file, Len(disk))')
      BY <1>1, <2>2, FS_EmptySet
    <3> QED
      BY <3>1, <3>2 DEF Counted
  <2>4. FramesDecodable'
    BY <1>1 DEF Numbered, FramesDecodable
  <2> QED
    BY <2>3, <2>4 DEF Numbered
<1>2. CASE spoilt' = spoilt \cup {file + 1} /\ UNCHANGED <<disk, file, frame>>
  BY <1>2, NumberedKept
<1> QED
  BY <1>1, <1>2 DEF WorkRotate

\* Every step keeps the numbers.
LEMMA NumberedStep == Typed /\ Numbered /\ [Next]_vars => Numbered'
<1> SUFFICES ASSUME Typed, Numbered, [Next]_vars PROVE Numbered'
  OBVIOUS
<1>1. ASSUME NEW e, WriteFails(e) PROVE Numbered'
  BY <1>1, NumberedKept DEF WriteFails
<1>2. CASE WorkHeader \/ WorkEvent
  BY <1>1, <1>2, NumberedWrite DEF WorkHeader, WorkEvent
<1>3. CASE WorkRotate
  BY <1>3, NumberedRotate
<1>4. CASE WorkClose
  BY <1>4, NumberedKept DEF WorkClose
<1>5. CASE UNCHANGED fileVars
  BY <1>5, NumberedKept DEF fileVars
<1> QED
  BY <1>2, <1>3, <1>4, <1>5
  DEF Next, CallStep, TimerStep, RotorStep, SendStep, Work, vars, Tee, TeeRefused, Chunk,
      TimerFires, TimerDrains, TimerCancelled, RotateHeard, RotateCall, RotateEnds,
      Send, SendFails, StopRecording, CloseCall

\* The reader, which counts the frames of a file from zero, finds each under
\* the index it was sealed with (record_frame_at), across rotations; a file
\* with a failed write is excepted.
THEOREM FramesNumbered == Spec => []FramesDecodable
<1>1. Init => Numbered
  <2>1. ASSUME Init PROVE FramesOf(file, Len(disk)) = {} /\ Len(disk) = 0
    BY <2>1 DEF Init, FramesOf
  <2>2. ASSUME Init PROVE Counted
    <3>1. frame = 0 /\ frame = Cardinality(FramesOf(file, Len(disk)))
      BY <2>1, <2>2, FS_EmptySet DEF Init
    <3>2. 1 .. Len(disk) = {}
      BY <2>1, <2>2
    <3> QED
      BY <3>1, <3>2 DEF Counted
  <2>3. ASSUME Init PROVE FramesDecodable
    BY <2>1, <2>3 DEF FramesDecodable
  <2> QED
    BY <2>2, <2>3 DEF Numbered
<1>2. Numbered => FramesDecodable
  BY DEF Numbered
<1> QED
  BY <1>1, <1>2, TypedInit, TypedStep, NumberedStep, PTL DEF Spec

-----------------------------------------------------------------------------
(* Rotations.                                                              *)

\* Where a sequence of entries holds a Rotate.
Rot(es) == {i \in 1 .. Len(es) : es[i].kind = "rotate"}

\* Only _rotate sends a Rotate, and it holds none before it has begun.
RotorShape ==
    /\ \A r \in Rotors : rotor[r] \in {"off", "begin"} => out[r] = <<>>
    /\ \A p \in Senders \ Rotors : Rot(out[p]) = {}

NoRequest == requests = 0
NoneBegun == \A r \in Rotors : rotor[r] # "begin"
NoneHeld  == \A r \in Rotors : Rot(out[r]) = {}
NoneSent  == Rot(chan) = {}

\* At most one rotation is under way, in one place only.
Single ==
    /\ requests <= 1
    /\ \A r, q \in Rotors : rotor[r] = "begin" /\ rotor[q] = "begin" => r = q
    /\ \A r, q \in Rotors : \A i \in Rot(out[r]), j \in Rot(out[q]) : r = q /\ i = j
    /\ \A i, j \in Rot(chan) : i = j
    /\ ~NoRequest => NoneBegun /\ NoneHeld /\ NoneSent
    /\ ~NoneBegun => NoneHeld /\ NoneSent
    /\ ~NoneHeld => NoneSent

\* Without the latch none is.
Latched == ~latch => NoRequest /\ NoneBegun /\ NoneHeld /\ NoneSent

Rotating == RotorShape /\ Single /\ Latched

\* Positions count from 1.
LEMMA RotPositive == \A es : \A i \in Rot(es) : i \in Nat /\ i # 0
BY DEF Rot

\* A drain hands out events only.
LEMMA PendingRot ==
    ASSUME NEW b
    PROVE  /\ Pending(b) \in Seq([kind : {"event"}, dir : Dirs, chunks : {b["Output"], b["Input"]}])
           /\ \A i \in 1 .. Len(Pending(b)) : Pending(b)[i].kind = "event"
<1> DEFINE S == [kind : {"event"}, dir : Dirs, chunks : {b["Output"], b["Input"]}]
<1>1. Event("Output", b["Output"]) \in S /\ Event("Input", b["Input"]) \in S
  BY DEF Event, Dirs
<1>2. \A e \in S : e.kind = "event"
  OBVIOUS
<1>3. Pending(b) \in Seq(S)
  <2> HIDE DEF S
  <2> QED
    BY <1>1 DEF Pending
<1>4. ASSUME NEW i \in 1 .. Len(Pending(b)) PROVE Pending(b)[i].kind = "event"
  <2> HIDE DEF S
  <2>1. Pending(b)[i] \in S
    BY <1>3, ElementOfSeq
  <2> QED
    BY <1>2, <2>1
<1> QED
  BY <1>3, <1>4

\* What follows the drained events decides whether a Rotate is among them.
LEMMA DrainRot ==
    ASSUME NEW b, NEW k
    PROVE  /\ Rot(Pending(b)) = {}
           /\ Rot(Pending(b) \o <<>>) = {}
           /\ k # "rotate" => Rot(Pending(b) \o <<Marker(k)>>) = {}
           /\ k = "rotate" => \A i, j \in Rot(Pending(b) \o <<Marker(k)>>) : i = j
<1> DEFINE P == Pending(b)  Q == Pending(b) \o <<Marker(k)>>
<1>1. \A i \in 1 .. Len(P) : P[i].kind = "event"
  BY PendingRot
<1>2. PICK S : P \in Seq(S)
  BY PendingRot
<1>3. /\ Len(P) \in Nat /\ Len(Q) = Len(P) + 1 /\ Q[Len(P) + 1] = Marker(k)
      /\ \A i \in 1 .. Len(P) : Q[i] = P[i]
  BY <1>2
<1>4. Marker(k).kind = k
  BY DEF Marker
<1>5. Rot(P) = {}
  BY <1>1 DEF Rot
<1>6. P \o <<>> = P
  BY <1>2
<1> HIDE DEF P, Q
<1>7. \A i \in 1 .. Len(Q) : i = Len(P) + 1 \/ Q[i].kind = "event"
  BY <1>1, <1>3
<1>8. k # "rotate" => Rot(Q) = {}
  BY <1>3, <1>4, <1>7 DEF Rot
<1>9. \A i, j \in Rot(Q) : i = j
  BY <1>7 DEF Rot
<1> QED
  BY <1>5, <1>6, <1>8, <1>9 DEF P, Q

\* The Rotates of a sequence after its head is gone ...
LEMMA TailRot ==
    ASSUME NEW es \in Seq(Entries), es # <<>>
    PROVE  /\ \A i \in Rot(Tail(es)) : i + 1 \in Rot(es) /\ i \in Nat
           /\ 1 \in Rot(es) <=> Head(es).kind = "rotate"
<1>1. /\ Len(es) \in Nat \ {0} /\ Len(Tail(es)) = Len(es) - 1 /\ Head(es) = es[1]
      /\ \A i \in 1 .. Len(Tail(es)) : Tail(es)[i] = es[i + 1]
  BY HeadTailProperties
<1> QED
  BY <1>1 DEF Rot

\* ... and after one is added.
LEMMA AppendRot ==
    ASSUME NEW es \in Seq(Entries), NEW e \in Entries
    PROVE  /\ e.kind # "rotate" => Rot(Append(es, e)) = Rot(es)
           /\ e.kind = "rotate" => Rot(Append(es, e)) = Rot(es) \cup {Len(es) + 1}
<1>1. /\ Len(es) \in Nat /\ Len(Append(es, e)) = Len(es) + 1
      /\ Append(es, e)[Len(es) + 1] = e
      /\ \A i \in 1 .. Len(es) : Append(es, e)[i] = es[i]
  BY AppendProperties
<1> QED
  BY <1>1 DEF Rot

\* Steps that send, hold and ask for no Rotate keep the invariant.
LEMMA RotatingKept ==
    ASSUME Rotating, UNCHANGED <<requests, rotor, latch, out, chan>>
    PROVE  Rotating'
BY DEF Rotating, RotorShape, Single, Latched, NoRequest, NoneBegun, NoneHeld, NoneSent, Rot

\* A sender that is no rotation takes on entries without a Rotate.
LEMMA RotatingOut ==
    ASSUME Typed, Rotating, UNCHANGED <<requests, rotor, latch, chan>>,
           NEW p \in Senders \ Rotors, NEW es, Rot(es) = {}, out' = [out EXCEPT ![p] = es]
    PROVE  Rotating'
<1>1. /\ out \in [Senders -> Seq(Entries)] /\ Rotors \subseteq Senders
      /\ \A r \in Rotors : out'[r] = out[r]
      /\ \A q \in Senders : out'[q] = IF q = p THEN es ELSE out[q]
  BY DEF Typed, TypeOK, Senders
<1>2. RotorShape'
  BY <1>1 DEF Rotating, RotorShape
<1>3. /\ (NoRequest' <=> NoRequest) /\ (NoneBegun' <=> NoneBegun) /\ (NoneHeld' <=> NoneHeld)
      /\ (NoneSent' <=> NoneSent)
  BY <1>1 DEF NoRequest, NoneBegun, NoneHeld, NoneSent, Rot
<1>4. Single'
  <2>1. \A r, q \in Rotors : \A i \in Rot(out'[r]), j \in Rot(out'[q]) : r = q /\ i = j
    <3>1. ASSUME NEW r \in Rotors, NEW q \in Rotors, NEW i \in Rot(out'[r]), NEW j \in Rot(out'[q])
          PROVE  r = q /\ i = j
      <4>1. i \in Rot(out[r]) /\ j \in Rot(out[q])
        BY <1>1
      <4> QED
        BY <4>1 DEF Rotating, Single
    <3> QED
      BY <3>1
  <2>2. (\A i, j \in Rot(chan') : i = j) /\ requests' <= 1
    BY DEF Rotating, Single
  <2>3. \A r, q \in Rotors : rotor'[r] = "begin" /\ rotor'[q] = "begin" => r = q
    BY DEF Rotating, Single
  <2> QED
    BY <1>3, <2>1, <2>2, <2>3 DEF Rotating, Single
<1>5. Latched'
  BY <1>3 DEF Rotating, Latched
<1> QED
  BY <1>2, <1>4, <1>5 DEF Rotating

\* The request becomes a rotation, or is ignored by a closed recorder.
LEMMA RotatingHeard ==
    ASSUME Typed, Rotating, NEW r \in Rotors, RotateHeard(r)
    PROVE  Rotating'
<1>1. /\ requests \in Nat /\ requests = 1 /\ requests' = 0 /\ latch
      /\ NoneBegun /\ NoneHeld /\ NoneSent /\ rotor[r] = "off"
  BY DEF RotateHeard, Typed, TypeOK, Rotating, Single, Latched, NoRequest
<1>2. /\ rotor \in [Rotors -> {"off", "begin", "rotate", "header"}]
      /\ rotor' \in {rotor, [rotor EXCEPT ![r] = "begin"]} /\ UNCHANGED <<out, chan, latch>>
  BY DEF RotateHeard, bufVars, Typed, TypeOK
<1>3. RotorShape'
  BY <1>1, <1>2 DEF Rotating, RotorShape
<1>4. NoRequest' /\ NoneHeld' /\ NoneSent'
  BY <1>1, <1>2 DEF NoRequest, NoneHeld, NoneSent
<1>5. \A p, q \in Rotors : rotor'[p] = "begin" /\ rotor'[q] = "begin" => p = q
  BY <1>1, <1>2 DEF NoneBegun
<1>6. Single'
  BY <1>1, <1>4, <1>5 DEF Single, NoneHeld, NoneSent, NoRequest
<1> QED
  BY <1>1, <1>2, <1>3, <1>6 DEF Rotating, Latched

\* _rotate hands its Rotate to the mailbox, and later its Header.
LEMMA RotatingCall ==
    ASSUME Typed, Rotating, NEW r \in Rotors, RotateCall(r)
    PROVE  Rotating'
<1>0. /\ out \in [Senders -> Seq(Entries)] /\ r \in Senders /\ Rotors \subseteq Senders
      /\ rotor \in [Rotors -> {"off", "begin", "rotate", "header"}]
      /\ UNCHANGED <<requests, latch, chan>>
  BY DEF Typed, TypeOK, Senders, RotateCall
<1>1. CASE /\ rotor[r] = "begin" /\ rotor' = [rotor EXCEPT ![r] = "rotate"]
           /\ Drain(r, buf, <<Marker("rotate")>>)
  <2>1. /\ requests <= 1 /\ NoRequest /\ NoneHeld /\ NoneSent /\ latch
        /\ \A q \in Rotors : rotor[q] = "begin" => q = r
    BY <1>1 DEF Rotating, Single, Latched, NoneBegun
  <2>2. PICK es : out' = [out EXCEPT ![r] = es] /\ \A i, j \in Rot(es) : i = j
    BY <1>1, DrainRot DEF Drain
  <2>3. \A q \in Senders : out'[q] = IF q = r THEN es ELSE out[q]
    BY <1>0, <2>2
  <2>4. RotorShape'
    BY <1>0, <1>1, <2>3 DEF Rotating, RotorShape
  <2>5. NoRequest' /\ NoneBegun' /\ NoneSent'
    BY <1>0, <1>1, <2>1 DEF NoRequest, NoneBegun, NoneSent
  <2>6. \A p, q \in Rotors : \A i \in Rot(out'[p]), j \in Rot(out'[q]) : p = q /\ i = j
    BY <1>0, <2>1, <2>2, <2>3 DEF NoneHeld
  <2>7. Single'
    BY <1>0, <2>1, <2>5, <2>6 DEF Single, NoneBegun, NoneSent, NoRequest
  <2> QED
    BY <1>0, <2>1, <2>4, <2>7 DEF Rotating, Latched
<1>2. CASE /\ rotor[r] = "rotate" /\ out[r] = <<>> /\ rotor' = [rotor EXCEPT ![r] = "header"]
           /\ Drain(r, buf, <<Marker("header")>>)
  <2>1. PICK es : out' = [out EXCEPT ![r] = es] /\ Rot(es) = {}
    BY <1>2, DrainRot DEF Drain
  <2>2. \A q \in Senders : out'[q] = IF q = r THEN es ELSE out[q]
    BY <1>0, <2>1
  <2>3. Rot(out[r]) = {}
    BY <1>2 DEF Rot
  <2>4. \A q \in Senders : Rot(out'[q]) = Rot(out[q])
    BY <2>1, <2>2, <2>3
  <2>5. \A q \in Rotors : rotor'[q] \in {"off", "begin"} <=> rotor[q] \in {"off", "begin"}
    BY <1>0, <1>2
  <2>9. \A q \in Rotors : rotor'[q] = "begin" <=> rotor[q] = "begin"
    BY <1>0, <1>2
  <2>6. RotorShape'
    BY <1>0, <1>2, <2>2, <2>4, <2>5 DEF Rotating, RotorShape
  <2>7. /\ (NoRequest' <=> NoRequest) /\ (NoneBegun' <=> NoneBegun) /\ (NoneHeld' <=> NoneHeld)
        /\ (NoneSent' <=> NoneSent)
    BY <1>0, <2>4, <2>9 DEF NoRequest, NoneBegun, NoneHeld, NoneSent
  <2>8. Single'
    <3>1. \A p, q \in Rotors : \A i \in Rot(out'[p]), j \in Rot(out'[q]) : p = q /\ i = j
      <4>1. ASSUME NEW p \in Rotors, NEW q \in Rotors, NEW i \in Rot(out'[p]), NEW j \in Rot(out'[q])
            PROVE  p = q /\ i = j
        <5>1. i \in Rot(out[p]) /\ j \in Rot(out[q])
          BY <1>0, <2>4
        <5> QED
          BY <5>1 DEF Rotating, Single
      <4> QED
        BY <4>1
    <3>2. (\A i, j \in Rot(chan') : i = j) /\ requests' <= 1
      BY <1>0 DEF Rotating, Single
    <3>3. \A p, q \in Rotors : rotor'[p] = "begin" /\ rotor'[q] = "begin" => p = q
      BY <2>9 DEF Rotating, Single
    <3> QED
      BY <2>7, <3>1, <3>2, <3>3 DEF Rotating, Single
  <2>10. Latched'
    BY <1>0, <2>7 DEF Rotating, Latched
  <2> QED
    BY <2>6, <2>8, <2>10 DEF Rotating
<1> QED
  BY <1>1, <1>2 DEF RotateCall

\* A rotation that ends leaves nothing to send.
LEMMA RotatingEnds ==
    ASSUME Typed, Rotating, NEW r \in Rotors, out[r] = <<>> \/ out' = [out EXCEPT ![r] = <<>>],
           out[r] # <<>> \/ UNCHANGED out, rotor' = [rotor EXCEPT ![r] = "off"],
           UNCHANGED <<requests, latch, chan>>
    PROVE  Rotating'
<1>0. /\ out \in [Senders -> Seq(Entries)] /\ r \in Senders /\ Rotors \subseteq Senders
      /\ rotor \in [Rotors -> {"off", "begin", "rotate", "header"}]
  BY DEF Typed, TypeOK, Senders
<1>1. \A q \in Senders : out'[q] = IF q = r THEN <<>> ELSE out[q]
  BY <1>0
<1>2. Rot(<<>>) = {}
  BY DEF Rot
<1>3. RotorShape'
  BY <1>0, <1>1 DEF Rotating, RotorShape
<1>4. /\ (NoRequest' <=> NoRequest) /\ (NoneSent' <=> NoneSent)
      /\ NoneBegun => NoneBegun'
      /\ NoneHeld => NoneHeld'
  BY <1>0, <1>1, <1>2 DEF NoRequest, NoneBegun, NoneHeld, NoneSent
<1>5. \A p, q \in Rotors : \A i \in Rot(out'[p]), j \in Rot(out'[q]) : p = q /\ i = j
  BY <1>0, <1>1, <1>2 DEF Rotating, Single
<1>6. \A p, q \in Rotors : rotor'[p] = "begin" /\ rotor'[q] = "begin" => p = q
  BY <1>0 DEF Rotating, Single
<1>7. Single'
  <2>1. (~NoneBegun' => ~NoneBegun) /\ (~NoneHeld' => ~NoneHeld)
    BY <1>4
  <2> QED
    BY <1>4, <1>5, <1>6, <2>1 DEF Rotating, Single
<1>8. Latched'
  BY <1>4 DEF Rotating, Latched
<1> QED
  BY <1>3, <1>7, <1>8 DEF Rotating

\* The head of what a sender holds goes to the mailbox.
LEMMA RotatingSend ==
    ASSUME Typed, Rotating, NEW p \in Senders, Send(p)
    PROVE  Rotating'
<1>0. /\ out \in [Senders -> Seq(Entries)] /\ Rotors \subseteq Senders /\ out[p] \in Seq(Entries)
      /\ out[p] # <<>> /\ UNCHANGED <<requests, latch, rotor>> /\ chan \in Seq(Entries)
      /\ chan' = Append(chan, Head(out[p])) /\ Head(out[p]) \in Entries
  BY DEF Typed, TypeOK, Senders, Send, dartVars
<1>1. \A q \in Senders : out'[q] = IF q = p THEN Tail(out[p]) ELSE out[q]
  BY <1>0 DEF Send
<1>2. /\ \A i \in Rot(Tail(out[p])) : i + 1 \in Rot(out[p]) /\ i \in Nat
      /\ 1 \in Rot(out[p]) <=> Head(out[p]).kind = "rotate"
  BY <1>0, TailRot
<1>3. RotorShape'
  <2>1. \A r \in Rotors : rotor'[r] \in {"off", "begin"} => out'[r] = <<>>
    BY <1>0, <1>1 DEF Rotating, RotorShape
  <2>2. \A q \in Senders \ Rotors : Rot(out'[q]) = {}
    BY <1>1, <1>2 DEF Rotating, RotorShape
  <2> QED
    BY <2>1, <2>2 DEF RotorShape
<1>4. /\ NoRequest' <=> NoRequest
      /\ NoneBegun' <=> NoneBegun
      /\ NoneHeld => NoneHeld'
  BY <1>0, <1>1, <1>2 DEF NoRequest, NoneBegun, NoneHeld
<1>5. /\ requests' <= 1
      /\ \A r, q \in Rotors : rotor'[r] = "begin" /\ rotor'[q] = "begin" => r = q
  BY <1>0 DEF Rotating, Single
<1>6. ASSUME NEW r \in Rotors, NEW q \in Rotors, NEW i \in Rot(out'[r]), NEW j \in Rot(out'[q])
      PROVE  r = q /\ i = j
  <2> DEFINE up(x, k) == IF x = p THEN k + 1 ELSE k
  <2>1. up(r, i) \in Rot(out[r]) /\ up(q, j) \in Rot(out[q]) /\ i \in Nat /\ j \in Nat
    BY <1>0, <1>1, <1>2, RotPositive
  <2>2. r = q /\ up(r, i) = up(q, j)
    BY <2>1 DEF Rotating, Single
  <2> QED
    BY <2>1, <2>2
<1>7. CASE Head(out[p]).kind # "rotate"
  <2>1. Rot(chan') = Rot(chan)
    BY <1>0, <1>7, AppendRot
  <2>2. NoneSent' <=> NoneSent
    BY <2>1 DEF NoneSent
  <2>3. \A i, j \in Rot(chan') : i = j
    BY <2>1 DEF Rotating, Single
  <2>4. Single'
    BY <1>4, <1>5, <1>6, <2>2, <2>3 DEF Rotating, Single
  <2> QED
    BY <1>0, <1>3, <1>4, <2>2, <2>4 DEF Rotating, Latched
<1>8. CASE Head(out[p]).kind = "rotate"
  <2>1. p \in Rotors /\ 1 \in Rot(out[p])
    BY <1>2, <1>8 DEF Rotating, RotorShape
  <2>2. ~NoneHeld
    BY <2>1 DEF NoneHeld
  <2>3. NoneSent /\ NoRequest /\ NoneBegun /\ latch
    BY <2>2 DEF Rotating, Single, Latched
  <2>4. Rot(chan') = {Len(chan) + 1}
    BY <1>0, <1>8, <2>3, AppendRot DEF NoneSent
  <2>5. NoneHeld'
    <3>1. ASSUME NEW r \in Rotors, NEW i \in Rot(out'[r]) PROVE FALSE
      <4>1. CASE r = p
        <5>1. i + 1 \in Rot(out[p]) /\ i \in Nat /\ i # 0
          BY <1>0, <1>1, <1>2, <4>1, RotPositive
        <5>2. i + 1 = 1
          BY <5>1, <2>1 DEF Rotating, Single
        <5> QED
          BY <5>1, <5>2
      <4>2. CASE r # p
        <5>1. i \in Rot(out[r])
          BY <1>0, <1>1, <4>2
        <5> QED
          BY <5>1, <2>1, <4>2 DEF Rotating, Single
      <4> QED
        BY <4>1, <4>2
    <3> QED
      BY <3>1 DEF NoneHeld
  <2>6. \A i, j \in Rot(chan') : i = j
    BY <2>4
  <2>7. Single'
    BY <1>4, <1>5, <1>6, <2>3, <2>5, <2>6 DEF Single
  <2> QED
    BY <1>0, <1>3, <2>3, <2>7 DEF Rotating, Latched
<1> QED
  BY <1>7, <1>8

\* The worker takes an entry that is no Rotate.
LEMMA RotatingTake ==
    ASSUME Typed, Rotating, ~sealed, chan # <<>>, Head(chan).kind # "rotate",
           chan' = Tail(chan) \/ chan' = <<>>, UNCHANGED <<out, rotor>>,
           \/ UNCHANGED <<latch, requests>>
           \/ latch /\ latch' /\ UNCHANGED requests
           \/ ~latch /\ latch' /\ requests' = requests + 1
    PROVE  Rotating'
<1>0. chan \in Seq(Entries) /\ requests \in Nat
  BY DEF Typed, TypeOK
<1>1. /\ \A i \in Rot(chan') : i + 1 \in Rot(chan) /\ i \in Nat
      /\ NoneSent => NoneSent'
  <2>1. Rot(<<>>) = {}
    BY DEF Rot
  <2> QED
    BY <1>0, <2>1, TailRot DEF NoneSent
<1>2. \A i, j \in Rot(chan') : i = j
  BY <1>1 DEF Rotating, Single
<1>3. RotorShape' /\ (NoneBegun' <=> NoneBegun) /\ (NoneHeld' <=> NoneHeld)
  BY DEF Rotating, RotorShape, NoneBegun, NoneHeld, Rot
<1>4. /\ \A r, q \in Rotors : rotor'[r] = "begin" /\ rotor'[q] = "begin" => r = q
      /\ \A r, q \in Rotors : \A i \in Rot(out'[r]), j \in Rot(out'[q]) : r = q /\ i = j
  BY DEF Rotating, Single
<1>5. CASE UNCHANGED requests /\ (latch' <=> latch)
  <2>1. NoRequest' <=> NoRequest
    BY <1>5 DEF NoRequest
  <2>2. Single'
    BY <1>1, <1>2, <1>3, <1>4, <1>5, <2>1 DEF Rotating, Single
  <2> QED
    BY <1>1, <1>3, <1>5, <2>1, <2>2 DEF Rotating, Latched
<1>6. CASE ~latch /\ latch' /\ requests' = requests + 1
  <2>1. NoRequest /\ NoneBegun /\ NoneHeld /\ NoneSent
    BY <1>6 DEF Rotating, Latched
  <2>2. requests' = 1
    BY <1>6, <2>1 DEF NoRequest
  <2>3. Single'
    BY <1>1, <1>2, <1>3, <1>4, <2>1, <2>2 DEF Single
  <2> QED
    BY <1>3, <1>6, <2>3 DEF Rotating, Latched
<1> QED
  BY <1>5, <1>6

\* The worker rotates: the one rotation is done.
LEMMA RotatingDone ==
    ASSUME Typed, Rotating, WorkRotate
    PROVE  Rotating'
<1>0. /\ chan \in Seq(Entries) /\ chan # <<>> /\ Head(chan).kind = "rotate" /\ chan' = Tail(chan)
      /\ UNCHANGED <<out, rotor, requests>>
  BY DEF Typed, TypeOK, WorkRotate, Receive, dartVars
<1>1. 1 \in Rot(chan) /\ \A i \in Rot(chan') : i + 1 \in Rot(chan) /\ i \in Nat \ {0}
  <2>1. \A i \in Rot(chan') : i # 0
    BY DEF Rot
  <2> QED
    BY <1>0, <2>1, TailRot
<1>2. NoneSent'
  <2>1. ASSUME NEW i \in Rot(chan') PROVE FALSE
    <3>1. i + 1 = 1 /\ i \in Nat \ {0}
      BY <1>1 DEF Rotating, Single
    <3> QED
      BY <3>1
  <2> QED
    BY <2>1 DEF NoneSent
<1>3. NoRequest /\ NoneBegun /\ NoneHeld
  BY <1>1 DEF Rotating, Single, NoneSent
<1>4. NoRequest' /\ NoneBegun' /\ NoneHeld' /\ RotorShape'
  BY <1>0, <1>3 DEF NoRequest, NoneBegun, NoneHeld, Rotating, RotorShape, Rot
<1>5. Single'
  BY <1>2, <1>4 DEF Single, NoRequest, NoneBegun, NoneHeld, NoneSent
<1> QED
  BY <1>2, <1>4, <1>5 DEF Rotating, Latched

\* Every step keeps at most one rotation under way.
LEMMA RotatingStep == Typed /\ Rotating /\ [Next]_vars => Rotating'
<1> SUFFICES ASSUME Typed, Rotating, [Next]_vars PROVE Rotating'
  OBVIOUS
<1>0. /\ Callers \subseteq Senders \ Rotors /\ Timers \subseteq Senders \ Rotors
      /\ "close" \in Senders \ Rotors /\ Rotors \subseteq Senders
      /\ Rot(<<>>) = {}
  BY RecorderAssumption DEF Senders, Rot
<1>1. ASSUME NEW c \in Callers, Tee(c) \/ TeeRefused(c) PROVE Rotating'
  BY <1>1, RotatingKept DEF Tee, TeeRefused, dartVars
<1>2. ASSUME NEW c \in Callers, Chunk(c) PROVE Rotating'
  <2>1. UNCHANGED <<requests, rotor, latch, chan>>
    BY <1>2 DEF Chunk, dartVars
  <2>2. CASE Buffer(c)
    BY <2>1, <2>2, RotatingKept DEF Buffer
  <2>3. CASE Overrun(c)
    <3>1. PICK es : Rot(es) = {} /\ out' = [out EXCEPT ![c] = es]
      BY <2>3, DrainRot DEF Overrun, Drain
    <3> QED
      BY <1>0, <2>1, <3>1, RotatingOut
  <2> QED
    BY <1>2, <2>2, <2>3 DEF Chunk
<1>3. ASSUME NEW t \in Timers, TimerStep(t) PROVE Rotating'
  <2>1. UNCHANGED <<requests, rotor, latch, chan>>
    BY <1>3 DEF TimerStep, TimerFires, TimerDrains, TimerCancelled, dartVars
  <2>2. CASE UNCHANGED out
    BY <2>1, <2>2, RotatingKept
  <2>3. CASE out' = [out EXCEPT ![t] = Pending(buf)]
    <3>1. Rot(Pending(buf)) = {}
      BY DrainRot
    <3> QED
      BY <1>0, <2>1, <2>3, <3>1, RotatingOut
  <2>4. CASE out' = [out EXCEPT ![t] = <<>>]
    BY <1>0, <2>1, <2>4, RotatingOut
  <2> QED
    BY <1>3, <2>2, <2>3, <2>4 DEF TimerStep, TimerFires, TimerDrains, TimerCancelled
<1>4. ASSUME NEW r \in Rotors, RotorStep(r) PROVE Rotating'
  <2>1. CASE RotateEnds(r)
    BY <2>1, RotatingEnds DEF RotateEnds, bufVars
  <2> QED
    BY <1>4, <2>1, RotatingHeard, RotatingCall DEF RotorStep
<1>5. ASSUME NEW p \in Senders, SendFails(p) PROVE Rotating'
  <2>1. UNCHANGED <<requests, latch, chan>> /\ out' = [out EXCEPT ![p] = <<>>] /\ out[p] # <<>>
    BY <1>5 DEF SendFails
  <2>2. CASE p \in Rotors
    BY <1>5, <2>1, <2>2, RotatingEnds DEF SendFails
  <2>3. CASE p \notin Rotors
    BY <1>0, <1>5, <2>1, <2>3, RotatingOut DEF SendFails
  <2> QED
    BY <2>2, <2>3
<1>6. CASE StopRecording
  BY <1>6, RotatingKept DEF StopRecording
<1>7. CASE CloseCall
  <2>1. PICK es : Rot(es) = {} /\ out' = [out EXCEPT !["close"] = es]
    BY <1>7, DrainRot DEF CloseCall, Drain
  <2> QED
    BY <1>0, <1>7, <2>1, RotatingOut DEF CloseCall
<1>8. CASE WorkHeader
  BY <1>8, RotatingTake DEF WorkHeader, Receive, dartVars
<1>9. CASE WorkEvent
  <2>1. /\ ~sealed /\ chan # <<>> /\ Head(chan).kind # "rotate" /\ chan' = Tail(chan)
        /\ UNCHANGED <<out, rotor>>
    BY <1>9 DEF WorkEvent, Receive
  <2>2. latch \in BOOLEAN
    BY DEF Typed, TypeOK
  <2>3. CASE UNCHANGED <<latch, requests>>
    BY <2>1, <2>3, RotatingTake
  <2>4. CASE /\ latch' = (latch \/ size' > MaxSize)
             /\ requests' = IF ~latch /\ size' > MaxSize THEN requests + 1 ELSE requests
    <3>1. \/ UNCHANGED <<latch, requests>>
          \/ latch /\ latch' /\ UNCHANGED requests
          \/ ~latch /\ latch' /\ requests' = requests + 1
      BY <2>2, <2>4
    <3> QED
      BY <2>1, <3>1, RotatingTake
  <2> QED
    BY <1>9, <2>3, <2>4 DEF WorkEvent
<1>10. CASE WorkClose
  BY <1>10, RotatingTake DEF WorkClose, dartVars
<1>11. CASE UNCHANGED vars
  BY <1>11, RotatingKept DEF vars, dartVars
<1> QED
  BY <1>1, <1>2, <1>3, <1>4, <1>5, <1>6, <1>7, <1>8, <1>9, <1>10, <1>11,
     RotatingSend, RotatingDone
  DEF Next, CallStep, SendStep, Work

\* No rotation is under way at first.
LEMMA RotatingInit == Init => Rotating
<1> SUFFICES ASSUME Init PROVE Rotating
  OBVIOUS
<1>1. Rot(<<>>) = {} /\ Rot(<<Marker("header")>>) = {}
  BY DEF Rot, Marker
<1>2. /\ requests = 0 /\ chan = <<Marker("header")>>
      /\ \A p \in Senders : out[p] = <<>>
      /\ \A r \in Rotors : rotor[r] = "off" /\ r \in Senders
  BY DEF Init, Senders
<1>3. NoRequest /\ NoneBegun /\ NoneHeld /\ NoneSent /\ RotorShape
  BY <1>1, <1>2 DEF NoRequest, NoneBegun, NoneHeld, NoneSent, RotorShape
<1>4. Single
  BY <1>3 DEF Single, NoRequest, NoneBegun, NoneHeld, NoneSent
<1> QED
  BY <1>3, <1>4 DEF Rotating, Latched

\* A set whose elements are all equal has at most one.
LEMMA AtMostOne ==
    ASSUME NEW S, \A x, y \in S : x = y
    PROVE  /\ Cardinality(S) \in {0, 1}
           /\ S = {} => Cardinality(S) = 0
<1>1. CASE S = {}
  BY <1>1, FS_EmptySet
<1>2. ASSUME NEW x \in S PROVE Cardinality(S) = 1
  <2>1. S = {x}
    OBVIOUS
  <2> QED
    BY <2>1, FS_Singleton
<1> QED
  BY <1>1, <1>2, FS_EmptySet

\* rotate_requested allows one rotation at a time, whatever the order of the
\* events, the enqueued markers and the worker.
THEOREM RotatesOnce == Spec => []OneRotation
<1>1. ASSUME Typed, Rotating PROVE OneRotation
  <2> DEFINE B == {r \in Rotors : rotor[r] = "begin"}
             H == {p \in Rotors : \E i \in 1 .. Len(out[p]) : out[p][i].kind = "rotate"}
             C == {i \in 1 .. Len(chan) : chan[i].kind = "rotate"}
  <2>1. C = Rot(chan) /\ H = {p \in Rotors : Rot(out[p]) # {}}
    BY DEF Rot
  <2>2. requests \in Nat /\ requests <= 1
    BY <1>1 DEF Typed, TypeOK, Rotating, Single
  <2>3. \A x, y \in B : x = y
    BY <1>1 DEF Rotating, Single
  <2>4. \A x, y \in C : x = y
    BY <1>1, <2>1 DEF Rotating, Single
  <2>5. \A x, y \in H : x = y
    BY <1>1, <2>1 DEF Rotating, Single
  <2>6. /\ requests # 0 => B = {} /\ H = {} /\ C = {}
        /\ B # {} => H = {} /\ C = {}
        /\ H # {} => C = {}
    BY <1>1, <2>1 DEF Rotating, Single, NoRequest, NoneBegun, NoneHeld, NoneSent
  <2> HIDE DEF B, H, C
  <2>7. /\ Cardinality(B) \in {0, 1} /\ Cardinality(H) \in {0, 1} /\ Cardinality(C) \in {0, 1}
        /\ B = {} => Cardinality(B) = 0
        /\ H = {} => Cardinality(H) = 0
        /\ C = {} => Cardinality(C) = 0
    BY <2>3, <2>4, <2>5, AtMostOne
  <2>8. requests + Cardinality(B) + Cardinality(H) + Cardinality(C) <= 1
    <3>0. requests = 0 \/ requests = 1
      BY <2>2
    <3>1. CASE requests # 0
      BY <3>0, <3>1, <2>6, <2>7
    <3>2. CASE requests = 0 /\ B # {}
      BY <3>2, <2>6, <2>7
    <3>3. CASE requests = 0 /\ B = {} /\ H # {}
      BY <3>3, <2>6, <2>7
    <3>4. CASE requests = 0 /\ B = {} /\ H = {}
      BY <3>4, <2>7
    <3> QED
      BY <3>1, <3>2, <3>3, <3>4
  <2> QED
    BY <2>8 DEF OneRotation, B, H, C
<1> QED
  BY <1>1, TypedInit, TypedStep, RotatingInit, RotatingStep, PTL DEF Spec

=============================================================================
