----------------------- MODULE RecorderLedgerProofs -----------------------
(***************************************************************************)
(* The ledger of RecorderQueue: a chunk that entered the buffers is in     *)
(* exactly one place until it is written or given up, and a close nobody   *)
(* crosses writes all that is left.                                        *)
(*                                                                         *)
(* The places are five sets of chunks that split 1 .. next - 1.  A chunk   *)
(* only ever moves from one set to the next: from the buffers to the       *)
(* sender that drained them, to the mailbox, to the file.                  *)
(***************************************************************************)
EXTENDS RecorderQueueProofs

-----------------------------------------------------------------------------
(* The places.                                                             *)

\* The chunks of a buffer, and of an entry.
Elems(cs) == {cs[j] : j \in 1 .. Len(cs)}
Inside(e) == Elems(e.chunks)

Buffered == UNION {Elems(buf[d]) : d \in Dirs}
Held     == UNION {ChunksOf(out[p]) : p \in Senders}
Mailed   == ChunksOf(chan)
Kept     == UNION {Inside(disk[i].entry) : i \in 1 .. Len(disk)}

\* No chunk is in two entries of the sequence.
Apart(es) == \A i, j \in 1 .. Len(es) : i # j => Inside(es[i]) \cap Inside(es[j]) = {}

\* Nor in two places of the same kind ...
Distinct ==
    /\ Elems(buf["Output"]) \cap Elems(buf["Input"]) = {}
    /\ \A p \in Senders : Apart(out[p])
    /\ \A p, q \in Senders : p # q => ChunksOf(out[p]) \cap ChunksOf(out[q]) = {}
    /\ Apart(chan)
    /\ \A i, j \in 1 .. Len(disk) :
          i # j => Inside(disk[i].entry) \cap Inside(disk[j].entry) = {}

\* ... or of two kinds, and every chunk so far is somewhere.
Split(a, b, c, d, e, all) ==
    /\ a \cap b = {} /\ a \cap c = {} /\ a \cap d = {} /\ a \cap e = {}
    /\ b \cap c = {} /\ b \cap d = {} /\ b \cap e = {}
    /\ c \cap d = {} /\ c \cap e = {} /\ d \cap e = {}
    /\ a \cup b \cup c \cup d \cup e = all

Ledger == Distinct /\ Split(Buffered, Held, Mailed, Kept, lost, 1 .. next - 1)

\* Who drains has nothing left from before.
Idle ==
    /\ \A c \in Callers : call[c] = "cloned" => out[c] = <<>>
    /\ closer # "sent" => out["close"] = <<>>

-----------------------------------------------------------------------------
(* Sequences of entries.                                                   *)

\* The chunks of a sequence are those of its entries.
LEMMA ChunksUnion ==
    ASSUME NEW es
    PROVE  ChunksOf(es) = UNION {Inside(es[i]) : i \in 1 .. Len(es)}
BY DEF ChunksOf, Inside, Elems

\* One entry on its own.
LEMMA ChunksOne ==
    ASSUME NEW e
    PROVE  ChunksOf(<<e>>) = Inside(e)
<1>1. Len(<<e>>) = 1 /\ <<e>>[1] = e
  OBVIOUS
<1>2. ChunksOf(<<e>>) = UNION {Inside(<<e>>[i]) : i \in 1 .. 1}
  BY <1>1, ChunksUnion
<1>3. \A i : i \in 1 .. 1 <=> i = 1
  OBVIOUS
<1> QED
  BY <1>1, <1>2, <1>3

\* No entry at all.
LEMMA ChunksNone == ChunksOf(<<>>) = {} /\ Apart(<<>>) /\ Elems(<<>>) = {}
BY DEF ChunksOf, Apart, Elems

\* A marker carries no chunk.
LEMMA MarkerEmpty ==
    ASSUME NEW e \in Entries, e.kind # "event"
    PROVE  Inside(e) = {}
<1>1. e.chunks = <<>>
  BY DEF Entries, Marker
<1> QED
  BY <1>1 DEF Inside, Elems

\* The head of a sequence and the rest of it.
LEMMA TailLedger ==
    ASSUME NEW es \in Seq(Entries), es # <<>>, Apart(es)
    PROVE  /\ Apart(Tail(es))
           /\ ChunksOf(es) = Inside(Head(es)) \cup ChunksOf(Tail(es))
           /\ Inside(Head(es)) \cap ChunksOf(Tail(es)) = {}
<1> DEFINE n == Len(es)  t == Tail(es)
<1>1. /\ n \in Nat \ {0} /\ Len(t) = n - 1 /\ Head(es) = es[1]
      /\ \A i \in 1 .. n - 1 : t[i] = es[i + 1]
  BY HeadTailProperties
<1>2. /\ ChunksOf(es) = UNION {Inside(es[i]) : i \in 1 .. n}
      /\ ChunksOf(t) = UNION {Inside(t[i]) : i \in 1 .. Len(t)}
  BY ChunksUnion
<1>3. \A i, j \in 1 .. n : i # j => Inside(es[i]) \cap Inside(es[j]) = {}
  BY DEF Apart
<1> HIDE DEF n, t
<1>4. Apart(t)
  <2>1. ASSUME NEW i \in 1 .. Len(t), NEW j \in 1 .. Len(t), i # j
        PROVE  Inside(t[i]) \cap Inside(t[j]) = {}
    <3>1. i + 1 \in 1 .. n /\ j + 1 \in 1 .. n /\ i + 1 # j + 1 /\ t[i] = es[i + 1] /\ t[j] = es[j + 1]
      BY <1>1, <2>1
    <3> QED
      BY <1>3, <3>1
  <2> QED
    BY <2>1 DEF Apart
<1>5. ChunksOf(t) = UNION {Inside(es[i]) : i \in 2 .. n}
  <2>1. \A c : c \in ChunksOf(t) <=> \E i \in 1 .. n - 1 : c \in Inside(es[i + 1])
    BY <1>1, <1>2
  <2>2. \A c : (\E i \in 1 .. n - 1 : c \in Inside(es[i + 1])) <=> \E i \in 2 .. n : c \in Inside(es[i])
    <3>1. \A i \in 2 .. n : i - 1 \in 1 .. n - 1 /\ (i - 1) + 1 = i
      BY <1>1
    <3>2. \A i \in 1 .. n - 1 : i + 1 \in 2 .. n
      BY <1>1
    <3> QED
      BY <3>1, <3>2
  <2> QED
    BY <2>1, <2>2
<1>6. ChunksOf(es) = Inside(es[1]) \cup ChunksOf(t)
  <2>1. 1 \in 1 .. n /\ \A i \in 1 .. n : i = 1 \/ i \in 2 .. n
    BY <1>1
  <2>2. \A i \in 2 .. n : i \in 1 .. n
    BY <1>1
  <2> QED
    BY <1>2, <1>5, <2>1, <2>2
<1>7. Inside(es[1]) \cap ChunksOf(t) = {}
  <2>1. \A i \in 2 .. n : i \in 1 .. n /\ 1 \in 1 .. n /\ i # 1
    BY <1>1
  <2> QED
    BY <1>3, <1>5, <2>1
<1> QED
  BY <1>1, <1>4, <1>6, <1>7 DEF t

\* An entry is added at the end.
LEMMA AppendLedger ==
    ASSUME NEW es \in Seq(Entries), NEW e \in Entries, Apart(es),
           Inside(e) \cap ChunksOf(es) = {}
    PROVE  /\ Apart(Append(es, e))
           /\ ChunksOf(Append(es, e)) = ChunksOf(es) \cup Inside(e)
<1> DEFINE n == Len(es)  t == Append(es, e)
<1>1. n \in Nat /\ Len(t) = n + 1 /\ t[n + 1] = e /\ \A i \in 1 .. n : t[i] = es[i]
  BY AppendProperties
<1>2. /\ ChunksOf(es) = UNION {Inside(es[i]) : i \in 1 .. n}
      /\ ChunksOf(t) = UNION {Inside(t[i]) : i \in 1 .. Len(t)}
  BY ChunksUnion
<1>3. \A i, j \in 1 .. n : i # j => Inside(es[i]) \cap Inside(es[j]) = {}
  BY DEF Apart
<1> HIDE DEF n, t
<1>4. \A i \in 1 .. n + 1 : i = n + 1 \/ i \in 1 .. n
  BY <1>1
<1>5. \A i \in 1 .. n : i \in 1 .. n + 1 /\ n + 1 \in 1 .. n + 1
  BY <1>1
<1>6. ChunksOf(t) = ChunksOf(es) \cup Inside(e)
  <2>1. n + 1 \in 1 .. n + 1
    BY <1>1
  <2> QED
    BY <1>1, <1>2, <1>4, <1>5, <2>1
<1>7. Apart(t)
  <2>1. \A i \in 1 .. n : Inside(es[i]) \cap Inside(e) = {}
    BY <1>2
  <2>2. ASSUME NEW i \in 1 .. Len(t), NEW j \in 1 .. Len(t), i # j
        PROVE  Inside(t[i]) \cap Inside(t[j]) = {}
    <3>1. CASE i \in 1 .. n /\ j \in 1 .. n
      BY <1>1, <1>3, <2>2, <3>1
    <3>2. CASE i = n + 1 /\ j \in 1 .. n
      BY <1>1, <2>1, <3>2
    <3>3. CASE i \in 1 .. n /\ j = n + 1
      BY <1>1, <2>1, <3>3
    <3> QED
      BY <1>1, <1>4, <2>2, <3>1, <3>2, <3>3
  <2> QED
    BY <2>2 DEF Apart
<1> QED
  BY <1>6, <1>7 DEF t

\* What a drain hands out.
LEMMA PendingLedger ==
    ASSUME NEW b \in [Dirs -> Seq(Chunks)], Elems(b["Output"]) \cap Elems(b["Input"]) = {}
    PROVE  /\ Apart(Pending(b))
           /\ ChunksOf(Pending(b)) = Elems(b["Output"]) \cup Elems(b["Input"])
<1> DEFINE o == Event("Output", b["Output"])  n == Event("Input", b["Input"])
<1>1. o \in Entries /\ n \in Entries
  BY EventTyped DEF Dirs
<1>2. Inside(o) = Elems(b["Output"]) /\ Inside(n) = Elems(b["Input"])
  BY DEF Inside, Event
<1>3. Elems(<<>>) = {}
  BY ChunksNone
<1>4. \A e \in Entries : Apart(<<e>>) /\ ChunksOf(<<e>>) = Inside(e)
  <2>1. ASSUME NEW e \in Entries PROVE Apart(<<e>>) /\ ChunksOf(<<e>>) = Inside(e)
    <3>1. Append(<<>>, e) = <<e>> /\ <<>> \in Seq(Entries)
      OBVIOUS
    <3> QED
      BY <3>1, AppendLedger, ChunksNone
  <2> QED
    BY <2>1
<1> HIDE DEF o, n
<1>5. CASE b["Output"] = <<>> /\ b["Input"] = <<>>
  <2>1. Pending(b) = <<>>
    BY <1>5 DEF Pending
  <2> QED
    BY <1>3, <1>5, <2>1, ChunksNone
<1>6. CASE b["Output"] # <<>> /\ b["Input"] = <<>>
  <2>1. Pending(b) = <<o>>
    BY <1>1, <1>6 DEF Pending, o
  <2> QED
    BY <1>1, <1>2, <1>3, <1>4, <1>6, <2>1
<1>7. CASE b["Output"] = <<>> /\ b["Input"] # <<>>
  <2>1. Pending(b) = <<n>>
    BY <1>1, <1>7 DEF Pending, n
  <2> QED
    BY <1>1, <1>2, <1>3, <1>4, <1>7, <2>1
<1>8. CASE b["Output"] # <<>> /\ b["Input"] # <<>>
  <2>1. Pending(b) = Append(<<o>>, n) /\ <<o>> \in Seq(Entries)
    BY <1>1, <1>8 DEF Pending, n, o
  <2>2. Apart(<<o>>) /\ ChunksOf(<<o>>) = Inside(o)
    BY <1>1, <1>4
  <2>3. Inside(n) \cap ChunksOf(<<o>>) = {}
    BY <1>2, <2>2
  <2>4. Apart(Append(<<o>>, n)) /\ ChunksOf(Append(<<o>>, n)) = ChunksOf(<<o>>) \cup Inside(n)
    BY <1>1, <2>1, <2>2, <2>3, AppendLedger
  <2> QED
    BY <1>2, <2>1, <2>2, <2>4
<1> QED
  BY <1>5, <1>6, <1>7, <1>8

\* ... also when it is followed by a marker.
LEMMA DrainedLedger ==
    ASSUME NEW b \in [Dirs -> Seq(Chunks)], Elems(b["Output"]) \cap Elems(b["Input"]) = {},
           NEW k \in {"header", "rotate", "close"},
           NEW es \in {Pending(b) \o <<>>, Pending(b) \o <<Marker(k)>>, Pending(b)}
    PROVE  /\ Apart(es) /\ es \in Seq(Entries)
           /\ ChunksOf(es) = Elems(b["Output"]) \cup Elems(b["Input"])
<1>1. Pending(b) \in Seq(Entries) /\ Marker(k) \in Entries
  BY PendingTyped, MarkerTyped
<1>2. /\ Pending(b) \o <<>> = Pending(b)
      /\ Pending(b) \o <<Marker(k)>> = Append(Pending(b), Marker(k))
  BY <1>1
<1>3. Inside(Marker(k)) = {}
  <2>1. Marker(k).kind # "event"
    BY DEF Marker
  <2> QED
    BY <1>1, <2>1, MarkerEmpty
<1>4. /\ Apart(Pending(b))
      /\ ChunksOf(Pending(b)) = Elems(b["Output"]) \cup Elems(b["Input"])
  BY PendingLedger
<1>5. /\ Apart(Append(Pending(b), Marker(k)))
      /\ ChunksOf(Append(Pending(b), Marker(k))) = ChunksOf(Pending(b)) \cup {}
  BY <1>1, <1>3, <1>4, AppendLedger
<1>6. Append(Pending(b), Marker(k)) \in Seq(Entries)
  BY <1>1
<1> QED
  BY <1>1, <1>2, <1>4, <1>5, <1>6

-----------------------------------------------------------------------------
(* Moves.                                                                  *)

\* What the senders but p hold.
Others(p) == UNION {ChunksOf(out[q]) : q \in Senders \ {p}}

\* A sender's entries are replaced.
LEMMA OutChanged ==
    ASSUME Typed, Distinct, NEW p \in Senders, NEW es, out' = [out EXCEPT ![p] = es]
    PROVE  /\ Held = Others(p) \cup ChunksOf(out[p])
           /\ Others(p) \cap ChunksOf(out[p]) = {}
           /\ Held' = Others(p) \cup ChunksOf(es)
           /\ Apart(es) /\ ChunksOf(es) \cap Others(p) = {} =>
                 /\ \A q \in Senders : Apart(out'[q])
                 /\ \A q, r \in Senders : q # r => ChunksOf(out'[q]) \cap ChunksOf(out'[r]) = {}
<1>1. \A q \in Senders : out'[q] = IF q = p THEN es ELSE out[q]
  BY DEF Typed, TypeOK
<1>2. Held = Others(p) \cup ChunksOf(out[p])
  BY DEF Held, Others
<1>3. Others(p) \cap ChunksOf(out[p]) = {}
  BY DEF Distinct, Others
<1>4. Held' = Others(p) \cup ChunksOf(es)
  <2>1. Held' = UNION {ChunksOf(out'[q]) : q \in Senders}
    BY DEF Held
  <2> QED
    BY <1>1, <2>1 DEF Others
<1>5. ASSUME Apart(es), ChunksOf(es) \cap Others(p) = {}
      PROVE  /\ \A q \in Senders : Apart(out'[q])
             /\ \A q, r \in Senders : q # r => ChunksOf(out'[q]) \cap ChunksOf(out'[r]) = {}
  <2>1. \A q \in Senders \ {p} : ChunksOf(es) \cap ChunksOf(out[q]) = {}
    BY <1>5 DEF Others
  <2>2. \A q \in Senders : Apart(out'[q])
    BY <1>1, <1>5 DEF Distinct
  <2>3. ASSUME NEW q \in Senders, NEW r \in Senders, q # r
        PROVE  ChunksOf(out'[q]) \cap ChunksOf(out'[r]) = {}
    BY <1>1, <2>1, <2>3 DEF Distinct
  <2> QED
    BY <2>2, <2>3
<1> QED
  BY <1>2, <1>3, <1>4, <1>5

\* The buffers, with the chunks of N just added, go to a sender that held nothing.
LEMMA LedgerDrain ==
    ASSUME Typed, Ledger, NEW p \in Senders, out[p] = <<>>, NEW N,
           NEW es, Apart(es), ChunksOf(es) = Buffered \cup N, N \cap (1 .. next - 1) = {},
           1 .. next' - 1 = (1 .. next - 1) \cup N,
           out' = [out EXCEPT ![p] = es], buf' = [d \in Dirs |-> <<>>],
           UNCHANGED <<chan, disk, lost>>
    PROVE  Ledger'
<1> DEFINE all == 1 .. next - 1
<1>1. Split(Buffered, Held, Mailed, Kept, lost, all) /\ Distinct
  BY DEF Ledger
<1>2. Buffered' = {} /\ Elems(buf["Output"])' \cap Elems(buf["Input"])' = {}
  BY ChunksNone DEF Buffered, Dirs
<1>3. Mailed' = Mailed /\ Kept' = Kept
  BY DEF Mailed, Kept
<1>4. ChunksOf(out[p]) = {}
  BY ChunksNone
<1>5. Held = Others(p) /\ Held' = Others(p) \cup Buffered \cup N
  <2>1. Held = Others(p) \cup ChunksOf(out[p]) /\ Held' = Others(p) \cup ChunksOf(es)
    BY <1>1, OutChanged
  <2> QED
    BY <1>4, <2>1
<1>6. N \cap Buffered = {} /\ N \cap Held = {} /\ N \cap Mailed = {} /\ N \cap Kept = {} /\ N \cap lost = {}
  BY <1>1 DEF Split
<1>7. ChunksOf(es) \cap Others(p) = {}
  BY <1>1, <1>5, <1>6 DEF Split
<1>8. Distinct'
  <2>1. /\ \A q \in Senders : Apart(out'[q])
        /\ \A q, r \in Senders : q # r => ChunksOf(out'[q]) \cap ChunksOf(out'[r]) = {}
    BY <1>1, <1>7, OutChanged
  <2> QED
    BY <1>1, <1>2, <2>1 DEF Distinct
<1>9. Split({}, Held \cup Buffered \cup N, Mailed, Kept, lost, all \cup N)
  BY <1>1, <1>6 DEF Split
<1>10. Split(Buffered, Held, Mailed, Kept, lost, 1 .. next - 1)'
  BY <1>2, <1>3, <1>5, <1>9
<1> QED
  BY <1>8, <1>10 DEF Ledger

\* The next chunk enters a buffer.
LEMMA LedgerBuffer ==
    ASSUME Typed, Ledger, NEW d \in Dirs, buf' = [buf EXCEPT ![d] = Append(@, next)],
           next' = next + 1, UNCHANGED <<out, chan, disk, lost>>
    PROVE  Ledger'
<1>0. next \in Nat \ {0} /\ buf \in [Dirs -> Seq(Chunks)]
  BY DEF Typed, TypeOK
<1>1. Split(Buffered, Held, Mailed, Kept, lost, 1 .. next - 1) /\ Distinct
  BY DEF Ledger
<1>2. Elems(Append(buf[d], next)) = Elems(buf[d]) \cup {next}
  BY <1>0 DEF Elems
<1>3. Buffered' = Buffered \cup {next}
  <2>1. Buffered' = UNION {Elems(buf'[x]) : x \in Dirs}
    BY DEF Buffered
  <2>2. \A x \in Dirs : Elems(buf'[x]) = IF x = d THEN Elems(buf[d]) \cup {next} ELSE Elems(buf[x])
    BY <1>0, <1>2
  <2> QED
    BY <2>1, <2>2 DEF Buffered
<1>4. 1 .. next' - 1 = (1 .. next - 1) \cup {next} /\ next \notin 1 .. next - 1
  BY <1>0
<1>5. next \notin Buffered /\ next \notin Held /\ next \notin Mailed /\ next \notin Kept /\ next \notin lost
  BY <1>1, <1>4 DEF Split
<1>6. Held' = Held /\ Mailed' = Mailed /\ Kept' = Kept
  BY DEF Held, Mailed, Kept
<1>7. Elems(buf'["Output"]) \cap Elems(buf'["Input"]) = {}
  <2>1. next \notin Elems(buf["Output"]) /\ next \notin Elems(buf["Input"])
    BY <1>5 DEF Buffered, Dirs
  <2>2. Elems(buf["Output"]) \cap Elems(buf["Input"]) = {}
    BY <1>1 DEF Distinct
  <2>3. CASE d = "Output"
    BY <1>0, <1>2, <2>1, <2>2, <2>3 DEF Dirs
  <2>4. CASE d = "Input"
    BY <1>0, <1>2, <2>1, <2>2, <2>4 DEF Dirs
  <2> QED
    BY <2>3, <2>4 DEF Dirs
<1>8. Distinct'
  BY <1>1, <1>7 DEF Distinct
<1>9. Split(Buffered \cup {next}, Held, Mailed, Kept, lost, (1 .. next - 1) \cup {next})
  BY <1>1, <1>5 DEF Split
<1> QED
  BY <1>3, <1>4, <1>6, <1>8, <1>9 DEF Ledger

\* The head of what a sender holds goes to the mailbox.
LEMMA LedgerSend ==
    ASSUME Typed, Ledger, NEW p \in Senders, Send(p)
    PROVE  Ledger'
<1>0. /\ out \in [Senders -> Seq(Entries)] /\ out[p] \in Seq(Entries) /\ out[p] # <<>>
      /\ out' = [out EXCEPT ![p] = Tail(out[p])] /\ chan' = Append(chan, Head(out[p]))
      /\ Head(out[p]) \in Entries /\ chan \in Seq(Entries)
      /\ UNCHANGED <<next, buf, disk, lost>>
  BY DEF Typed, TypeOK, Send, teeVars, fileVars
<1>1. Split(Buffered, Held, Mailed, Kept, lost, 1 .. next - 1) /\ Distinct
  BY DEF Ledger
<1> DEFINE h == Inside(Head(out[p]))  t == ChunksOf(Tail(out[p]))
<1>2. Apart(out[p]) /\ Apart(chan)
  BY <1>1 DEF Distinct
<1>3. Apart(Tail(out[p])) /\ ChunksOf(out[p]) = h \cup t /\ h \cap t = {}
  BY <1>0, <1>2, TailLedger
<1>4. /\ Held = Others(p) \cup h \cup t /\ Others(p) \cap (h \cup t) = {}
      /\ Held' = Others(p) \cup t
      /\ \A q \in Senders : Apart(out'[q])
      /\ \A q, r \in Senders : q # r => ChunksOf(out'[q]) \cap ChunksOf(out'[r]) = {}
  <2>1. Held = Others(p) \cup h \cup t /\ Others(p) \cap (h \cup t) = {} /\ Held' = Others(p) \cup t
    BY <1>0, <1>1, <1>3, OutChanged
  <2>2. t \cap Others(p) = {}
    BY <2>1
  <2> QED
    BY <1>0, <1>1, <1>3, <2>1, <2>2, OutChanged
<1>5. h \cap Mailed = {}
  BY <1>1, <1>4 DEF Split
<1>6. Apart(chan') /\ Mailed' = Mailed \cup h
  BY <1>0, <1>2, <1>5, AppendLedger DEF Mailed
<1>7. Distinct'
  BY <1>0, <1>1, <1>4, <1>6 DEF Distinct
<1>8. Split(Buffered, Others(p) \cup t, Mailed \cup h, Kept, lost, 1 .. next - 1)
  <2> HIDE DEF h, t
  <2> QED
    BY <1>1, <1>3, <1>4 DEF Split
<1>9. Buffered' = Buffered /\ Kept' = Kept
  BY <1>0 DEF Buffered, Kept
<1> QED
  BY <1>0, <1>4, <1>6, <1>7, <1>8, <1>9 DEF Ledger

\* A sender gives up what it holds.
LEMMA LedgerGiveUp ==
    ASSUME Typed, Ledger, NEW p \in Senders, out' = [out EXCEPT ![p] = <<>>],
           lost' = lost \cup ChunksOf(out[p]), UNCHANGED <<next, buf, chan, disk>>
    PROVE  Ledger'
<1>1. Split(Buffered, Held, Mailed, Kept, lost, 1 .. next - 1) /\ Distinct
  BY DEF Ledger
<1>2. ChunksOf(<<>>) = {} /\ Apart(<<>>)
  BY ChunksNone
<1>3. /\ Held = Others(p) \cup ChunksOf(out[p]) /\ Others(p) \cap ChunksOf(out[p]) = {}
      /\ Held' = Others(p)
      /\ \A q \in Senders : Apart(out'[q])
      /\ \A q, r \in Senders : q # r => ChunksOf(out'[q]) \cap ChunksOf(out'[r]) = {}
  <2>1. /\ Held = Others(p) \cup ChunksOf(out[p]) /\ Others(p) \cap ChunksOf(out[p]) = {}
        /\ Held' = Others(p) \cup ChunksOf(<<>>)
    BY <1>1, OutChanged
  <2>2. Apart(<<>>) /\ ChunksOf(<<>>) \cap Others(p) = {}
    BY <1>2
  <2>3. /\ \A q \in Senders : Apart(out'[q])
        /\ \A q, r \in Senders : q # r => ChunksOf(out'[q]) \cap ChunksOf(out'[r]) = {}
    BY <1>1, <2>2, OutChanged
  <2> QED
    BY <1>2, <2>1, <2>3
<1>4. Distinct'
  BY <1>1, <1>3 DEF Distinct
<1>5. Split(Buffered, Others(p), Mailed, Kept, lost \cup ChunksOf(out[p]), 1 .. next - 1)
  BY <1>1, <1>3 DEF Split
<1>6. Buffered' = Buffered /\ Kept' = Kept /\ Mailed' = Mailed
  BY DEF Buffered, Kept, Mailed
<1> QED
  BY <1>3, <1>4, <1>5, <1>6 DEF Ledger

\* The worker takes the head of the mailbox and writes it, or gives it up.
LEMMA LedgerTake ==
    ASSUME Typed, Ledger, chan # <<>>, chan' = Tail(chan), UNCHANGED <<next, buf, out>>,
           \/ disk' = Append(disk, Written(Head(chan))) /\ lost' = lost
           \/ disk' = disk /\ lost' = lost \cup Inside(Head(chan))
    PROVE  Ledger'
<1>0. /\ chan \in Seq(Entries) /\ Head(chan) \in Entries
      /\ disk \in Seq([file : Nat, frame : Nat, entry : Entries]) /\ Len(disk) \in Nat
  BY DEF Typed, TypeOK
<1>1. Split(Buffered, Held, Mailed, Kept, lost, 1 .. next - 1) /\ Distinct
  BY DEF Ledger
<1> DEFINE h == Inside(Head(chan))
<1>2. Apart(chan') /\ Mailed = h \cup Mailed' /\ h \cap Mailed' = {}
  <2>1. Apart(chan)
    BY <1>1 DEF Distinct
  <2> QED
    BY <1>0, <2>1, TailLedger DEF Mailed
<1>3. Buffered' = Buffered /\ Held' = Held
  BY DEF Buffered, Held
<1>4. CASE disk' = disk /\ lost' = lost \cup h
  <2>1. Distinct' /\ Kept' = Kept
    BY <1>1, <1>2, <1>4 DEF Distinct, Kept
  <2>2. Split(Buffered, Held, Mailed', Kept, lost \cup h, 1 .. next - 1)
    BY <1>1, <1>2 DEF Split
  <2> QED
    BY <1>3, <1>4, <2>1, <2>2 DEF Ledger
<1>5. CASE disk' = Append(disk, Written(Head(chan))) /\ lost' = lost
  <2> DEFINE n == Len(disk)
  <2>1. /\ n \in Nat /\ Len(disk') = n + 1 /\ disk'[n + 1] = Written(Head(chan))
        /\ \A i \in 1 .. n : disk'[i] = disk[i]
    BY <1>0, <1>5, AppendProperties
  <2>2. Written(Head(chan)).entry = Head(chan)
    BY DEF Written
  <2>3. /\ \A i \in 1 .. n + 1 : i = n + 1 \/ i \in 1 .. n
        /\ \A i \in 1 .. n : i \in 1 .. n + 1
        /\ n + 1 \in 1 .. n + 1
    BY <2>1
  <2>4. /\ \A i \in 1 .. n : Inside(disk'[i].entry) = Inside(disk[i].entry)
        /\ Inside(disk'[n + 1].entry) = h
    BY <2>1, <2>2
  <2>5. Kept = UNION {Inside(disk[i].entry) : i \in 1 .. n}
    BY DEF Kept
  <2>6. Kept' = UNION {Inside(disk'[i].entry) : i \in 1 .. n + 1}
    BY <2>1 DEF Kept
  <2> HIDE DEF n, h
  <2>7. Kept' = Kept \cup h
    BY <2>3, <2>4, <2>5, <2>6
  <2>8. h \cap Kept = {}
    BY <1>1, <1>2 DEF Split
  <2>9. ASSUME NEW i \in 1 .. n + 1, NEW j \in 1 .. n + 1, i # j
        PROVE  Inside(disk'[i].entry) \cap Inside(disk'[j].entry) = {}
    <3>1. \A x \in 1 .. n : Inside(disk[x].entry) \cap h = {}
      BY <2>5, <2>8
    <3>2. CASE i \in 1 .. n /\ j \in 1 .. n
      BY <1>1, <2>4, <2>9, <3>2 DEF Distinct, n
    <3>3. CASE i = n + 1 /\ j \in 1 .. n
      BY <2>4, <3>1, <3>3
    <3>4. CASE i \in 1 .. n /\ j = n + 1
      BY <2>4, <3>1, <3>4
    <3> QED
      BY <2>3, <2>9, <3>2, <3>3, <3>4
  <2>10. Distinct'
    <3>1. \A i, j \in 1 .. Len(disk') :
             i # j => Inside(disk'[i].entry) \cap Inside(disk'[j].entry) = {}
      BY <2>1, <2>9
    <3> QED
      BY <1>1, <1>2, <3>1 DEF Distinct
  <2>11. Split(Buffered, Held, Mailed', Kept \cup h, lost, 1 .. next - 1)
    BY <1>1, <1>2, <2>8 DEF Split
  <2> QED
    BY <1>3, <1>5, <2>7, <2>10, <2>11 DEF Ledger
<1> QED
  BY <1>4, <1>5

\* The mailbox is dropped behind a marker.
LEMMA LedgerDrop ==
    ASSUME Typed, Ledger, WorkClose
    PROVE  Ledger'
<1>0. /\ chan \in Seq(Entries) /\ chan # <<>> /\ Head(chan) \in Entries /\ Head(chan).kind = "close"
      /\ chan' = <<>> /\ lost' = lost \cup ChunksOf(Tail(chan)) /\ UNCHANGED <<next, buf, out, disk>>
  BY DEF Typed, TypeOK, WorkClose, teeVars, bufVars
<1>1. Split(Buffered, Held, Mailed, Kept, lost, 1 .. next - 1) /\ Distinct
  BY DEF Ledger
<1>2. Inside(Head(chan)) = {}
  BY <1>0, MarkerEmpty
<1>3. Mailed = ChunksOf(Tail(chan))
  <2>1. Apart(chan)
    BY <1>1 DEF Distinct
  <2>2. ChunksOf(chan) = Inside(Head(chan)) \cup ChunksOf(Tail(chan))
    BY <1>0, <2>1, TailLedger
  <2> QED
    BY <1>2, <2>2 DEF Mailed
<1>4. Mailed' = {} /\ Apart(chan')
  BY <1>0, ChunksNone DEF Mailed
<1>5. Buffered' = Buffered /\ Held' = Held /\ Kept' = Kept
  BY <1>0 DEF Buffered, Held, Kept
<1>6. Distinct'
  BY <1>0, <1>1, <1>4 DEF Distinct
<1>7. Split(Buffered, Held, {}, Kept, lost \cup Mailed, 1 .. next - 1)
  BY <1>1 DEF Split
<1> QED
  BY <1>0, <1>3, <1>4, <1>5, <1>6, <1>7 DEF Ledger

\* Steps that move nothing.
LEMMA LedgerKept ==
    ASSUME Ledger, UNCHANGED <<next, buf, out, chan, disk, lost>>
    PROVE  Ledger'
<1>1. Buffered' = Buffered /\ Held' = Held /\ Mailed' = Mailed /\ Kept' = Kept
  BY DEF Buffered, Held, Mailed, Kept
<1>2. Distinct'
  BY DEF Ledger, Distinct
<1> QED
  BY <1>1, <1>2 DEF Ledger

-----------------------------------------------------------------------------
(* Every step.                                                             *)

\* Who the senders are.
LEMMA SenderKinds ==
    /\ Callers \subseteq Senders /\ Timers \subseteq Senders /\ Rotors \subseteq Senders
    /\ "close" \in Senders
    /\ \A c \in Callers : c \notin Timers /\ c \notin Rotors /\ c # "close"
    /\ \A t \in Timers : t \notin Callers /\ t \notin Rotors /\ t # "close"
    /\ \A r \in Rotors : r \notin Callers /\ r \notin Timers /\ r # "close"
BY RecorderAssumption DEF Senders

\* A caller or the close takes entries only when it has none.
LEMMA IdleStep == Typed /\ Idle /\ [Next]_vars => Idle'
<1> SUFFICES ASSUME Typed, Idle, [Next]_vars PROVE Idle'
  OBVIOUS
<1>0. call \in [Callers -> {"idle", "cloned"}] /\ out \in [Senders -> Seq(Entries)]
  BY DEF Typed, TypeOK
<1>1. ASSUME NEW c \in Callers, Tee(c) \/ TeeRefused(c) PROVE Idle'
  BY <1>0, <1>1 DEF Idle, Tee, TeeRefused, dartVars
<1>2. ASSUME NEW c \in Callers, Chunk(c) PROVE Idle'
  <2>1. call' = [call EXCEPT ![c] = "idle"] /\ closer' = closer
    BY <1>2 DEF Chunk, dartVars
  <2>2. \E es : out' = out \/ out' = [out EXCEPT ![c] = es]
    BY <1>2 DEF Chunk, Buffer, Overrun, Drain
  <2> QED
    BY <1>0, <2>1, <2>2, SenderKinds DEF Idle
<1>3. ASSUME NEW p \in Senders, NEW es, out' = [out EXCEPT ![p] = es],
             es = <<>> \/ out[p] # <<>> \/ p \in Timers \cup Rotors,
             UNCHANGED <<call, closer>>
      PROVE  Idle'
  <2>1. \A q \in Senders : q # p => out'[q] = out[q]
    BY <1>0, <1>3
  <2>2. out'[p] = es
    BY <1>0, <1>3
  <2>3. ASSUME NEW c \in Callers, call'[c] = "cloned" PROVE out'[c] = <<>>
    BY <1>3, <2>1, <2>2, <2>3, SenderKinds DEF Idle
  <2>4. ASSUME closer' # "sent" PROVE out'["close"] = <<>>
    BY <1>3, <2>1, <2>2, <2>4, SenderKinds DEF Idle
  <2> QED
    BY <2>3, <2>4 DEF Idle
<1>4. ASSUME NEW t \in Timers, TimerStep(t) PROVE Idle'
  <2>1. UNCHANGED <<call, closer>>
    BY <1>4 DEF TimerStep, TimerFires, TimerDrains, TimerCancelled, teeVars, dartVars
  <2>2. CASE TimerFires(t)
    BY <2>1, <2>2 DEF TimerFires, Idle
  <2>3. \/ TimerFires(t)
        \/ out' = [out EXCEPT ![t] = Pending(buf)]
        \/ out' = [out EXCEPT ![t] = <<>>]
    BY <1>4 DEF TimerStep, TimerDrains, TimerCancelled
  <2> QED
    BY <1>3, <2>1, <2>2, <2>3, SenderKinds
<1>5. ASSUME NEW r \in Rotors, RotorStep(r) PROVE Idle'
  <2>1. UNCHANGED <<call, closer>>
    BY <1>5 DEF RotorStep, RotateHeard, RotateCall, RotateEnds, teeVars
  <2>2. CASE out' = out
    BY <2>1, <2>2 DEF Idle
  <2>3. \/ out' = out
        \/ out' = [out EXCEPT ![r] = Pending(buf) \o <<Marker("rotate")>>]
        \/ out' = [out EXCEPT ![r] = Pending(buf) \o <<Marker("header")>>]
    BY <1>5 DEF RotorStep, RotateHeard, RotateCall, RotateEnds, Drain
  <2> QED
    BY <1>3, <2>1, <2>2, <2>3, SenderKinds
<1>6. ASSUME NEW p \in Senders, SendStep(p) PROVE Idle'
  <2>1. /\ UNCHANGED <<call, closer>> /\ out[p] # <<>>
        /\ out' = [out EXCEPT ![p] = Tail(out[p])] \/ out' = [out EXCEPT ![p] = <<>>]
    BY <1>6 DEF SendStep, Send, SendFails, teeVars, dartVars
  <2> QED
    BY <1>3, <2>1
<1>7. CASE StopRecording
  BY <1>7 DEF StopRecording, Idle
<1>8. CASE CloseCall
  <2>1. call' = call /\ closer' = "sent" /\ \E es : out' = [out EXCEPT !["close"] = es]
    BY <1>8 DEF CloseCall, Drain, teeVars
  <2> QED
    BY <1>0, <2>1, SenderKinds DEF Idle
<1>9. CASE Work \/ UNCHANGED vars
  BY <1>9 DEF Work, WorkHeader, WorkEvent, WorkRotate, WorkClose, vars, teeVars, dartVars, Idle
<1> QED
  BY <1>1, <1>2, <1>4, <1>5, <1>6, <1>7, <1>8, <1>9 DEF Next, CallStep

\* Whoever drains the buffers as they are adds no chunk.
LEMMA LedgerDrainNow ==
    ASSUME Typed, Ledger, NEW p \in Senders, out[p] = <<>>,
           NEW k \in {"header", "rotate", "close"},
           NEW es \in {Pending(buf) \o <<>>, Pending(buf) \o <<Marker(k)>>, Pending(buf)},
           out' = [out EXCEPT ![p] = es], buf' = [d \in Dirs |-> <<>>],
           UNCHANGED <<next, chan, disk, lost>>
    PROVE  Ledger'
<1>1. buf \in [Dirs -> Seq(Chunks)] /\ Elems(buf["Output"]) \cap Elems(buf["Input"]) = {}
  BY DEF Typed, TypeOK, Ledger, Distinct
<1>2. Apart(es) /\ ChunksOf(es) = Elems(buf["Output"]) \cup Elems(buf["Input"])
  BY <1>1, DrainedLedger
<1>3. Buffered = Elems(buf["Output"]) \cup Elems(buf["Input"])
  BY DEF Buffered, Dirs
<1> DEFINE N == {}
<1>4. /\ ChunksOf(es) = Buffered \cup N /\ N \cap (1 .. next - 1) = {}
      /\ 1 .. next' - 1 = (1 .. next - 1) \cup N
  BY <1>2, <1>3
<1> HIDE DEF N
<1> QED
  BY <1>2, <1>4, LedgerDrain

\* The chunk that reaches the threshold is drained with the others.
LEMMA LedgerOverrun ==
    ASSUME Typed, Ledger, NEW c \in Callers, out[c] = <<>>, Overrun(c), next <= MaxChunks,
           next' = next + 1, UNCHANGED <<chan, disk, lost>>
    PROVE  Ledger'
<1> DEFINE d == DirOf(c)  b == [buf EXCEPT ![d] = Append(buf[d], next)]
<1>0. next \in Nat \ {0} /\ buf \in [Dirs -> Seq(Chunks)] /\ d \in Dirs /\ next \in Chunks
  BY RecorderAssumption DEF Typed, TypeOK, DirOf, Dirs, Chunks
<1>1. Drain(c, b, <<>>)
  BY DEF Overrun
<1>2. /\ out' = [out EXCEPT ![c] = Pending(b) \o <<>>] /\ buf' = [x \in Dirs |-> <<>>]
  BY <1>1 DEF Drain
<1>3. Elems(Append(buf[d], next)) = Elems(buf[d]) \cup {next}
  BY <1>0 DEF Elems
<1>4. Split(Buffered, Held, Mailed, Kept, lost, 1 .. next - 1) /\ Distinct
  BY DEF Ledger
<1>5. next \notin 1 .. next - 1 /\ 1 .. next' - 1 = (1 .. next - 1) \cup {next}
  BY <1>0
<1>6. next \notin Buffered
  BY <1>4, <1>5 DEF Split
<1>7. Buffered = Elems(buf["Output"]) \cup Elems(buf["Input"])
  BY DEF Buffered, Dirs
<1>8. Elems(buf["Output"]) \cap Elems(buf["Input"]) = {}
  BY <1>4 DEF Distinct
<1>9. b \in [Dirs -> Seq(Chunks)]
  BY <1>0
<1>10. \A x \in Dirs : b[x] = IF x = d THEN Append(buf[d], next) ELSE buf[x]
  BY <1>0
<1> HIDE DEF b, d
<1>11. /\ Elems(b["Output"]) \cap Elems(b["Input"]) = {}
       /\ Elems(b["Output"]) \cup Elems(b["Input"]) = Buffered \cup {next}
  <2>1. CASE d = "Output"
    BY <1>3, <1>6, <1>7, <1>8, <1>10, <2>1 DEF Dirs
  <2>2. CASE d = "Input"
    BY <1>3, <1>6, <1>7, <1>8, <1>10, <2>2 DEF Dirs
  <2> QED
    BY <1>0, <2>1, <2>2 DEF Dirs
<1> DEFINE es == Pending(b) \o <<>>
<1>12. Apart(es) /\ ChunksOf(es) = Buffered \cup {next}
  BY <1>9, <1>11, DrainedLedger
<1>13. c \in Senders
  BY SenderKinds
<1> HIDE DEF es
<1>14. out' = [out EXCEPT ![c] = es] /\ {next} \cap (1 .. next - 1) = {}
  BY <1>2, <1>5 DEF es
<1> QED
  BY <1>2, <1>5, <1>12, <1>13, <1>14, LedgerDrain

\* Every step moves chunks from place to place and neither copies nor drops one.
LEMMA LedgerStep ==
    Typed /\ Armed /\ Rotating /\ Idle /\ Ledger /\ [Next]_vars => Ledger'
<1> SUFFICES ASSUME Typed, Armed, Rotating, Idle, Ledger, [Next]_vars PROVE Ledger'
  OBVIOUS
<1>1. ASSUME NEW c \in Callers, Tee(c) \/ TeeRefused(c) PROVE Ledger'
  BY <1>1, LedgerKept DEF Tee, TeeRefused, bufVars, fileVars
<1>2. ASSUME NEW c \in Callers, Chunk(c) PROVE Ledger'
  <2>1. /\ call[c] = "cloned" /\ call' = [call EXCEPT ![c] = "idle"]
        /\ next' = next + 1 /\ UNCHANGED <<chan, disk, lost>>
    BY <1>2 DEF Chunk, fileVars
  <2>2. CASE Buffer(c)
    <3>1. /\ DirOf(c) \in Dirs /\ UNCHANGED out
          /\ buf' = [buf EXCEPT ![DirOf(c)] = Append(@, next)]
      BY <2>2 DEF Buffer, DirOf, Dirs
    <3> QED
      BY <2>1, <3>1, LedgerBuffer
  <2>3. CASE Overrun(c)
    <3>1. out[c] = <<>>
      BY <2>1 DEF Idle
    <3>2. next <= MaxChunks
      <4>1. next \in Chunks
        BY <2>1, CallEnds
      <4> QED
        BY <4>1, RecorderAssumption DEF Chunks
    <3> QED
      BY <2>1, <2>3, <3>1, <3>2, LedgerOverrun
  <2> QED
    BY <1>2, <2>2, <2>3 DEF Chunk
<1>3. ASSUME NEW t \in Timers, TimerStep(t) PROVE Ledger'
  <2>0. t \in Senders
    BY SenderKinds
  <2>1. CASE TimerFires(t)
    BY <2>1, LedgerKept DEF TimerFires, teeVars, fileVars
  <2>2. CASE TimerDrains(t)
    <3>1. /\ timer[t] \in {"awake", "doomed"} /\ buf' = [d \in Dirs |-> <<>>]
          /\ out' = [out EXCEPT ![t] = Pending(buf)] /\ UNCHANGED <<next, chan, disk, lost>>
      BY <2>2 DEF TimerDrains, teeVars, fileVars
    <3>2. out[t] = <<>>
      BY <3>1 DEF Armed, SlotLive
    <3> QED
      BY <2>0, <3>1, <3>2, LedgerDrainNow
  <2>3. CASE TimerCancelled(t)
    BY <2>0, <2>3, LedgerGiveUp DEF TimerCancelled, teeVars, fileVars
  <2> QED
    BY <1>3, <2>1, <2>2, <2>3 DEF TimerStep
<1>4. ASSUME NEW r \in Rotors, RotorStep(r) PROVE Ledger'
  <2>0. r \in Senders
    BY SenderKinds
  <2>1. CASE RotateHeard(r) \/ RotateEnds(r)
    BY <2>1, LedgerKept DEF RotateHeard, RotateEnds, teeVars, bufVars, fileVars
  <2>2. CASE RotateCall(r)
    <3>1. out[r] = <<>>
      BY <2>2 DEF RotateCall, Rotating, RotorShape
    <3>2. PICK k \in {"header", "rotate", "close"} : Drain(r, buf, <<Marker(k)>>)
      BY <2>2 DEF RotateCall
    <3>3. /\ out' = [out EXCEPT ![r] = Pending(buf) \o <<Marker(k)>>]
          /\ buf' = [d \in Dirs |-> <<>>] /\ UNCHANGED <<next, chan, disk, lost>>
      BY <2>2, <3>2 DEF Drain, RotateCall, teeVars, fileVars
    <3> QED
      BY <2>0, <3>1, <3>3, LedgerDrainNow
  <2> QED
    BY <1>4, <2>1, <2>2 DEF RotorStep
<1>5. ASSUME NEW p \in Senders, SendFails(p) PROVE Ledger'
  BY <1>5, LedgerGiveUp DEF SendFails, teeVars, fileVars
<1>6. CASE StopRecording
  BY <1>6, LedgerKept DEF StopRecording, bufVars, fileVars
<1>7. CASE CloseCall
  <2>1. /\ closer = "closing" /\ out' = [out EXCEPT !["close"] = Pending(buf) \o <<Marker("close")>>]
        /\ buf' = [d \in Dirs |-> <<>>] /\ UNCHANGED <<next, chan, disk, lost>>
    BY <1>7 DEF CloseCall, Drain, teeVars, fileVars
  <2>2. out["close"] = <<>> /\ "close" \in Senders
    BY <2>1, SenderKinds DEF Idle
  <2> QED
    BY <2>1, <2>2, LedgerDrainNow
<1>8. ASSUME NEW e, WriteFrame(e) \/ WriteFails(e) 
      PROVE  \/ disk' = Append(disk, Written(e)) /\ lost' = lost
             \/ disk' = disk /\ lost' = lost \cup Inside(e)
  <2>1. ChunksOf(<<e>>) = Inside(e)
    BY ChunksOne
  <2> QED
    BY <1>8, <2>1 DEF WriteFrame, WriteFails
<1>9. CASE WorkHeader \/ WorkEvent
  <2>1. /\ chan # <<>> /\ chan' = Tail(chan) /\ UNCHANGED <<next, buf, out>>
        /\ WriteFrame(Head(chan)) \/ WriteFails(Head(chan))
    BY <1>9 DEF WorkHeader, WorkEvent, Receive, teeVars, bufVars
  <2> QED
    BY <1>8, <2>1, LedgerTake
<1>10. CASE WorkRotate
  <2>1. /\ chan # <<>> /\ chan' = Tail(chan) /\ UNCHANGED <<next, buf, out>>
        /\ Head(chan).kind = "rotate" /\ disk' = disk /\ lost' = lost
    BY <1>10 DEF WorkRotate, Receive, teeVars, bufVars
  <2>2. Head(chan) \in Entries
    BY <2>1 DEF Typed, TypeOK
  <2>3. lost' = lost \cup Inside(Head(chan))
    BY <2>1, <2>2, MarkerEmpty
  <2> QED
    BY <2>1, <2>3, LedgerTake
<1>11. CASE UNCHANGED vars
  BY <1>11, LedgerKept DEF vars, teeVars, bufVars, fileVars
<1> QED
  BY <1>1, <1>2, <1>3, <1>4, <1>5, <1>6, <1>7, <1>9, <1>10, <1>11, LedgerSend, LedgerDrop
  DEF Next, CallStep, SendStep, Work

\* At first there is the header, and no chunk.
LEMMA LedgerInit == Init => Idle /\ Ledger
<1> SUFFICES ASSUME Init PROVE Idle /\ Ledger
  OBVIOUS
<1>1. /\ \A p \in Senders : out[p] = <<>> /\ ChunksOf(out[p]) = {}
      /\ \A c \in Callers : call[c] = "idle"
      /\ \A d \in Dirs : buf[d] = <<>>
      /\ next = 1 /\ disk = <<>> /\ lost = {} /\ chan = <<Marker("header")>>
  BY ChunksNone DEF Init
<1>2. Idle
  BY <1>1, SenderKinds DEF Idle
<1>3. Inside(Marker("header")) = {}
  BY ChunksNone DEF Inside, Marker
<1>4. Mailed = {}
  BY <1>1, <1>3, ChunksOne DEF Mailed
<1>5. Held = {}
  BY <1>1 DEF Held
<1>6. Buffered = {}
  BY <1>1, ChunksNone DEF Buffered
<1>7. Kept = {} /\ Len(disk) = 0 /\ Len(chan) = 1 /\ \A i, j \in 1 .. 1 : i = j
  BY <1>1 DEF Kept
<1>8. Split(Buffered, Held, Mailed, Kept, lost, 1 .. next - 1)
  BY <1>1, <1>4, <1>5, <1>6, <1>7 DEF Split
<1>9. Apart(chan)
  BY <1>7 DEF Apart
<1>10. Distinct
  <2>1. \A p \in Senders : Apart(out[p])
    BY <1>1, ChunksNone
  <2>2. \A p, q \in Senders : p # q => ChunksOf(out[p]) \cap ChunksOf(out[q]) = {}
    BY <1>1
  <2>3. Elems(buf["Output"]) \cap Elems(buf["Input"]) = {}
    BY <1>1, ChunksNone DEF Dirs
  <2> QED
    BY <1>7, <1>9, <2>1, <2>2, <2>3 DEF Distinct
<1> QED
  BY <1>2, <1>8, <1>10 DEF Ledger

\* A chunk of the ledger has one holder.
LEMMA OneHolder ==
    ASSUME Ledger, NEW c \in 1 .. next - 1
    PROVE  Cardinality(Holders(c)) = 1
<1> DEFINE B == {d \in Dirs : \E i \in 1 .. Len(buf[d]) : buf[d][i] = c}
           O == {p \in Senders : c \in ChunksOf(out[p])}
           C == {i \in 1 .. Len(chan) : c \in ChunksOf(<<chan[i]>>)}
           D == {i \in 1 .. Len(disk) : c \in ChunksOf(<<disk[i].entry>>)}
           L == IF c \in lost THEN {<<"lost", 0>>} ELSE {}
<1>1. Split(Buffered, Held, Mailed, Kept, lost, 1 .. next - 1) /\ Distinct
  BY DEF Ledger
<1>2. B = {d \in Dirs : c \in Elems(buf[d])}
  BY DEF Elems
<1>3. C = {i \in 1 .. Len(chan) : c \in Inside(chan[i])}
  BY ChunksOne
<1>4. D = {i \in 1 .. Len(disk) : c \in Inside(disk[i].entry)}
  BY ChunksOne
<1>5. /\ c \in Buffered <=> B # {}
      /\ c \in Held <=> O # {}
      /\ c \in Kept <=> D # {}
  BY <1>2, <1>4 DEF Buffered, Held, Kept
<1>6. c \in Mailed <=> C # {}
  BY <1>3, ChunksUnion DEF Mailed
<1>7. /\ \A x, y \in B : x = y
      /\ \A x, y \in O : x = y
      /\ \A x, y \in C : x = y
      /\ \A x, y \in D : x = y
  <2>1. \A x, y \in B : x = y
    BY <1>1, <1>2 DEF Distinct, Dirs
  <2>2. \A x, y \in O : x = y
    BY <1>1 DEF Distinct
  <2>3. \A x, y \in C : x = y
    BY <1>1, <1>3 DEF Distinct, Apart
  <2>4. \A x, y \in D : x = y
    BY <1>1, <1>4 DEF Distinct
  <2> QED
    BY <2>1, <2>2, <2>3, <2>4
<1>8. Holders(c) = {<<"buf", d>> : d \in B} \cup {<<"out", p>> : p \in O}
                   \cup {<<"chan", i>> : i \in C} \cup {<<"disk", i>> : i \in D} \cup L
  BY DEF Holders
<1>9. c \in lost <=> L # {}
  OBVIOUS
<1>10. \A x, y \in L : x = y
  OBVIOUS
<1> HIDE DEF B, O, C, D, L
<1>11. c \in Buffered \/ c \in Held \/ c \in Mailed \/ c \in Kept \/ c \in lost
  BY <1>1 DEF Split
<1>12. /\ c \in Buffered => c \notin Held /\ c \notin Mailed /\ c \notin Kept /\ c \notin lost
       /\ c \in Held => c \notin Mailed /\ c \notin Kept /\ c \notin lost
       /\ c \in Mailed => c \notin Kept /\ c \notin lost
       /\ c \in Kept => c \notin lost
  BY <1>1 DEF Split
<1>13. \E x : Holders(c) = {x}
  <2>1. CASE c \in Buffered
    <3>1. PICK d : d \in B
      BY <1>5, <2>1
    <3>2. B = {d} /\ O = {} /\ C = {} /\ D = {} /\ L = {}
      BY <1>5, <1>6, <1>7, <1>9, <1>12, <2>1, <3>1
    <3>3. Holders(c) = {<<"buf", d>>}
      BY <1>8, <3>2
    <3> QED
      BY <3>3
  <2>2. CASE c \in Held
    <3>1. PICK p : p \in O
      BY <1>5, <2>2
    <3>2. B = {} /\ O = {p} /\ C = {} /\ D = {} /\ L = {}
      BY <1>5, <1>6, <1>7, <1>9, <1>12, <2>2, <3>1
    <3>3. Holders(c) = {<<"out", p>>}
      BY <1>8, <3>2
    <3> QED
      BY <3>3
  <2>3. CASE c \in Mailed
    <3>1. PICK i : i \in C
      BY <1>6, <2>3
    <3>2. B = {} /\ O = {} /\ C = {i} /\ D = {} /\ L = {}
      BY <1>5, <1>6, <1>7, <1>9, <1>12, <2>3, <3>1
    <3>3. Holders(c) = {<<"chan", i>>}
      BY <1>8, <3>2
    <3> QED
      BY <3>3
  <2>4. CASE c \in Kept
    <3>1. PICK i : i \in D
      BY <1>5, <2>4
    <3>2. B = {} /\ O = {} /\ C = {} /\ D = {i} /\ L = {}
      BY <1>5, <1>6, <1>7, <1>9, <1>12, <2>4, <3>1
    <3>3. Holders(c) = {<<"disk", i>>}
      BY <1>8, <3>2
    <3> QED
      BY <3>3
  <2>5. CASE c \in lost
    <3>1. PICK x : x \in L
      BY <1>9, <2>5
    <3>2. B = {} /\ O = {} /\ C = {} /\ D = {} /\ L = {x}
      BY <1>5, <1>6, <1>10, <1>12, <2>5, <3>1
    <3> QED
      BY <1>8, <3>2
  <2> QED
    BY <1>11, <2>1, <2>2, <2>3, <2>4, <2>5
<1> QED
  BY <1>13, FS_Singleton

\* However the threshold, deadline, rotation and close drains race, a chunk
\* that EventBuffers accepted is in one buffer, one sender, one mailbox entry
\* or one frame, or was given up: never in two, and never nowhere.
THEOREM ChunksAccounted == Spec => []Accounted
<1>1. Ledger => Accounted
  BY OneHolder DEF Accounted
<1> QED
  BY <1>1, TypedInit, TypedStep, ArmedInit, ArmedStep, RotatingInit, RotatingStep,
     LedgerInit, IdleStep, LedgerStep, PTL DEF Spec

-----------------------------------------------------------------------------
(* The close.                                                              *)

\* No Close among the entries, or only as the last one.
NoClose(es)   == \A i \in 1 .. Len(es) : es[i].kind # "close"
CloseLast(es) == \A i \in 1 .. Len(es) : es[i].kind = "close" => i = Len(es)

\* The chunks of the mailbox ahead of its i-th entry.
Ahead(i) == UNION {Inside(chan[j]) : j \in 1 .. i - 1}

\* Before the close nothing is owed, and no Close is in the mailbox.
Unsent == closer # "sent" => cut = {} /\ ~sealed /\ NoClose(chan)

\* Only the close sends a Close, after all that it drained.
OneCloser == CloseLast(out["close"]) /\ \A p \in Senders : p # "close" => NoClose(out[p])

\* Until the file is sealed, what is owed is written, in the mailbox or still
\* with the close, and all of it is ahead of a Close in the mailbox.
Owed ==
    ~sealed /\ spoilt = {} =>
        /\ open
        /\ cut \subseteq Kept \cup Mailed \cup ChunksOf(out["close"])
        /\ \A i \in 1 .. Len(chan) : chan[i].kind = "close" => cut \subseteq Kept \cup Ahead(i)

Paid == sealed /\ spoilt = {} => cut \subseteq Kept

Closed == Unsent /\ OneCloser /\ Owed /\ Paid

\* A drain hands out no Close, but for the one the close adds at the end.
LEMMA DrainClose ==
    ASSUME NEW b, NEW k
    PROVE  /\ NoClose(Pending(b)) /\ NoClose(Pending(b) \o <<>>)
           /\ k # "close" => NoClose(Pending(b) \o <<Marker(k)>>)
           /\ CloseLast(Pending(b) \o <<Marker(k)>>)
<1> DEFINE P == Pending(b)  Q == Pending(b) \o <<Marker(k)>>
<1>1. \A i \in 1 .. Len(P) : P[i].kind = "event"
  BY PendingRot
<1>2. PICK S : P \in Seq(S)
  BY PendingRot
<1>3. /\ Len(P) \in Nat /\ Len(Q) = Len(P) + 1 /\ Q[Len(P) + 1] = Marker(k)
      /\ \A i \in 1 .. Len(P) : Q[i] = P[i]
  BY <1>2
<1>4. Marker(k).kind = k
  BY DEF Marker
<1>5. P \o <<>> = P
  BY <1>2
<1> HIDE DEF P, Q
<1>6. \A i \in 1 .. Len(Q) : i = Len(P) + 1 \/ Q[i].kind = "event"
  BY <1>1, <1>3
<1>7. k # "close" => NoClose(Q)
  BY <1>3, <1>4, <1>6 DEF NoClose
<1>8. CloseLast(Q)
  BY <1>3, <1>6 DEF CloseLast
<1>9. NoClose(P)
  BY <1>1 DEF NoClose
<1> QED
  BY <1>5, <1>7, <1>8, <1>9 DEF P, Q

\* A step of anybody but the close and the worker.
LEMMA ClosedKept ==
    ASSUME Typed, Closed, UNCHANGED <<closer, cut, sealed, chan, open, spoilt, disk>>,
           \/ out' = out
           \/ \E p \in Senders : \E es : p # "close" /\ NoClose(es) /\ out' = [out EXCEPT ![p] = es]
    PROVE  Closed'
<1>0. out \in [Senders -> Seq(Entries)] /\ "close" \in Senders
  BY SenderKinds DEF Typed, TypeOK
<1>1. out'["close"] = out["close"]
  BY <1>0
<1>2. OneCloser'
  <2>1. ASSUME NEW p \in Senders, p # "close" PROVE NoClose(out'[p])
    BY <1>0, <2>1 DEF Closed, OneCloser
  <2> QED
    BY <1>1, <2>1 DEF Closed, OneCloser
<1>3. Kept' = Kept /\ Mailed' = Mailed /\ \A i : Ahead(i)' = Ahead(i)
  BY DEF Kept, Mailed, Ahead
<1>4. Unsent'
  BY DEF Closed, Unsent
<1>5. Owed' /\ Paid'
  BY <1>1, <1>3 DEF Closed, Owed, Paid
<1> QED
  BY <1>2, <1>4, <1>5 DEF Closed

\* The close takes the buffers: with nobody else sending, all that is left is
\* written, in the mailbox or with it.
LEMMA ClosedCall ==
    ASSUME Typed, Idle, Ledger, Closed, CloseCall
    PROVE  Closed'
<1> DEFINE es == Pending(buf) \o <<Marker("close")>>
<1>0. /\ out \in [Senders -> Seq(Entries)] /\ buf \in [Dirs -> Seq(Chunks)] /\ "close" \in Senders
      /\ next \in Nat
  BY SenderKinds DEF Typed, TypeOK
<1>1. /\ closer = "closing" /\ closer' = "sent" /\ out' = [out EXCEPT !["close"] = es]
      /\ cut' = IF \A p \in Senders : out[p] = <<>> THEN (1 .. next - 1) \ lost ELSE {}
      /\ UNCHANGED <<chan, open, spoilt, disk, sealed>>
  BY DEF CloseCall, Closing, Drain, fileVars
<1>2. CloseLast(es)
  BY DrainClose
<1>3. ChunksOf(es) = Buffered
  <2>1. Elems(buf["Output"]) \cap Elems(buf["Input"]) = {}
    BY DEF Ledger, Distinct
  <2>2. ChunksOf(es) = Elems(buf["Output"]) \cup Elems(buf["Input"])
    BY <1>0, <2>1, DrainedLedger
  <2> QED
    BY <2>2 DEF Buffered, Dirs
<1> HIDE DEF es
<1>4. out'["close"] = es /\ \A p \in Senders : p # "close" => out'[p] = out[p]
  BY <1>0, <1>1
<1>5. OneCloser'
  BY <1>2, <1>4 DEF Closed, OneCloser
<1>6. Unsent'
  BY <1>1 DEF Unsent
<1>7. ~sealed /\ NoClose(chan)
  BY <1>1 DEF Closed, Unsent
<1>8. Paid'
  BY <1>1, <1>7 DEF Paid
<1>9. cut' \subseteq Kept \cup Mailed \cup Buffered
  <2>1. CASE \A p \in Senders : out[p] = <<>>
    <3>1. Held = {}
      BY <2>1, ChunksNone DEF Held
    <3>2. Split(Buffered, Held, Mailed, Kept, lost, 1 .. next - 1)
      BY DEF Ledger
    <3>3. cut' = (1 .. next - 1) \ lost
      BY <1>1, <2>1
    <3> QED
      BY <3>1, <3>2, <3>3 DEF Split
  <2>2. CASE ~(\A p \in Senders : out[p] = <<>>)
    BY <1>1, <2>2
  <2> QED
    BY <2>1, <2>2
<1>10. Owed'
  <2>1. Kept' = Kept /\ Mailed' = Mailed
    BY <1>1 DEF Kept, Mailed
  <2>2. \A i \in 1 .. Len(chan') : chan'[i].kind # "close"
    BY <1>1, <1>7 DEF NoClose
  <2> QED
    BY <1>1, <1>3, <1>4, <1>7, <1>9, <2>1, <2>2 DEF Closed, Owed
<1> QED
  BY <1>5, <1>6, <1>8, <1>10 DEF Closed

\* A sender's head goes to the mailbox; when it is the Close, the close has
\* nothing else left.
LEMMA ClosedSend ==
    ASSUME Typed, Ledger, Idle, Closed, NEW p \in Senders, Send(p)
    PROVE  Closed'
<1> DEFINE n == Len(chan)  h == Head(out[p])
<1>0. /\ out \in [Senders -> Seq(Entries)] /\ out[p] \in Seq(Entries) /\ out[p] # <<>>
      /\ out' = [out EXCEPT ![p] = Tail(out[p])] /\ chan' = Append(chan, h)
      /\ h \in Entries /\ chan \in Seq(Entries) /\ "close" \in Senders
      /\ UNCHANGED <<closer, cut, sealed, open, spoilt, disk>> /\ ~sealed
  BY SenderKinds DEF Typed, TypeOK, Send, dartVars, fileVars
<1>1. /\ n \in Nat /\ Len(chan') = n + 1 /\ chan'[n + 1] = h /\ \A i \in 1 .. n : chan'[i] = chan[i]
  BY <1>0, AppendProperties
<1>2. /\ Len(out[p]) \in Nat \ {0} /\ Len(Tail(out[p])) = Len(out[p]) - 1 /\ h = out[p][1]
      /\ \A i \in 1 .. Len(out[p]) - 1 : Tail(out[p])[i] = out[p][i + 1]
  BY <1>0, HeadTailProperties
<1>3. /\ Apart(out[p]) /\ Apart(chan)
      /\ Inside(h) \cap Mailed = {}
      /\ ChunksOf(out[p]) = Inside(h) \cup ChunksOf(Tail(out[p]))
  <2>1. Apart(out[p]) /\ Apart(chan)
    BY DEF Ledger, Distinct
  <2>2. ChunksOf(out[p]) = Inside(h) \cup ChunksOf(Tail(out[p]))
    BY <1>0, <2>1, TailLedger
  <2>3. ChunksOf(out[p]) \cap Mailed = {}
    BY DEF Ledger, Split, Held
  <2> QED
    BY <2>1, <2>2, <2>3
<1>4. Mailed' = Mailed \cup Inside(h)
  BY <1>0, <1>3, AppendLedger DEF Mailed
<1>5. \A i \in 1 .. n + 1 : Ahead(i)' = Ahead(i)
  <2>1. ASSUME NEW i \in 1 .. n + 1 PROVE Ahead(i)' = Ahead(i)
    <3>1. \A j \in 1 .. i - 1 : chan'[j] = chan[j]
      BY <1>1, <2>1
    <3> QED
      BY <3>1 DEF Ahead
  <2> QED
    BY <2>1
<1>6. Kept' = Kept
  BY <1>0 DEF Kept
<1>7. Ahead(n + 1) = Mailed
  <2>1. Ahead(n + 1) = UNION {Inside(chan[j]) : j \in 1 .. n}
    BY <1>1 DEF Ahead
  <2> QED
    BY <2>1, ChunksUnion DEF Mailed
<1>8. \A q \in Senders : out'[q] = IF q = p THEN Tail(out[p]) ELSE out[q]
  BY <1>0
<1> HIDE DEF h, n
<1>9. ASSUME h.kind = "close" PROVE p = "close" /\ Tail(out[p]) = <<>>
  <2>1. 1 \in 1 .. Len(out[p])
    BY <1>2
  <2>2. p = "close"
    BY <1>2, <1>9, <2>1 DEF Closed, OneCloser, NoClose
  <2>3. Len(out[p]) = 1
    BY <1>2, <1>9, <2>1, <2>2 DEF Closed, OneCloser, CloseLast
  <2>4. Tail(out[p]) \in Seq(Entries) /\ Len(Tail(out[p])) = 0
    BY <1>0, <1>2, <2>3
  <2>5. Tail(out[p]) = <<>>
    BY <2>4, EmptySeq
  <2> QED
    BY <2>2, <2>5
<1>10. OneCloser'
  <2>1. ASSUME NEW q \in Senders, q # "close" PROVE NoClose(out'[q])
    <3>1. NoClose(out[q])
      BY <2>1 DEF Closed, OneCloser
    <3>2. CASE q # p
      BY <1>8, <3>1, <3>2
    <3>3. CASE q = p
      <4>1. \A i \in 1 .. Len(out[p]) - 1 : i + 1 \in 1 .. Len(out[p])
        BY <1>2
      <4>2. NoClose(Tail(out[p]))
        BY <1>2, <3>1, <3>3, <4>1 DEF NoClose
      <4> QED
        BY <1>8, <3>3, <4>2
    <3> QED
      BY <3>2, <3>3
  <2>2. CloseLast(out'["close"])
    <3>1. CloseLast(out["close"])
      BY DEF Closed, OneCloser
    <3>2. CASE p # "close"
      BY <1>0, <1>8, <3>1, <3>2
    <3>3. CASE p = "close"
      BY <1>0, <1>2, <1>8, <3>1, <3>3 DEF CloseLast
    <3> QED
      BY <3>2, <3>3
  <2> QED
    BY <2>1, <2>2 DEF OneCloser
<1>11. Unsent'
  <2>1. ASSUME closer # "sent" PROVE NoClose(chan')
    <3>1. NoClose(chan)
      BY <2>1 DEF Closed, Unsent
    <3>2. h.kind # "close"
      BY <1>0, <1>9, <2>1 DEF Idle
    <3> QED
      BY <1>1, <3>1, <3>2 DEF NoClose, n
  <2> QED
    BY <1>0, <2>1 DEF Closed, Unsent
<1>12. Paid'
  BY <1>0 DEF Paid
<1>13. ASSUME spoilt = {} PROVE Owed'
  <2>1. /\ open /\ cut \subseteq Kept \cup Mailed \cup ChunksOf(out["close"])
        /\ \A i \in 1 .. n : chan[i].kind = "close" => cut \subseteq Kept \cup Ahead(i)
    BY <1>0, <1>13 DEF Closed, Owed, n
  <2>2. cut \subseteq Kept \cup Mailed' \cup ChunksOf(out'["close"])
    BY <1>0, <1>3, <1>4, <1>8, <2>1
  <2>3. ASSUME NEW i \in 1 .. Len(chan'), chan'[i].kind = "close"
        PROVE  cut \subseteq Kept \cup Ahead(i)'
    <3>1. CASE i \in 1 .. n
      BY <1>1, <1>5, <2>1, <2>3, <3>1
    <3>2. CASE i = n + 1
      <4>1. p = "close" /\ ChunksOf(Tail(out[p])) = {} /\ Inside(h) = {}
        BY <1>0, <1>1, <1>9, <2>3, <3>2, ChunksNone, MarkerEmpty
      <4>2. cut \subseteq Kept \cup Mailed
        BY <1>3, <2>1, <4>1
      <4>3. Ahead(i)' = Mailed
        BY <1>1, <1>5, <1>7, <3>2
      <4> QED
        BY <4>2, <4>3
    <3> QED
      BY <1>1, <2>3, <3>1, <3>2
  <2> QED
    BY <1>0, <1>6, <2>1, <2>2, <2>3 DEF Owed
<1>14. ASSUME spoilt # {} PROVE Owed'
  BY <1>0, <1>14 DEF Owed
<1> QED
  BY <1>10, <1>11, <1>12, <1>13, <1>14 DEF Closed

\* The file gains a frame.
LEMMA KeptGrows ==
    ASSUME Typed, NEW e, disk' = Append(disk, Written(e))
    PROVE  Kept' = Kept \cup Inside(e)
<1> DEFINE n == Len(disk)
<1>1. disk \in Seq([file : Nat, frame : Nat, entry : Entries])
  BY DEF Typed, TypeOK
<1>2. /\ n \in Nat /\ Len(disk') = n + 1 /\ disk'[n + 1] = Written(e)
      /\ \A i \in 1 .. n : disk'[i] = disk[i]
  BY <1>1
<1>3. Written(e).entry = e
  BY DEF Written
<1>4. /\ \A i \in 1 .. n + 1 : i = n + 1 \/ i \in 1 .. n
      /\ \A i \in 1 .. n : i \in 1 .. n + 1
      /\ n + 1 \in 1 .. n + 1
  BY <1>2
<1>5. Kept = UNION {Inside(disk[i].entry) : i \in 1 .. n}
  BY DEF Kept
<1>6. Kept' = UNION {Inside(disk'[i].entry) : i \in 1 .. n + 1}
  BY <1>2 DEF Kept
<1> HIDE DEF n
<1> QED
  BY <1>2, <1>3, <1>4, <1>5, <1>6

\* The worker takes an entry that is not the Close.
LEMMA ClosedTake ==
    ASSUME Typed, Ledger, Closed, ~sealed, chan # <<>>, Head(chan).kind # "close",
           chan' = Tail(chan), UNCHANGED <<closer, cut, sealed, out>>,
           spoilt' = {} => /\ spoilt = {} /\ (open => open')
                           /\ open => Kept' = Kept \cup Inside(Head(chan))
    PROVE  Closed'
<1> DEFINE n == Len(chan)  h == Inside(Head(chan))
<1>0. chan \in Seq(Entries)
  BY DEF Typed, TypeOK
<1>1. /\ n \in Nat \ {0} /\ Len(chan') = n - 1 /\ Head(chan) = chan[1]
      /\ \A i \in 1 .. n - 1 : chan'[i] = chan[i + 1]
  BY <1>0, HeadTailProperties
<1>2. Mailed = h \cup Mailed'
  <2>1. Apart(chan)
    BY DEF Ledger, Distinct
  <2> QED
    BY <1>0, <2>1, TailLedger DEF Mailed
<1>3. OneCloser'
  BY DEF Closed, OneCloser
<1>4. Paid'
  BY DEF Paid
<1>5. \A i \in 1 .. n - 1 : i + 1 \in 1 .. n
  BY <1>1
<1>6. Unsent'
  <2>1. NoClose(chan) => NoClose(chan')
    <3> HIDE DEF n, h
    <3> QED
      BY <1>1, <1>5 DEF NoClose, n
  <2> QED
    BY <2>1 DEF Closed, Unsent
<1>7. \A i \in 1 .. n - 1 : Ahead(i + 1) = h \cup Ahead(i)'
  <2>1. ASSUME NEW i \in 1 .. n - 1 PROVE Ahead(i + 1) = h \cup Ahead(i)'
    <3>1. Ahead(i + 1) = UNION {Inside(chan[j]) : j \in 1 .. i}
      BY <1>1, <2>1 DEF Ahead
    <3>2. Ahead(i)' = UNION {Inside(chan'[j]) : j \in 1 .. i - 1}
      BY DEF Ahead
    <3>3. \A j \in 1 .. i - 1 : chan'[j] = chan[j + 1] /\ j + 1 \in 1 .. i
      BY <1>1, <2>1
    <3>4. \A j \in 1 .. i : j = 1 \/ (j - 1 \in 1 .. i - 1 /\ chan'[j - 1] = chan[j])
      <4>1. ASSUME NEW j \in 1 .. i, j # 1 PROVE j - 1 \in 1 .. i - 1 /\ chan'[j - 1] = chan[j]
        <5>1. j - 1 \in 1 .. i - 1 /\ (j - 1) + 1 = j
          BY <1>1, <2>1, <4>1
        <5> QED
          BY <3>3, <5>1
      <4> QED
        BY <4>1
    <3>5. 1 \in 1 .. i /\ h = Inside(chan[1])
      BY <1>1, <2>1
    <3> HIDE DEF n, h
    <3>6. ASSUME NEW c \in Ahead(i + 1) PROVE c \in h \cup Ahead(i)'
      <4>1. PICK j \in 1 .. i : c \in Inside(chan[j])
        BY <3>1, <3>6
      <4>2. CASE j = 1
        BY <3>5, <4>1, <4>2
      <4>3. CASE j - 1 \in 1 .. i - 1 /\ chan'[j - 1] = chan[j]
        BY <3>2, <4>1, <4>3
      <4> QED
        BY <3>4, <4>2, <4>3
    <3>7. ASSUME NEW c \in h \cup Ahead(i)' PROVE c \in Ahead(i + 1)
      <4>1. CASE c \in h
        BY <3>1, <3>5, <4>1
      <4>2. CASE c \in Ahead(i)'
        BY <3>1, <3>2, <3>3, <4>2
      <4> QED
        BY <3>7, <4>1, <4>2
    <3> QED
      BY <3>6, <3>7
  <2> QED
    BY <2>1
<1> HIDE DEF n, h
<1>8. ASSUME spoilt' = {} PROVE Owed'
  <2>1. /\ open' /\ Kept' = Kept \cup h
        /\ cut \subseteq Kept \cup Mailed \cup ChunksOf(out["close"])
        /\ \A i \in 1 .. n : chan[i].kind = "close" => cut \subseteq Kept \cup Ahead(i)
    BY <1>8 DEF Closed, Owed, n, h
  <2>2. cut \subseteq Kept' \cup Mailed' \cup ChunksOf(out["close"])
    BY <1>2, <2>1
  <2>3. ASSUME NEW i \in 1 .. n - 1, chan'[i].kind = "close"
        PROVE  cut \subseteq Kept' \cup Ahead(i)'
    <3>1. cut \subseteq Kept \cup Ahead(i + 1)
      BY <1>1, <1>5, <2>1, <2>3
    <3>2. Ahead(i + 1) = h \cup Ahead(i)'
      BY <1>7
    <3> QED
      BY <2>1, <3>1, <3>2
  <2> QED
    BY <1>1, <2>1, <2>2, <2>3 DEF Owed
<1>9. ASSUME spoilt' # {} PROVE Owed'
  BY <1>9 DEF Owed
<1> QED
  BY <1>3, <1>4, <1>6, <1>8, <1>9 DEF Closed

\* Everything the close owes reaches the file ahead of the Close.
LEMMA ClosedStep ==
    Typed /\ Idle /\ Ledger /\ Closed /\ [Next]_vars => Closed'
<1> SUFFICES ASSUME Typed, Idle, Ledger, Closed, [Next]_vars PROVE Closed'
  OBVIOUS
<1>1. ASSUME NEW c \in Callers, Tee(c) \/ TeeRefused(c) PROVE Closed'
  BY <1>1, ClosedKept DEF Tee, TeeRefused, dartVars, fileVars
<1>2. ASSUME NEW c \in Callers, Chunk(c) PROVE Closed'
  <2>1. UNCHANGED <<closer, cut, sealed, chan, open, spoilt, disk>>
    BY <1>2 DEF Chunk, dartVars, fileVars
  <2>2. CASE Buffer(c)
    BY <2>1, <2>2, ClosedKept DEF Buffer
  <2>3. CASE Overrun(c)
    <3>1. PICK es : NoClose(es) /\ out' = [out EXCEPT ![c] = es]
      BY <2>3, DrainClose DEF Overrun, Drain
    <3>2. c \in Senders /\ c # "close"
      BY SenderKinds
    <3> QED
      BY <2>1, <3>1, <3>2, ClosedKept
  <2> QED
    BY <1>2, <2>2, <2>3 DEF Chunk
<1>3. ASSUME NEW t \in Timers, TimerStep(t) PROVE Closed'
  <2>1. /\ UNCHANGED <<closer, cut, sealed, chan, open, spoilt, disk>>
        /\ \/ out' = out \/ out' = [out EXCEPT ![t] = Pending(buf)]
           \/ out' = [out EXCEPT ![t] = <<>>]
    BY <1>3 DEF TimerStep, TimerFires, TimerDrains, TimerCancelled, dartVars, fileVars
  <2>2. NoClose(Pending(buf)) /\ NoClose(<<>>)
    <3>1. NoClose(<<>>)
      BY DEF NoClose
    <3> QED
      BY <3>1, DrainClose
  <2>3. t \in Senders /\ t # "close"
    BY SenderKinds
  <2> QED
    BY <2>1, <2>2, <2>3, ClosedKept
<1>4. ASSUME NEW r \in Rotors, RotorStep(r) PROVE Closed'
  <2>1. /\ UNCHANGED <<closer, cut, sealed, chan, open, spoilt, disk>>
        /\ \/ out' = out
           \/ out' = [out EXCEPT ![r] = Pending(buf) \o <<Marker("rotate")>>]
           \/ out' = [out EXCEPT ![r] = Pending(buf) \o <<Marker("header")>>]
    BY <1>4 DEF RotorStep, RotateHeard, RotateCall, RotateEnds, Drain, fileVars
  <2>2. NoClose(Pending(buf) \o <<Marker("rotate")>>) /\ NoClose(Pending(buf) \o <<Marker("header")>>)
    BY DrainClose
  <2>3. r \in Senders /\ r # "close"
    BY SenderKinds
  <2> QED
    BY <2>1, <2>2, <2>3, ClosedKept
<1>5. ASSUME NEW p \in Senders, SendFails(p) PROVE Closed'
  <2>1. /\ UNCHANGED <<closer, cut, sealed, chan, open, spoilt, disk>> /\ sealed
        /\ out' = [out EXCEPT ![p] = <<>>] /\ NoClose(<<>>)
    BY <1>5 DEF SendFails, fileVars, NoClose
  <2>2. CASE p # "close"
    BY <2>1, <2>2, ClosedKept
  <2>3. CASE p = "close"
    <3>1. out'["close"] = <<>> /\ \A q \in Senders : q # "close" => out'[q] = out[q]
      BY <2>1, <2>3 DEF Typed, TypeOK
    <3>2. OneCloser'
      BY <3>1 DEF Closed, OneCloser, CloseLast
    <3>3. Unsent' /\ Paid' /\ Owed'
      BY <2>1 DEF Closed, Unsent, Paid, Owed, Kept
    <3> QED
      BY <3>2, <3>3 DEF Closed
  <2> QED
    BY <2>2, <2>3
<1>6. CASE StopRecording
  <2>1. /\ closer = "open" /\ UNCHANGED <<cut, sealed, chan, open, spoilt, disk, out>>
    BY <1>6 DEF StopRecording, fileVars
  <2>2. Kept' = Kept /\ Mailed' = Mailed /\ \A i : Ahead(i)' = Ahead(i)
    BY <2>1 DEF Kept, Mailed, Ahead
  <2> QED
    BY <2>1, <2>2 DEF Closed, Unsent, OneCloser, Owed, Paid
<1>7. ASSUME WorkHeader \/ WorkEvent PROVE Closed'
  <2>1. /\ ~sealed /\ chan # <<>> /\ chan' = Tail(chan) /\ UNCHANGED <<closer, cut, sealed, out>>
        /\ Head(chan).kind # "close"
        /\ WriteFrame(Head(chan)) \/ WriteFails(Head(chan))
    BY <1>7 DEF WorkHeader, WorkEvent, Receive, dartVars
  <2>2. spoilt' = {} => /\ spoilt = {} /\ (open => open')
                        /\ open => Kept' = Kept \cup Inside(Head(chan))
    <3>1. CASE WriteFrame(Head(chan))
      BY <3>1, KeptGrows DEF WriteFrame
    <3>2. CASE WriteFails(Head(chan))
      BY <3>2 DEF WriteFails
    <3> QED
      BY <2>1, <3>1, <3>2
  <2> QED
    BY <2>1, <2>2, ClosedTake
<1>8. CASE WorkRotate
  <2>1. /\ ~sealed /\ chan # <<>> /\ chan' = Tail(chan) /\ UNCHANGED <<closer, cut, sealed, out>>
        /\ Head(chan).kind = "rotate" /\ disk' = disk
    BY <1>8 DEF WorkRotate, Receive, dartVars
  <2>2. Head(chan) \in Entries
    BY <2>1 DEF Typed, TypeOK
  <2>3. Kept' = Kept \cup Inside(Head(chan))
    BY <2>1, <2>2, MarkerEmpty DEF Kept
  <2>4. spoilt' = {} => /\ spoilt = {} /\ (open => open')
                        /\ open => Kept' = Kept \cup Inside(Head(chan))
    BY <1>8, <2>3 DEF WorkRotate
  <2> QED
    BY <2>1, <2>4, ClosedTake
<1>9. CASE WorkClose
  <2>1. /\ chan \in Seq(Entries) /\ chan # <<>> /\ Head(chan).kind = "close" /\ ~sealed
        /\ sealed' = TRUE /\ chan' = <<>> /\ UNCHANGED <<closer, cut, out, disk, spoilt>>
    BY <1>9 DEF Typed, TypeOK, WorkClose, dartVars
  <2>2. 1 \in 1 .. Len(chan) /\ chan[1] = Head(chan)
    BY <2>1
  <2>3. Ahead(1) = {} /\ Kept' = Kept
    BY <2>1 DEF Ahead, Kept
  <2>4. Paid'
    BY <2>1, <2>2, <2>3 DEF Closed, Owed, Paid
  <2>5. closer = "sent"
    BY <2>1, <2>2 DEF Closed, Unsent, NoClose
  <2> QED
    BY <2>1, <2>4, <2>5 DEF Closed, Unsent, OneCloser, Owed
<1>10. CASE UNCHANGED vars
  BY <1>10, ClosedKept DEF vars, dartVars, fileVars
<1> QED
  BY <1>1, <1>2, <1>3, <1>4, <1>5, <1>6, <1>7, <1>8, <1>9, <1>10, ClosedSend, ClosedCall
  DEF Next, CallStep, SendStep, Work

\* No close at first.
LEMMA ClosedInit == Init => Closed
<1> SUFFICES ASSUME Init PROVE Closed
  OBVIOUS
<1>1. /\ \A p \in Senders : out[p] = <<>>
      /\ chan = <<Marker("header")>> /\ cut = {} /\ ~sealed /\ open
  BY DEF Init
<1>2. NoClose(chan) /\ NoClose(<<>>) /\ CloseLast(<<>>)
  BY <1>1 DEF NoClose, CloseLast, Marker
<1>3. OneCloser
  BY <1>1, <1>2, SenderKinds DEF OneCloser
<1> QED
  BY <1>1, <1>2, <1>3 DEF Closed, Unsent, Owed, Paid

\* A close that no other sender crosses has every byte that was recorded, and
\* not lost before it, in the file it seals, unless a write or the opening of
\* a file failed.
THEOREM CloseWritesAll == Spec => []CloseKeeps
<1>1. ASSUME Closed PROVE CloseKeeps
  <2>1. ASSUME NEW c \in Kept PROVE OnDisk(c)
    <3>1. PICK i \in 1 .. Len(disk) : c \in Inside(disk[i].entry)
      BY <2>1 DEF Kept
    <3> QED
      BY <3>1, ChunksOne DEF OnDisk
  <2> QED
    BY <1>1, <2>1 DEF Closed, Paid, CloseKeeps
<1> QED
  BY <1>1, TypedInit, TypedStep, ArmedInit, ArmedStep, RotatingInit, RotatingStep,
     LedgerInit, IdleStep, LedgerStep, ClosedInit, ClosedStep, PTL DEF Spec

=============================================================================
