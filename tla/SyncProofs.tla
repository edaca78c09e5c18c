----------------------------- MODULE SyncProofs -----------------------------
(***************************************************************************)
(* Proofs about Sync, for any number of devices, rows, pushes, crashes and *)
(* verbs in flight: type correctness, that an archive a device skips has   *)
(* been taken in, and that a conditional push keeps what peers put on the  *)
(* server.                                                                 *)
(***************************************************************************)
EXTENDS Sync, TLAPS

(* The inductive invariant.                                                *)

Stamps(c) == {c.pushEtag, c.pushSha, c.pullEtag, c.pullSha}

\* Some configuration of d, present, past or at work in a verb, names n.
Names(h, v, n) == \/ \E c \in h : n \in Stamps(c)
                  \/ \E s \in Slots : n \in Stamps(v[s].cfg)
Knows(d, n) == Names(had[d], verb[d], n)

\* Some configuration of d says that d has put the archive n on the server.
PushStamps(c) == {c.pushEtag, c.pushSha}
PutNames(h, v, n) == \/ \E c \in h : n \in PushStamps(c)
                     \/ \E s \in Slots : n \in PushStamps(v[s].cfg)
HasPut(d, n) == PutNames(had[d], verb[d], n)

FoldedOn(R, mine, theirs) == \A r \in R : Folded(mine[r], theirs[r])
FoldedAll(mine, theirs) == FoldedOn(Row, mine, theirs)

By(rs, t) == \A r \in Row : rs[r].ts <= t /\ rs[r].del <= t

\* No row carries a stamp of the future.
StampsPast ==
    /\ By(remote.rows, now)
    /\ \A d \in Device : By(rows[d], now)
    /\ \A d \in Device, s \in Slots : By(verb[d][s].arch.rows, now)

\* No archive or configuration names an archive not yet composed; the page and
\* the store hold configurations that have been written; process numbers grow.
Bounded ==
    /\ remote.sha <= serial
    /\ \A d \in Device, s \in Slots : verb[d][s].arch.sha <= serial
    /\ \A d \in Device, n \in Serials : Knows(d, n) => n <= serial
    /\ \A d \in Device : /\ cfg[d] \in had[d] /\ page[d].cfg \in had[d]
                         /\ proc[d] <= upsets
                         /\ remote.origin.dev = d => remote.origin.run <= proc[d]

\* An archive about to be put is new to everyone and carries its origin.
PutIsNew ==
    \A d \in Device, s \in Slots : verb[d][s].pc = "put" =>
        LET a == verb[d][s].arch IN
        /\ a.sha # 0
        /\ a.sha # remote.sha
        /\ a.origin = [dev |-> d, run |-> proc[d]]
        /\ \A e \in Device : ~Knows(e, a.sha)
        /\ \A e \in Device, u \in Slots : verb[e][u].arch.sha = a.sha => e = d /\ u = s

MergesRemote ==
    \A d \in Device, s \in Slots :
        verb[d][s].pc = "merge" /\ verb[d][s].arch.sha = remote.sha => verb[d][s].arch = remote

Alone(d) == \A s, u \in Slots : verb[d][s].pc # "idle" /\ verb[d][u].pc # "idle" => s = u

\* The archive on the server is one d takes for its own state.
Claims(d) == remote.sha # 0 /\ (Knows(d, remote.sha) \/ own_origin(d, remote))

\* It is one d has put there.
Owns(d) == remote.sha # 0 /\ (HasPut(d, remote.sha) \/ own_origin(d, remote))

Claimed ==
    \A d \in Device \ crossed :
        /\ Claims(d) => FoldedOn(Row \ missed[d], rows[d], remote.rows)
        /\ Owns(d) => FoldedAll(rows[d], remote.rows)

PutHolds ==
    \A d \in Device \ crossed, s \in Slots : verb[d][s].pc = "put" =>
        /\ FoldedAll(rows[d], verb[d][s].arch.rows)
        /\ verb[d][s].cfg.pushEtag = remote.sha /\ remote.sha # 0
             => FoldedAll(verb[d][s].arch.rows, remote.rows)

\* A pull whose archive has been replaced on the server knows nothing of the
\* new one, so it cannot undo what the device claims to have taken in.
MergeHolds ==
    \A d \in Device \ crossed, s \in Slots :
        verb[d][s].pc = "merge" /\ verb[d][s].arch.sha # remote.sha => ~Claims(d)

IInv ==
    /\ TypeOK
    /\ StampsPast
    /\ Bounded
    /\ PutIsNew
    /\ MergesRemote
    /\ \A d \in Device \ crossed : Alone(d)
    /\ Claimed
    /\ PutHolds
    /\ MergeHolds
-----------------------------------------------------------------------------
(* Types.                                                                  *)

Verbs == [pc : {"idle", "put", "merge", "persist"},
          cfg : SyncConfigs, arch : Archives, shown : BOOLEAN]

\* The constants of the model are of their types.
LEMMA ConstantTypes ==
    /\ NoRow \in RowStates
    /\ NoArchive \in Archives
    /\ Fresh \in SyncConfigs
    /\ NoVerb \in Verbs
<1>1. NoRow \in RowStates
  BY SyncAssumption DEF NoRow, RowStates
<1>2. NoArchive \in Archives
  BY <1>1, SyncAssumption DEF NoArchive, Archives, Serials
<1>3. Fresh \in SyncConfigs
  BY SyncAssumption DEF Fresh, SyncConfigs, Serials
<1>4. NoVerb \in Verbs
  BY <1>2, <1>3 DEF NoVerb, Verbs
<1>. QED
  BY <1>1, <1>2, <1>3, <1>4

\* Merging keeps rows of their type.
LEMMA MergeType ==
    ASSUME NEW mine \in [Row -> RowStates], NEW theirs \in [Row -> RowStates], NEW failing
    PROVE  merge_pending_into_local(mine, theirs, failing) \in [Row -> RowStates]
<1>. SUFFICES ASSUME NEW r \in Row
              PROVE  apply_one(r, mine[r], theirs[r]) \in RowStates
  BY DEF merge_pending_into_local
<1>. DEFINE l == mine[r]
            p == theirs[r]
<1>1. l \in RowStates /\ p \in RowStates
  OBVIOUS
<1>. HIDE DEF l, p
<1>2. apply_tombstone(r, l, p) \in RowStates
  BY <1>1 DEF apply_tombstone, RowStates
<1>. SUFFICES apply_one(r, l, p) \in RowStates
  BY DEF l, p
<1>. QED
  BY <1>1, <1>2 DEF apply_one

\* The stamps a verb writes are serial numbers.
LEMMA StampTypes ==
    ASSUME NEW c \in SyncConfigs, NEW a \in Archives, etags \in BOOLEAN
    PROVE  Pushed(c, a) \in SyncConfigs /\ Pulled(c, a) \in SyncConfigs
<1>1. a.sha \in Serials /\ 0 \in Serials
  BY SyncAssumption DEF Archives, Serials
<1>2. (IF etags THEN a.sha ELSE 0) \in Serials
  BY <1>1
<1>3. Pushed(c, a) \in SyncConfigs
  BY <1>1, <1>2 DEF Pushed, SyncConfigs
<1>4. Pulled(c, a) \in SyncConfigs
  BY <1>1 DEF Pulled, SyncConfigs
<1>. QED
  BY <1>3, <1>4

\* What the helpers of the verbs do to one verb and to the page.
Becomes(d, s, v) ==
    /\ verb' \in [Device -> [Slots -> Verbs]]
    /\ \A e \in Device, u \in Slots :
         verb'[e][u] = IF e = d /\ u = s THEN v ELSE verb[e][u]

\* Writing one verb changes that verb and no other.
LEMMA UpdateBecomes ==
    ASSUME verb \in [Device -> [Slots -> Verbs]],
           NEW d \in Device, NEW s \in Slots, NEW v \in Verbs,
           verb' = [verb EXCEPT ![d][s] = v]
    PROVE  Becomes(d, s, v)
  BY DEF Becomes

\* The verbs are of their type.
LEMMA VerbTyped == TypeOK => verb \in [Device -> [Slots -> Verbs]]
  BY DEF TypeOK, Verbs

\* Start (push and pull of sync_provider.dart) puts one verb in flight and
\* leaves what the page shows.
LEMMA StartBecomes ==
    ASSUME TypeOK, NEW d \in Device, NEW s \in Slots, NEW pc \in {"put", "merge", "persist"},
           NEW c \in SyncConfigs, NEW a \in Archives, Start(d, s, pc, c, a)
    PROVE  /\ Becomes(d, s, [pc |-> pc, cfg |-> c, arch |-> a, shown |-> TRUE])
           /\ page' \in [Device -> [cfg : SyncConfigs, busy : BOOLEAN]]
           /\ \A e \in Device : page'[e].cfg = page[e].cfg
<1>1. [pc |-> pc, cfg |-> c, arch |-> a, shown |-> TRUE] \in Verbs
  BY DEF Verbs
<1>2. Becomes(d, s, [pc |-> pc, cfg |-> c, arch |-> a, shown |-> TRUE])
  BY <1>1, VerbTyped, UpdateBecomes DEF Start
<1>3. page' = [page EXCEPT ![d].busy = TRUE]
  BY DEF Start
<1>. QED
  BY <1>2, <1>3 DEF TypeOK

\* A verb that goes on keeps the configuration it is given.
LEMMA GotoBecomes ==
    ASSUME TypeOK, NEW d \in Device, NEW s \in Slots, NEW pc \in {"put", "merge", "persist"},
           NEW c \in SyncConfigs, Goto(d, s, pc, c)
    PROVE  /\ Becomes(d, s, [pc |-> pc, cfg |-> c, arch |-> NoArchive, shown |-> verb[d][s].shown])
           /\ page' = page
<1>. DEFINE v == [pc |-> pc, cfg |-> c, arch |-> NoArchive, shown |-> verb[d][s].shown]
<1>1. verb \in [Device -> [Slots -> Verbs]]
  BY VerbTyped
<1>2. v \in Verbs
  BY <1>1, ConstantTypes DEF Verbs
<1>4. verb' = [verb EXCEPT ![d][s] = v]
  BY <1>1 DEF Goto
<1>. QED
  BY <1>1, <1>2, <1>4, UpdateBecomes DEF Goto

\* A verb that ends leaves its slot idle; the page may read the stored
\* configuration.
LEMMA FinishBecomes ==
    ASSUME TypeOK, NEW d \in Device, NEW s \in Slots, Finish(d, s),
           cfg' \in [Device -> SyncConfigs]
    PROVE  /\ Becomes(d, s, NoVerb)
           /\ page' \in [Device -> [cfg : SyncConfigs, busy : BOOLEAN]]
           /\ \A e \in Device : page'[e].cfg = page[e].cfg \/ page'[e].cfg = cfg'[e]
<1>1. Becomes(d, s, NoVerb)
  BY VerbTyped, ConstantTypes, UpdateBecomes DEF Finish
<1>2. page' = page \/ page' = [page EXCEPT ![d] = [cfg |-> cfg'[d], busy |-> FALSE]]
  BY DEF Finish
<1>3. page \in [Device -> [cfg : SyncConfigs, busy : BOOLEAN]]
  BY DEF TypeOK
<1>4. [cfg |-> cfg'[d], busy |-> FALSE] \in [cfg : SyncConfigs, busy : BOOLEAN]
  OBVIOUS
<1>5. CASE page' = page
  BY <1>1, <1>3, <1>5
<1>6. CASE page' = [page EXCEPT ![d] = [cfg |-> cfg'[d], busy |-> FALSE]]
  BY <1>1, <1>3, <1>4, <1>6
<1>. QED
  BY <1>2, <1>5, <1>6

\* The page and the crash touch every verb of a device at once.
LEMMA ResetTyped ==
    ASSUME TypeOK, NEW d \in Device, NEW f \in [Slots -> Verbs], verb' = [verb EXCEPT ![d] = f]
    PROVE  /\ verb' \in [Device -> [Slots -> Verbs]]
           /\ verb'[d] = f
           /\ \A e \in Device : e # d => verb'[e] = verb[e]
  BY VerbTyped

\* update_sync stores one device's configuration and remembers that it was
\* stored.
LEMMA StoreTyped ==
    ASSUME TypeOK, NEW d \in Device, NEW c \in SyncConfigs, update_sync(d, c)
    PROVE  /\ cfg' \in [Device -> SyncConfigs]
           /\ had' \in [Device -> SUBSET SyncConfigs]
           /\ cfg'[d] = c /\ had'[d] = had[d] \cup {c}
           /\ \A e \in Device : e # d => cfg'[e] = cfg[e] /\ had'[e] = had[e]
  BY DEF TypeOK, update_sync

\* The clock stays in its bound.
LEMMA TickType == TypeOK /\ Tick => now' \in 0..MaxTime /\ now' = now + 1
  BY SyncAssumption DEF TypeOK, Tick

\* The user's edits keep the types.
LEMMA EditTypes ==
    ASSUME TypeOK, etags' = etags, NEW d \in Device, NEW r \in Row,
           Create(d, r) \/ Edit(d, r) \/ Delete(d, r)
    PROVE  TypeOK'
<1>1. Tick /\ UNCHANGED <<serial, remote, storeVars, verb, page, proc, history>>
  BY DEF Create, Edit, Delete
<1>2. now' \in 0..MaxTime
  BY <1>1, TickType
<1>3. rows \in [Device -> [Row -> RowStates]]
  BY DEF TypeOK
<1>4. \E x \in RowStates : rows' = [rows EXCEPT ![d][r] = x]
  <2>1. CASE Create(d, r)
    <3>1. [ts |-> now', del |-> 0] \in RowStates
      BY <1>2, SyncAssumption DEF RowStates
    <3>. QED
      BY <2>1, <3>1 DEF Create
  <2>2. CASE Edit(d, r)
    <3>1. [rows[d][r] EXCEPT !.ts = now'] \in RowStates
      BY <1>2, <1>3 DEF RowStates
    <3>2. rows' = [rows EXCEPT ![d][r] = [rows[d][r] EXCEPT !.ts = now']]
      BY <2>2, <1>3 DEF Edit
    <3>. QED
      BY <3>1, <3>2
  <2>3. CASE Delete(d, r)
    <3>1. [rows[d][r] EXCEPT !.del = now'] \in RowStates
      BY <1>2, <1>3 DEF RowStates
    <3>2. rows' = [rows EXCEPT ![d][r] = [rows[d][r] EXCEPT !.del = now']]
      BY <2>3, <1>3 DEF Delete
    <3>. QED
      BY <3>1, <3>2
  <2>. QED
    BY <2>1, <2>2, <2>3
<1>5. rows' \in [Device -> [Row -> RowStates]]
  BY <1>3, <1>4
<1>. QED
  BY <1>1, <1>2, <1>5 DEF TypeOK, storeVars, history

\* So do the settings page and a crash.
LEMMA PageTypes ==
    ASSUME TypeOK, etags' = etags, NEW d \in Device, proc[d] <= upsets,
           SaveConfig(d) \/ ReopenPage(d) \/ Crash(d)
    PROVE  TypeOK'
<1>1. Upset /\ UNCHANGED <<now, serial, remote, rows, crossed, missed>>
  BY DEF SaveConfig, ReopenPage, Crash
<1>2. upsets' \in 0..MaxUpset /\ upsets' = upsets + 1
  BY <1>1, SyncAssumption DEF TypeOK, Upset
<1>3. CASE SaveConfig(d)
  <2>. DEFINE c == [page[d].cfg EXCEPT !.enabled = ~@]
  <2>1. c \in SyncConfigs
    BY DEF TypeOK, SyncConfigs
  <2>2. update_sync(d, c) /\ page' = [page EXCEPT ![d].cfg = c] /\ UNCHANGED <<verb, proc>>
    BY <1>3 DEF SaveConfig
  <2>. HIDE DEF c
  <2>3. page' \in [Device -> [cfg : SyncConfigs, busy : BOOLEAN]]
    BY <2>1, <2>2 DEF TypeOK
  <2>. QED
    BY <1>1, <1>2, <2>1, <2>2, <2>3, StoreTyped DEF TypeOK
<1>4. CASE ReopenPage(d)
  <2>1. [s \in Slots |-> [verb[d][s] EXCEPT !.shown = FALSE]] \in [Slots -> Verbs]
    <3>1. ASSUME NEW x \in Verbs
          PROVE  [x EXCEPT !.shown = FALSE] \in Verbs
      BY DEF Verbs
    <3>. QED
      BY <3>1, VerbTyped
  <2>2. verb' = [verb EXCEPT ![d] = [s \in Slots |-> [verb[d][s] EXCEPT !.shown = FALSE]]]
    BY <1>4, VerbTyped DEF ReopenPage
  <2>3. verb' \in [Device -> [Slots -> Verbs]]
    BY <2>1, <2>2, ResetTyped
  <2>4. page' = [page EXCEPT ![d] = [cfg |-> cfg[d], busy |-> FALSE]]
    BY <1>4 DEF ReopenPage
  <2>5. page' \in [Device -> [cfg : SyncConfigs, busy : BOOLEAN]]
    BY <2>4 DEF TypeOK
  <2>. QED
    BY <1>1, <1>2, <1>4, <2>3, <2>5 DEF TypeOK, Verbs, ReopenPage, storeVars
<1>5. CASE Crash(d)
  <2>1. PICK c \in had[d] : /\ cfg' = [cfg EXCEPT ![d] = c]
                            /\ page' = [page EXCEPT ![d] = [cfg |-> c, busy |-> FALSE]]
    BY <1>5 DEF Crash
  <2>2. c \in SyncConfigs
    BY DEF TypeOK
  <2>3. /\ cfg' \in [Device -> SyncConfigs]
        /\ page' \in [Device -> [cfg : SyncConfigs, busy : BOOLEAN]]
    BY <2>1, <2>2 DEF TypeOK
  <2>4. [s \in Slots |-> NoVerb] \in [Slots -> Verbs]
    BY ConstantTypes
  <2>5. verb' \in [Device -> [Slots -> Verbs]]
    BY <1>5, <2>4, ResetTyped DEF Crash
  <2>6. proc' \in [Device -> 0..MaxUpset]
    BY <1>2, <1>5, SyncAssumption DEF Crash, TypeOK
  <2>. QED
    BY <1>1, <1>2, <1>5, <2>3, <2>5, <2>6 DEF TypeOK, Verbs, Crash
<1>. QED
  BY <1>3, <1>4, <1>5

\* So do the verbs.
LEMMA BeginPushTypes ==
    ASSUME TypeOK, etags' = etags, NEW d \in Device, NEW s \in Slots, BeginPush(d, s)
    PROVE  TypeOK'
<1>. DEFINE a == [sha |-> serial + 1, origin |-> [dev |-> d, run |-> proc[d]], rows |-> rows[d]]
<1>1. serial' = serial + 1 /\ serial' \in Serials
  BY SyncAssumption DEF BeginPush, TypeOK, Serials
<1>2. a \in Archives
  <2>1. [dev |-> d, run |-> proc[d]] \in Processes
    BY DEF TypeOK, Processes
  <2>. QED
    BY <1>1, <2>1 DEF TypeOK, Archives
<1>3. Start(d, s, "put", cfg[d], a) /\ Begin(d, s)
  BY DEF BeginPush
<1>. HIDE DEF a
<1>4. /\ verb' \in [Device -> [Slots -> Verbs]]
      /\ page' \in [Device -> [cfg : SyncConfigs, busy : BOOLEAN]]
  BY <1>2, <1>3, StartBecomes DEF Becomes, TypeOK
<1>5. crossed' \subseteq Device /\ UNCHANGED <<now, remote, rows, storeVars, proc, upsets, missed>>
  BY <1>3 DEF Begin, TypeOK
<1>. QED
  BY <1>1, <1>4, <1>5 DEF TypeOK, Verbs, storeVars

\* The pull keeps the types.
LEMMA GetTypes ==
    ASSUME TypeOK, etags' = etags, NEW d \in Device, NEW s \in Slots, Get(d, s)
    PROVE  TypeOK'
<1>1. /\ verb' \in [Device -> [Slots -> Verbs]]
      /\ page' \in [Device -> [cfg : SyncConfigs, busy : BOOLEAN]]
  <2>1. \/ Start(d, s, "persist", Pulled(cfg[d], remote), NoArchive)
        \/ Start(d, s, "merge", cfg[d], remote)
    BY DEF Get
  <2>2. Pulled(cfg[d], remote) \in SyncConfigs /\ cfg[d] \in SyncConfigs /\ remote \in Archives
    BY StampTypes DEF TypeOK
  <2>. QED
    BY <2>1, <2>2, ConstantTypes, StartBecomes DEF Becomes
<1>2. /\ crossed' \subseteq Device
      /\ UNCHANGED <<now, remote, rows, storeVars, proc, upsets, missed, serial>>
  BY DEF Get, Begin, TypeOK
<1>. QED
  BY <1>1, <1>2 DEF TypeOK, Verbs, storeVars

\* The merge keeps the types.
LEMMA MergeTypes ==
    ASSUME TypeOK, etags' = etags, NEW d \in Device, NEW s \in Slots, Merge(d, s)
    PROVE  TypeOK'
<1>1. /\ Pulled(verb[d][s].cfg, verb[d][s].arch) \in SyncConfigs
      /\ verb[d][s].arch.rows \in [Row -> RowStates]
  <2>1. verb[d][s].cfg \in SyncConfigs /\ verb[d][s].arch \in Archives
    BY VerbTyped DEF Verbs
  <2>2. verb[d][s].arch.rows \in [Row -> RowStates]
    BY <2>1 DEF Archives
  <2>. QED
    BY <2>1, <2>2, StampTypes DEF TypeOK
<1>2. verb' \in [Device -> [Slots -> Verbs]] /\ page' = page
  BY <1>1, GotoBecomes DEF Merge, Becomes
<1>3. PICK failing \in SUBSET Row :
        /\ rows' = [rows EXCEPT ![d] = merge_pending_into_local(@, verb[d][s].arch.rows, failing)]
        /\ missed' = [missed EXCEPT ![d] = @ \cup failing]
        /\ upsets' = upsets \/ Upset
  BY DEF Merge
<1>4. rows' \in [Device -> [Row -> RowStates]]
  BY <1>1, <1>3, MergeType DEF TypeOK
<1>5. missed' \in [Device -> SUBSET Row] /\ upsets' \in 0..MaxUpset
  BY <1>3, SyncAssumption DEF TypeOK, Upset
<1>. QED
  BY <1>2, <1>4, <1>5 DEF Merge, TypeOK, Verbs, storeVars

\* A PUT that is answered keeps the types.
LEMMA PutTypes ==
    ASSUME TypeOK, etags' = etags, NEW d \in Device, NEW s \in Slots, Put(d, s)
    PROVE  TypeOK'
<1>1. /\ Pushed(verb[d][s].cfg, verb[d][s].arch) \in SyncConfigs
      /\ verb[d][s].arch \in Archives
  <2>1. verb[d][s].cfg \in SyncConfigs /\ verb[d][s].arch \in Archives /\ etags \in BOOLEAN
    BY VerbTyped DEF TypeOK, Verbs
  <2>. QED
    BY <2>1, StampTypes
<1>2. verb' \in [Device -> [Slots -> Verbs]] /\ page' = page
  BY <1>1, GotoBecomes DEF Put, Becomes
<1>. QED
  BY <1>1, <1>2 DEF Put, PutLands, TypeOK, Verbs, storeVars, history

\* The steps that end a verb keep the types.
LEMMA FinishTypes ==
    ASSUME TypeOK, etags' = etags, NEW d \in Device, NEW s \in Slots,
           VerbFails(d, s) \/ PutRefused(d, s) \/ PutUnanswered(d, s) \/ persist_sync(d, s)
    PROVE  TypeOK'
<1>1. Finish(d, s) /\ UNCHANGED <<now, serial, rows, proc, crossed, missed>>
  BY DEF VerbFails, PutRefused, PutUnanswered, persist_sync, history
<1>2. cfg' \in [Device -> SyncConfigs] /\ had' \in [Device -> SUBSET SyncConfigs]
  <2>1. CASE persist_sync(d, s)
    <3>1. verb[d][s].cfg \in SyncConfigs
      BY VerbTyped DEF Verbs
    <3>. QED
      BY <2>1, <3>1, StoreTyped DEF persist_sync
  <2>. QED
    BY <2>1 DEF VerbFails, PutRefused, PutUnanswered, storeVars, TypeOK
<1>3. /\ verb' \in [Device -> [Slots -> Verbs]]
      /\ page' \in [Device -> [cfg : SyncConfigs, busy : BOOLEAN]]
  BY <1>1, <1>2, FinishBecomes DEF Becomes
<1>4. verb[d][s].arch \in Archives
  BY VerbTyped DEF Verbs
<1>5. remote' \in Archives
  BY <1>4 DEF VerbFails, PutRefused, PutUnanswered, PutLands, persist_sync, TypeOK
<1>6. upsets' \in 0..MaxUpset
  BY SyncAssumption DEF VerbFails, PutRefused, PutUnanswered, Upset, persist_sync, history, TypeOK
<1>. QED
  BY <1>1, <1>2, <1>3, <1>5, <1>6 DEF TypeOK, Verbs

\* Every step keeps the types, as long as a process was started no more often
\* than it was upset.
LEMMA TypeStep ==
    ASSUME TypeOK, \A d \in Device : proc[d] <= upsets, [Next]_vars
    PROVE  TypeOK'
<1>1. CASE Next
  <2>1. etags' = etags
    BY <1>1 DEF Next
  <2>2. PICK d \in Device :
          \/ \E r \in Row : Create(d, r) \/ Edit(d, r) \/ Delete(d, r)
          \/ SaveConfig(d) \/ ReopenPage(d) \/ Crash(d)
          \/ \E s \in Slots : BeginPush(d, s) \/ Get(d, s) \/ Work(d, s)
    BY <1>1 DEF Next
  <2>. QED
    BY <2>1, <2>2, EditTypes, PageTypes, BeginPushTypes, GetTypes, MergeTypes, PutTypes,
       FinishTypes DEF Work
<1>2. CASE UNCHANGED vars
  BY <1>2 DEF vars, storeVars, history, TypeOK
<1>. QED
  BY <1>1, <1>2

-----------------------------------------------------------------------------
(* Rows.                                                                   *)

\* Merging a row takes it in.
LEMMA MergeFolds ==
    ASSUME NEW r \in Row, NEW l \in RowStates, NEW p \in RowStates
    PROVE  Folded(apply_one(r, l, p), p)
<1>1. CASE ~Exists(p)
  BY <1>1 DEF Folded
<1>2. CASE Exists(p) /\ p.del = 0
  BY <1>2, SyncAssumption DEF Folded, apply_one, lww_peer_loses, Live, Exists, RowStates
<1>3. CASE Exists(p) /\ p.del # 0
  BY <1>3, SyncAssumption
     DEF Folded, apply_one, apply_tombstone, Live, Exists, RowStates
<1>. QED
  BY <1>1, <1>2, <1>3

\* A merge invents no stamp.
LEMMA MergeBy ==
    ASSUME NEW mine \in [Row -> RowStates], NEW theirs \in [Row -> RowStates],
           NEW failing, NEW t, By(mine, t), By(theirs, t)
    PROVE  By(merge_pending_into_local(mine, theirs, failing), t)
<1>. SUFFICES ASSUME NEW r \in Row
              PROVE  /\ apply_one(r, mine[r], theirs[r]).ts <= t
                     /\ apply_one(r, mine[r], theirs[r]).del <= t
  BY DEF merge_pending_into_local, By
<1>1. /\ mine[r] \in RowStates /\ theirs[r] \in RowStates
      /\ mine[r].ts <= t /\ mine[r].del <= t /\ theirs[r].ts <= t /\ theirs[r].del <= t
  BY DEF By
<1>. QED
  BY <1>1 DEF apply_one, apply_tombstone, RowStates

\* An edit, a creation or a deletion of this instant undoes nothing.
LEMMA EditFolds ==
    ASSUME NEW l \in RowStates, NEW p \in RowStates, NEW t \in Nat,
           p.ts <= t, p.del <= t, Folded(l, p), NEW k \in RowStates,
           \/ k.ts = t /\ k.del = 0 /\ t # 0
           \/ k.ts = t /\ k.del = l.del /\ t # 0
           \/ k.ts = l.ts /\ k.del = t /\ t # 0
    PROVE  Folded(k, p)
  BY SyncAssumption DEF Folded, Live, Exists, RowStates

-----------------------------------------------------------------------------
(* The invariant is preserved.                                             *)

\* Steps that neither move rows nor the archive on the server, and at most
\* end verbs: the settings page, a crash, failures, the write-back.
LEMMA QuietStep ==
    ASSUME IInv, TypeOK', UNCHANGED <<now, serial, remote, rows, crossed, missed>>,
           \A e \in Device : /\ cfg'[e] \in had'[e] /\ page'[e].cfg \in had'[e]
                             /\ proc'[e] <= upsets'
                             /\ \/ proc'[e] = proc[e]
                                \/ /\ proc'[e] = proc[e] + 1
                                   /\ \A u \in Slots : verb'[e][u] = NoVerb,
           \A e \in Device, n \in Serials \ {0} : Knows(e, n)' => Knows(e, n),
           \A e \in Device, n \in Serials \ {0} : HasPut(e, n)' => HasPut(e, n),
           \A e \in Device, u \in Slots :
               \/ verb'[e][u] = NoVerb
               \/ /\ verb'[e][u].pc = verb[e][u].pc
                  /\ verb'[e][u].cfg = verb[e][u].cfg
                  /\ verb'[e][u].arch = verb[e][u].arch
    PROVE  IInv'
<1>. USE DEF IInv
<1>0. /\ NoVerb.pc = "idle" /\ NoVerb.arch = NoArchive /\ NoArchive.sha = 0
      /\ NoVerb.cfg = Fresh
      /\ \A r \in Row : NoArchive.rows[r].ts = 0 /\ NoArchive.rows[r].del = 0
  BY DEF NoVerb, NoArchive, NoRow
<1>1. /\ now \in Nat /\ serial \in Nat /\ 0 \in Serials
      /\ remote.sha \in Serials
      /\ \A e \in Device, u \in Slots : verb[e][u].arch.sha \in Serials
      /\ \A e \in Device : proc[e] \in Nat /\ upsets \in Nat
  BY VerbTyped, SyncAssumption DEF TypeOK, Serials, Verbs, Archives
<1>2. StampsPast'
  BY <1>0, <1>1 DEF StampsPast, By
<1>3. Bounded'
  <2>1. \A e \in Device, n \in Serials : Knows(e, n)' => n <= serial'
    BY <1>1 DEF Bounded, Serials
  <2>2. \A e \in Device : remote'.origin.dev = e => remote'.origin.run <= proc'[e]
    <3>. SUFFICES ASSUME NEW e \in Device, remote.origin.dev = e
                  PROVE  remote.origin.run <= proc'[e]
      OBVIOUS
    <3>1. remote.origin.run <= proc[e] /\ remote.origin.run \in Nat
      BY SyncAssumption DEF Bounded, TypeOK, Archives, Processes, NoProcess
    <3>2. proc'[e] = proc[e] \/ proc'[e] = proc[e] + 1
      OBVIOUS
    <3>. QED
      BY <3>1, <3>2, <1>1
  <2>3. \A e \in Device, u \in Slots : verb'[e][u].arch.sha <= serial'
    BY <1>0, <1>1 DEF Bounded
  <2>. QED
    BY <2>1, <2>2, <2>3 DEF Bounded
<1>4. PutIsNew'
  <2>. SUFFICES ASSUME NEW e \in Device, NEW u \in Slots, verb'[e][u].pc = "put"
                PROVE  LET a == verb'[e][u].arch IN
                       /\ a.sha # 0
                       /\ a.sha # remote'.sha
                       /\ a.origin = [dev |-> e, run |-> proc'[e]]
                       /\ \A f \in Device : ~Names(had'[f], verb'[f], a.sha)
                       /\ \A f \in Device, w \in Slots :
                            verb'[f][w].arch.sha = a.sha => f = e /\ w = u
    BY DEF PutIsNew, Knows
  <2>1. /\ verb'[e][u].arch = verb[e][u].arch /\ verb[e][u].pc = "put"
        /\ proc'[e] = proc[e]
    BY <1>0
  <2>. DEFINE a == verb[e][u].arch
  <2>2. /\ a.sha # 0
        /\ a.sha # remote.sha
        /\ a.origin = [dev |-> e, run |-> proc[e]]
        /\ \A f \in Device : ~Names(had[f], verb[f], a.sha)
        /\ \A f \in Device, w \in Slots : verb[f][w].arch.sha = a.sha => f = e /\ w = u
    BY <2>1 DEF PutIsNew, Knows
  <2>3. \A f \in Device : ~Names(had'[f], verb'[f], a.sha)
    BY <1>1, <2>2 DEF Knows
  <2>4. \A f \in Device, w \in Slots : verb'[f][w].arch.sha = a.sha => f = e /\ w = u
    BY <1>0, <2>2
  <2>. QED
    BY <2>1, <2>2, <2>3, <2>4
<1>5. MergesRemote'
  BY <1>0 DEF MergesRemote
<1>6. \A e \in Device \ crossed' : Alone(e)'
  BY <1>0 DEF Alone
<1>7. \A e \in Device : Claims(e)' => Claims(e)
  <2>. SUFFICES ASSUME NEW e \in Device, Claims(e)'
                PROVE  Claims(e)
    OBVIOUS
  <2>1. remote.sha # 0 /\ (Knows(e, remote.sha)' \/ remote.origin = [dev |-> e, run |-> proc'[e]])
    BY DEF Claims, own_origin
  <2>2. CASE Knows(e, remote.sha)'
    BY <1>1, <2>1, <2>2 DEF Claims
  <2>3. CASE remote.origin = [dev |-> e, run |-> proc'[e]]
    <3>1. remote.origin.run <= proc[e]
      BY <2>3 DEF Bounded
    <3>2. proc'[e] = proc[e]
      BY <1>1, <2>3, <3>1
    <3>. QED
      BY <2>1, <2>3, <3>2 DEF Claims, own_origin
  <2>. QED
    BY <2>1, <2>2, <2>3
<1>8. Claimed'
  <2>1. \A e \in Device : own_origin(e, remote)' => own_origin(e, remote)
    <3>. SUFFICES ASSUME NEW e \in Device, remote.origin = [dev |-> e, run |-> proc'[e]]
                  PROVE  proc'[e] = proc[e]
      BY DEF own_origin
    <3>1. remote.origin.run <= proc[e]
      BY DEF Bounded
    <3>. QED
      BY <1>1, <3>1
  <2>2. \A e \in Device : Owns(e)' => Owns(e)
    BY <1>1, <2>1 DEF Owns
  <2>. QED
    BY <1>7, <2>2 DEF Claimed
<1>9. PutHolds'
  BY <1>0 DEF PutHolds
<1>10. MergeHolds'
  BY <1>0, <1>7 DEF MergeHolds
<1>. QED
  BY <1>2, <1>3, <1>4, <1>5, <1>6, <1>8, <1>9, <1>10

\* An idle verb names no archive.
LEMMA FreshNames == /\ \A n \in Stamps(NoVerb.cfg) : n = 0
                    /\ \A n \in PushStamps(NoVerb.cfg) : n = 0
  BY DEF Stamps, PushStamps, NoVerb, Fresh

\* _saveConfig keeps the invariant: its stale stamps were stored before.
LEMMA SaveConfigStep ==
    ASSUME IInv, TypeOK', NEW d \in Device, SaveConfig(d)
    PROVE  IInv'
<1>. DEFINE c == [page[d].cfg EXCEPT !.enabled = ~@]
<1>1. /\ update_sync(d, c) /\ page' = [page EXCEPT ![d].cfg = c] /\ upsets' = upsets + 1
      /\ UNCHANGED <<now, serial, remote, rows, verb, proc, crossed, missed>>
  BY DEF SaveConfig, Upset
<1>2. /\ c \in SyncConfigs
      /\ Stamps(c) = Stamps(page[d].cfg) /\ PushStamps(c) = PushStamps(page[d].cfg)
  BY DEF IInv, TypeOK, SyncConfigs, Stamps, PushStamps
<1>. HIDE DEF c
<1>3. /\ cfg'[d] = c /\ had'[d] = had[d] \cup {c}
      /\ \A e \in Device : e # d => cfg'[e] = cfg[e] /\ had'[e] = had[e]
  BY <1>1, <1>2, StoreTyped DEF IInv
<1>4. page'[d].cfg = c /\ \A e \in Device : e # d => page'[e] = page[e]
  BY <1>1 DEF IInv, TypeOK
<1>5. \A e \in Device : /\ cfg'[e] \in had'[e] /\ page'[e].cfg \in had'[e]
                        /\ proc'[e] <= upsets' /\ proc'[e] = proc[e]
  BY <1>1, <1>3, <1>4, SyncAssumption DEF IInv, Bounded, TypeOK
<1>6. /\ \A e \in Device, n \in Serials \ {0} : Knows(e, n)' => Knows(e, n)
      /\ \A e \in Device, n \in Serials \ {0} : HasPut(e, n)' => HasPut(e, n)
  <2>. SUFFICES ASSUME NEW e \in Device, NEW n
                PROVE  /\ Names(had'[e], verb[e], n) => Names(had[e], verb[e], n)
                       /\ PutNames(had'[e], verb[e], n) => PutNames(had[e], verb[e], n)
    BY <1>1 DEF Knows, HasPut
  <2>1. page[d].cfg \in had[d]
    BY DEF IInv, Bounded
  <2>. QED
    BY <1>2, <1>3, <2>1 DEF Names, PutNames
<1>. QED
  BY <1>1, <1>5, <1>6, QuietStep

\* A reopened settings page keeps the invariant.
LEMMA ReopenPageStep ==
    ASSUME IInv, TypeOK', NEW d \in Device, ReopenPage(d)
    PROVE  IInv'
<1>1. /\ page' = [page EXCEPT ![d] = [cfg |-> cfg[d], busy |-> FALSE]] /\ upsets' = upsets + 1
      /\ UNCHANGED <<now, serial, remote, rows, cfg, had, proc, crossed, missed>>
  BY DEF ReopenPage, Upset, storeVars
<1>2. \A e \in Device, u \in Slots : /\ verb'[e][u].pc = verb[e][u].pc
                                     /\ verb'[e][u].cfg = verb[e][u].cfg
                                     /\ verb'[e][u].arch = verb[e][u].arch
  BY VerbTyped DEF ReopenPage, IInv, Verbs
<1>3. \A e \in Device : /\ cfg'[e] \in had'[e] /\ page'[e].cfg \in had'[e]
                        /\ proc'[e] <= upsets' /\ proc'[e] = proc[e]
  BY <1>1, SyncAssumption DEF IInv, Bounded, TypeOK
<1>4. /\ \A e \in Device, n \in Serials \ {0} : Knows(e, n)' => Knows(e, n)
      /\ \A e \in Device, n \in Serials \ {0} : HasPut(e, n)' => HasPut(e, n)
  BY <1>1, <1>2 DEF Knows, Names, HasPut, PutNames
<1>. QED
  BY <1>1, <1>2, <1>3, <1>4, QuietStep

\* A crash keeps the invariant: the file on disk is one that was stored before.
LEMMA CrashStep ==
    ASSUME IInv, TypeOK', NEW d \in Device, Crash(d)
    PROVE  IInv'
<1>1. /\ upsets' = upsets + 1 /\ proc' = [proc EXCEPT ![d] = @ + 1]
      /\ UNCHANGED <<now, serial, remote, rows, had, crossed, missed>>
  BY DEF Crash, Upset
<1>2. PICK c \in had[d] : /\ cfg' = [cfg EXCEPT ![d] = c]
                          /\ page' = [page EXCEPT ![d] = [cfg |-> c, busy |-> FALSE]]
  BY DEF Crash
<1>3. /\ \A u \in Slots : verb'[d][u] = NoVerb
      /\ \A e \in Device, u \in Slots : e # d => verb'[e][u] = verb[e][u]
  BY VerbTyped DEF Crash, IInv
<1>4. \A e \in Device : /\ cfg'[e] \in had'[e] /\ page'[e].cfg \in had'[e]
                        /\ proc'[e] <= upsets'
                        /\ proc'[e] = IF e = d THEN proc[e] + 1 ELSE proc[e]
  BY <1>1, <1>2, SyncAssumption DEF IInv, Bounded, TypeOK
<1>5. /\ \A e \in Device, n \in Serials \ {0} : Knows(e, n)' => Knows(e, n)
      /\ \A e \in Device, n \in Serials \ {0} : HasPut(e, n)' => HasPut(e, n)
  BY <1>1, <1>3, FreshNames DEF Knows, Names, HasPut, PutNames
<1>. QED
  BY <1>1, <1>3, <1>4, <1>5, QuietStep

\* A verb that fails or is refused keeps the invariant.
LEMMA GiveUpStep ==
    ASSUME IInv, TypeOK', NEW d \in Device, NEW s \in Slots,
           VerbFails(d, s) \/ PutRefused(d, s)
    PROVE  IInv'
<1>1. Finish(d, s) /\ UNCHANGED <<now, serial, remote, rows, cfg, had, proc, upsets, crossed, missed>>
  BY DEF VerbFails, PutRefused, storeVars, history
<1>2. /\ Becomes(d, s, NoVerb)
      /\ \A e \in Device : page'[e].cfg = page[e].cfg \/ page'[e].cfg = cfg'[e]
  BY <1>1, FinishBecomes DEF IInv, TypeOK
<1>3. \A e \in Device : /\ cfg'[e] \in had'[e] /\ page'[e].cfg \in had'[e]
                        /\ proc'[e] <= upsets' /\ proc'[e] = proc[e]
  BY <1>1, <1>2 DEF IInv, Bounded
<1>4. /\ \A e \in Device, n \in Serials \ {0} : Knows(e, n)' => Knows(e, n)
      /\ \A e \in Device, n \in Serials \ {0} : HasPut(e, n)' => HasPut(e, n)
  BY <1>1, <1>2, FreshNames DEF Knows, Names, HasPut, PutNames, Becomes
<1>. QED
  BY <1>1, <1>2, <1>3, <1>4, QuietStep DEF Becomes

\* persist_sync keeps the invariant: the stamps it stores are those the verb
\* has earned.
LEMMA PersistStep ==
    ASSUME IInv, TypeOK', NEW d \in Device, NEW s \in Slots, persist_sync(d, s)
    PROVE  IInv'
<1>1. /\ update_sync(d, verb[d][s].cfg) /\ Finish(d, s)
      /\ UNCHANGED <<now, serial, remote, rows, proc, upsets, crossed, missed>>
  BY DEF persist_sync, history
<1>2. verb[d][s].cfg \in SyncConfigs
  BY VerbTyped DEF IInv, Verbs
<1>3. /\ cfg'[d] = verb[d][s].cfg /\ had'[d] = had[d] \cup {verb[d][s].cfg}
      /\ \A e \in Device : e # d => cfg'[e] = cfg[e] /\ had'[e] = had[e]
  BY <1>1, <1>2, StoreTyped DEF IInv
<1>4. /\ Becomes(d, s, NoVerb)
      /\ \A e \in Device : page'[e].cfg = page[e].cfg \/ page'[e].cfg = cfg'[e]
  BY <1>1, FinishBecomes DEF IInv, TypeOK
<1>5. \A e \in Device : /\ cfg'[e] \in had'[e] /\ page'[e].cfg \in had'[e]
                        /\ proc'[e] <= upsets' /\ proc'[e] = proc[e]
  BY <1>1, <1>3, <1>4 DEF IInv, Bounded
<1>6. /\ \A e \in Device, n \in Serials \ {0} : Knows(e, n)' => Knows(e, n)
      /\ \A e \in Device, n \in Serials \ {0} : HasPut(e, n)' => HasPut(e, n)
  <2>1. \A e \in Device, n \in Serials \ {0} : Knows(e, n)' => Knows(e, n)
    BY <1>3, <1>4, FreshNames DEF Knows, Names, Becomes
  <2>2. \A e \in Device, n \in Serials \ {0} : HasPut(e, n)' => HasPut(e, n)
    BY <1>3, <1>4, FreshNames DEF HasPut, PutNames, Becomes
  <2>. QED
    BY <2>1, <2>2
<1>. QED
  BY <1>1, <1>4, <1>5, <1>6, QuietStep DEF Becomes

\* The user's edits keep the invariant.
LEMMA EditStep ==
    ASSUME IInv, TypeOK', NEW d \in Device, NEW r \in Row,
           Create(d, r) \/ Edit(d, r) \/ Delete(d, r)
    PROVE  IInv'
<1>1. Tick /\ UNCHANGED <<serial, remote, cfg, had, verb, page, proc, upsets, crossed, missed>>
  BY DEF Create, Edit, Delete, storeVars, history
<1>2. now' = now + 1 /\ now \in Nat /\ now' \in Nat
  BY <1>1, TickType, SyncAssumption DEF IInv, TypeOK
<1>3. /\ \A e \in Device : e # d => rows'[e] = rows[e]
      /\ \A q \in Row : q # r => rows'[d][q] = rows[d][q]
      /\ \/ rows'[d][r].ts = now' /\ rows'[d][r].del = 0
         \/ rows'[d][r].ts = now' /\ rows'[d][r].del = rows[d][r].del
         \/ rows'[d][r].ts = rows[d][r].ts /\ rows'[d][r].del = now'
  <2>1. rows \in [Device -> [Row -> RowStates]]
    BY DEF IInv, TypeOK
  <2>2. CASE Create(d, r)
    BY <2>1, <2>2 DEF Create
  <2>3. CASE Edit(d, r)
    BY <2>1, <2>3 DEF Edit, RowStates
  <2>4. CASE Delete(d, r)
    BY <2>1, <2>4 DEF Delete, RowStates
  <2>. QED
    BY <2>2, <2>3, <2>4
<1>4. /\ \A e \in Device : rows[e] \in [Row -> RowStates] /\ rows'[e] \in [Row -> RowStates]
      /\ remote.rows \in [Row -> RowStates]
      /\ \A e \in Device, u \in Slots : verb[e][u].arch.rows \in [Row -> RowStates]
  BY VerbTyped DEF IInv, TypeOK, Archives, Verbs
<1>5. ASSUME NEW p \in [Row -> RowStates], By(p, now), NEW e \in Device,
             NEW R \in SUBSET Row, FoldedOn(R, rows[e], p)
      PROVE  FoldedOn(R, rows'[e], p)
  <2>. SUFFICES ASSUME NEW q \in R PROVE Folded(rows'[e][q], p[q])
    BY DEF FoldedOn
  <2>1. Folded(rows[e][q], p[q])
    BY <1>5 DEF FoldedOn
  <2>2. CASE e = d /\ q = r
    <3>1. /\ p[r] \in RowStates /\ rows[d][r] \in RowStates /\ rows'[d][r] \in RowStates
      BY <1>4, <1>5
    <3>2. p[r].ts <= now' /\ p[r].del <= now' /\ now' # 0
      BY <1>2, <1>5, <3>1, SyncAssumption DEF By, RowStates
    <3>. QED
      BY <1>2, <1>3, <2>1, <2>2, <3>1, <3>2, EditFolds
  <2>. QED
    BY <1>3, <2>1, <2>2
<1>6. StampsPast'
  <2>1. ASSUME NEW p \in [Row -> RowStates], By(p, now) PROVE By(p, now')
    BY <1>2, <2>1, SyncAssumption DEF By, RowStates
  <2>2. By(rows'[d], now')
    <3>1. By(rows[d], now')
      BY <1>4, <2>1 DEF IInv, StampsPast
    <3>. QED
      BY <1>2, <1>3, <3>1 DEF By
  <2>. QED
    BY <1>1, <1>3, <1>4, <2>1, <2>2 DEF IInv, StampsPast
<1>7. \A e \in Device : Claims(e)' = Claims(e) /\ Owns(e)' = Owns(e)
  BY <1>1 DEF Claims, Owns, Knows, HasPut, own_origin
<1>8. Bounded' /\ PutIsNew' /\ MergesRemote' /\ MergeHolds'
      /\ \A e \in Device \ crossed' : Alone(e)'
  <2>1. Bounded'
    BY <1>1 DEF IInv, Bounded, Knows
  <2>2. PutIsNew'
    BY <1>1 DEF IInv, PutIsNew, Knows
  <2>3. MergesRemote' /\ MergeHolds'
    BY <1>1, <1>7 DEF IInv, MergesRemote, MergeHolds
  <2>4. \A e \in Device \ crossed' : Alone(e)'
    BY <1>1 DEF IInv, Alone
  <2>. QED
    BY <2>1, <2>2, <2>3, <2>4
<1>9. Claimed'
  <2>. SUFFICES ASSUME NEW e \in Device \ crossed
                PROVE  /\ Claims(e) => FoldedOn(Row \ missed[e], rows'[e], remote.rows)
                       /\ Owns(e) => FoldedOn(Row, rows'[e], remote.rows)
    BY <1>1, <1>7 DEF Claimed, FoldedAll
  <2>1. /\ Claims(e) => FoldedOn(Row \ missed[e], rows[e], remote.rows)
        /\ Owns(e) => FoldedOn(Row, rows[e], remote.rows)
    BY DEF IInv, Claimed, FoldedAll
  <2>2. By(remote.rows, now) /\ (Row \ missed[e]) \in SUBSET Row /\ Row \in SUBSET Row
    BY DEF IInv, StampsPast
  <2>. QED
    BY <1>4, <1>5, <2>1, <2>2
<1>10. PutHolds'
  <2>1. \A e \in Device, u \in Slots : FoldedAll(rows[e], verb[e][u].arch.rows)
                                       => FoldedAll(rows'[e], verb[e][u].arch.rows)
    BY <1>4, <1>5 DEF IInv, StampsPast, FoldedAll
  <2>. QED
    BY <1>1, <2>1 DEF IInv, PutHolds
<1>. QED
  BY <1>6, <1>8, <1>9, <1>10 DEF IInv

\* A device that starts a verb alone has no other in flight.
LEMMA BeginAlone ==
    ASSUME IInv, NEW d \in Device, NEW s \in Slots, Begin(d, s)
    PROVE  /\ crossed \subseteq crossed'
           /\ \A e \in Device : e # d => (e \in crossed' <=> e \in crossed)
           /\ d \notin crossed' => \A u \in Slots : verb[d][u].pc = "idle"
  BY DEF Begin

\* Composing an archive keeps the invariant.
LEMMA BeginPushStep ==
    ASSUME IInv, TypeOK', NEW d \in Device, NEW s \in Slots, BeginPush(d, s)
    PROVE  IInv'
<1>. DEFINE a == [sha |-> serial + 1, origin |-> [dev |-> d, run |-> proc[d]], rows |-> rows[d]]
            v == [pc |-> "put", cfg |-> cfg[d], arch |-> a, shown |-> TRUE]
<1>1. /\ Begin(d, s) /\ Start(d, s, "put", cfg[d], a) /\ serial' = serial + 1
      /\ UNCHANGED <<now, remote, rows, cfg, had, proc, upsets, missed>>
  BY DEF BeginPush, Begin, storeVars
<1>2. serial \in Nat /\ serial + 1 \in Serials /\ Serials \subseteq Nat
  BY SyncAssumption DEF BeginPush, IInv, TypeOK, Serials
<1>3. a \in Archives /\ cfg[d] \in SyncConfigs
  <2>1. [dev |-> d, run |-> proc[d]] \in Processes
    BY DEF IInv, TypeOK, Processes
  <2>. QED
    BY <1>2, <2>1 DEF IInv, TypeOK, Archives
<1>4. a.sha = serial + 1 /\ a.origin = [dev |-> d, run |-> proc[d]] /\ a.rows = rows[d]
  OBVIOUS
<1>. HIDE DEF a
<1>5. Becomes(d, s, v) /\ \A e \in Device : page'[e].cfg = page[e].cfg
  BY <1>1, <1>3, StartBecomes DEF IInv
<1>6. v.pc = "put" /\ v.cfg = cfg[d] /\ v.arch = a
  OBVIOUS
<1>. HIDE DEF v
<1>7. \A e \in Device, n \in Serials :
        /\ Names(had'[e], verb'[e], n) => Names(had[e], verb[e], n)
        /\ PutNames(had'[e], verb'[e], n) => PutNames(had[e], verb[e], n)
  <2>1. cfg[d] \in had[d]
    BY DEF IInv, Bounded
  <2>. QED
    BY <1>1, <1>5, <1>6, <2>1 DEF Becomes, Names, PutNames
<1>8. /\ remote.sha \in Serials
      /\ \A e \in Device, u \in Slots : verb[e][u].arch.sha \in Serials
  BY VerbTyped DEF IInv, TypeOK, Archives, Verbs
<1>9. StampsPast'
  BY <1>1, <1>4, <1>5, <1>6 DEF IInv, StampsPast, Becomes
<1>10. Bounded'
  <2>1. \A e \in Device, n \in Serials : Knows(e, n)' => n <= serial'
    BY <1>1, <1>2, <1>7 DEF IInv, Bounded, Knows
  <2>2. /\ remote'.sha <= serial'
        /\ \A e \in Device, u \in Slots : verb'[e][u].arch.sha <= serial'
    <3>1. remote.sha <= serial /\ \A e \in Device, u \in Slots : verb[e][u].arch.sha <= serial
      BY DEF IInv, Bounded
    <3>2. /\ remote.sha <= serial + 1
          /\ \A e \in Device, u \in Slots : verb[e][u].arch.sha <= serial + 1
      BY <1>2, <1>8, <3>1
    <3>. QED
      BY <1>1, <1>2, <1>4, <1>5, <1>6, <3>2 DEF Becomes
  <2>. QED
    BY <1>1, <1>5, <2>1, <2>2 DEF IInv, Bounded
<1>11. PutIsNew'
  <2>. SUFFICES ASSUME NEW e \in Device, NEW u \in Slots, verb'[e][u].pc = "put"
                PROVE  LET b == verb'[e][u].arch IN
                       /\ b.sha # 0
                       /\ b.sha # remote'.sha
                       /\ b.origin = [dev |-> e, run |-> proc'[e]]
                       /\ \A f \in Device : ~Names(had'[f], verb'[f], b.sha)
                       /\ \A f \in Device, w \in Slots :
                            verb'[f][w].arch.sha = b.sha => f = e /\ w = u
    BY DEF PutIsNew, Knows
  <2>1. \A f \in Device, w \in Slots : verb[f][w].arch.sha # serial + 1
    BY <1>2, <1>8 DEF IInv, Bounded
  <2>2. CASE e = d /\ u = s
    <3>1. verb'[e][u].arch = a
      BY <1>5, <1>6, <2>2 DEF Becomes
    <3>2. \A f \in Device : ~Names(had'[f], verb'[f], a.sha)
      BY <1>2, <1>4, <1>7 DEF IInv, Bounded, Knows
    <3>3. a.sha # remote.sha
      BY <1>2, <1>4, <1>8 DEF IInv, Bounded
    <3>4. \A f \in Device, w \in Slots : verb'[f][w].arch.sha = a.sha => f = d /\ w = s
      BY <1>4, <1>5, <2>1 DEF Becomes
    <3>. QED
      BY <1>1, <1>2, <1>4, <2>2, <3>1, <3>2, <3>3, <3>4
  <2>3. CASE ~(e = d /\ u = s)
    <3>1. verb'[e][u] = verb[e][u]
      BY <1>5, <2>3 DEF Becomes
    <3>. DEFINE b == verb[e][u].arch
    <3>2. /\ b.sha # 0
          /\ b.sha # remote.sha
          /\ b.origin = [dev |-> e, run |-> proc[e]]
          /\ \A f \in Device : ~Names(had[f], verb[f], b.sha)
          /\ \A f \in Device, w \in Slots : verb[f][w].arch.sha = b.sha => f = e /\ w = u
      BY <3>1 DEF IInv, PutIsNew, Knows
    <3>3. \A f \in Device : ~Names(had'[f], verb'[f], b.sha)
      BY <1>7, <1>8, <3>2
    <3>4. \A f \in Device, w \in Slots : verb'[f][w].arch.sha = b.sha => f = e /\ w = u
      BY <1>4, <1>5, <1>6, <2>1, <3>2 DEF Becomes
    <3>. QED
      BY <1>1, <3>1, <3>2, <3>3, <3>4
  <2>. QED
    BY <2>2, <2>3
<1>12. MergesRemote'
  BY <1>1, <1>5, <1>6 DEF IInv, MergesRemote, Becomes
<1>13. \A e \in Device \ crossed' : Alone(e)'
  BY <1>1, <1>5, BeginAlone DEF IInv, Alone, Becomes
<1>14. \A e \in Device : (Claims(e)' => Claims(e)) /\ (Owns(e)' => Owns(e))
  BY <1>1, <1>7, <1>8 DEF Claims, Owns, Knows, HasPut, own_origin
<1>15. Claimed'
  BY <1>1, <1>14, BeginAlone DEF IInv, Claimed
<1>16. PutHolds'
  <2>. SUFFICES ASSUME NEW e \in Device \ crossed', NEW u \in Slots, verb'[e][u].pc = "put"
                PROVE  /\ FoldedAll(rows'[e], verb'[e][u].arch.rows)
                       /\ verb'[e][u].cfg.pushEtag = remote'.sha /\ remote'.sha # 0
                            => FoldedAll(verb'[e][u].arch.rows, remote'.rows)
    BY DEF PutHolds
  <2>1. e \notin crossed
    BY <1>1, BeginAlone
  <2>2. CASE e = d /\ u = s
    <3>1. verb'[e][u] = v
      BY <1>5, <2>2 DEF Becomes
    <3>2. FoldedAll(rows[d], rows[d])
      BY SyncAssumption DEF IInv, TypeOK, FoldedAll, FoldedOn, Folded, Live, Exists, RowStates
    <3>3. ASSUME cfg[d].pushEtag = remote.sha, remote.sha # 0
          PROVE  FoldedAll(rows[d], remote.rows)
      <4>1. cfg[d] \in had[d]
        BY DEF IInv, Bounded
      <4>2. Owns(d)
        BY <3>3, <4>1 DEF Owns, HasPut, PutNames, PushStamps
      <4>. QED
        BY <2>1, <2>2, <4>2 DEF IInv, Claimed
    <3>. QED
      BY <1>1, <1>4, <1>6, <2>2, <3>1, <3>2, <3>3
  <2>3. CASE ~(e = d /\ u = s)
    BY <1>1, <1>5, <2>1, <2>3 DEF IInv, PutHolds, Becomes
  <2>. QED
    BY <2>2, <2>3
<1>17. MergeHolds'
  BY <1>1, <1>5, <1>6, <1>14, BeginAlone DEF IInv, MergeHolds, Becomes
<1>. QED
  BY <1>9, <1>10, <1>11, <1>12, <1>13, <1>15, <1>16, <1>17 DEF IInv

\* A step in which one archive becomes known, or reaches the server, leaves the
\* archives still to be put as new as they were.
LEMMA NewStaysNew ==
    ASSUME IInv, UNCHANGED proc, NEW x,
           remote'.sha = remote.sha \/ remote'.sha = x,
           \A e \in Device, u \in Slots :
               /\ verb'[e][u].pc = "put" => verb'[e][u] = verb[e][u] /\ verb[e][u].arch.sha # x
               /\ \/ verb'[e][u].arch.sha = 0
                  \/ verb'[e][u].arch.sha = x
                  \/ verb'[e][u].arch = verb[e][u].arch,
           \A e \in Device, n \in Serials \ {0} :
               Names(had'[e], verb'[e], n) => Names(had[e], verb[e], n) \/ n = x
    PROVE  PutIsNew'
<1>. SUFFICES ASSUME NEW e \in Device, NEW u \in Slots, verb'[e][u].pc = "put"
              PROVE  LET b == verb'[e][u].arch IN
                     /\ b.sha # 0
                     /\ b.sha # remote'.sha
                     /\ b.origin = [dev |-> e, run |-> proc'[e]]
                     /\ \A f \in Device : ~Names(had'[f], verb'[f], b.sha)
                     /\ \A f \in Device, w \in Slots :
                          verb'[f][w].arch.sha = b.sha => f = e /\ w = u
  BY DEF PutIsNew, Knows
<1>. DEFINE b == verb[e][u].arch
<1>1. verb'[e][u] = verb[e][u] /\ b.sha # x /\ b.sha \in Serials
  BY VerbTyped DEF IInv, Verbs, Archives
<1>2. /\ b.sha # 0
      /\ b.sha # remote.sha
      /\ b.origin = [dev |-> e, run |-> proc[e]]
      /\ \A f \in Device : ~Names(had[f], verb[f], b.sha)
      /\ \A f \in Device, w \in Slots : verb[f][w].arch.sha = b.sha => f = e /\ w = u
  BY <1>1 DEF IInv, PutIsNew, Knows
<1>3. \A f \in Device : ~Names(had'[f], verb'[f], b.sha)
  BY <1>1, <1>2
<1>4. \A f \in Device, w \in Slots : verb'[f][w].arch.sha = b.sha => f = e /\ w = u
  BY <1>1, <1>2
<1>. QED
  BY <1>1, <1>2, <1>3, <1>4

\* Facts about the stamps of an archive and of a configuration.
LEMMA PulledStamps ==
    ASSUME NEW c \in SyncConfigs, NEW a
    PROVE  /\ \A n \in Stamps(Pulled(c, a)) : n \in Stamps(c) \/ n = a.sha
           /\ PushStamps(Pulled(c, a)) = PushStamps(c)
  BY DEF Stamps, PushStamps, Pulled, SyncConfigs

\* What a push stamps: the archive it uploaded, as sent and, if the server
\* names it, as tagged.
LEMMA PushedStamps ==
    ASSUME NEW c \in SyncConfigs, NEW a
    PROVE  \A n \in Stamps(Pushed(c, a)) : n \in Stamps(c) \/ n = a.sha \/ n = 0
  BY DEF Stamps, Pushed, SyncConfigs

\* The pull keeps the invariant: what it skips was taken in.
LEMMA GetStep ==
    ASSUME IInv, TypeOK', NEW d \in Device, NEW s \in Slots, Get(d, s)
    PROVE  IInv'
<1>1. /\ Begin(d, s) /\ remote.sha # 0
      /\ UNCHANGED <<now, serial, remote, rows, cfg, had, proc, upsets, missed>>
  BY DEF Get, Begin, storeVars
<1>2. /\ cfg[d] \in SyncConfigs /\ remote \in Archives
      /\ Pulled(cfg[d], remote) \in SyncConfigs /\ cfg[d] \in had[d]
  BY StampTypes DEF IInv, TypeOK, Bounded
<1>3. PICK v : /\ Becomes(d, s, v)
               /\ \/ /\ v.pc = "persist" /\ v.cfg = Pulled(cfg[d], remote) /\ v.arch = NoArchive
                     /\ sha_match(cfg[d], remote) \/ own_origin(d, remote)
                  \/ v.pc = "merge" /\ v.cfg = cfg[d] /\ v.arch = remote
               /\ \A e \in Device : page'[e].cfg = page[e].cfg
  <2>1. CASE sha_match(cfg[d], remote) \/ own_origin(d, remote)
    <3>1. Start(d, s, "persist", Pulled(cfg[d], remote), NoArchive)
      BY <2>1 DEF Get
    <3>2. /\ Becomes(d, s, [pc |-> "persist", cfg |-> Pulled(cfg[d], remote), arch |-> NoArchive, shown |-> TRUE])
          /\ \A e \in Device : page'[e].cfg = page[e].cfg
      BY <1>2, <3>1, StartBecomes, ConstantTypes DEF IInv
    <3>. QED
      BY <2>1, <3>2
  <2>2. CASE ~(sha_match(cfg[d], remote) \/ own_origin(d, remote))
    <3>1. Start(d, s, "merge", cfg[d], remote)
      BY <2>2 DEF Get
    <3>2. /\ Becomes(d, s, [pc |-> "merge", cfg |-> cfg[d], arch |-> remote, shown |-> TRUE])
          /\ \A e \in Device : page'[e].cfg = page[e].cfg
      BY <1>2, <3>1, StartBecomes DEF IInv
    <3>. QED
      BY <3>2
  <2>. QED
    BY <2>1, <2>2
<1>4. /\ remote.sha \in Serials
      /\ \A e \in Device, u \in Slots : verb[e][u].arch.sha \in Serials
      /\ NoArchive.sha = 0 /\ serial \in Nat /\ now \in Nat
      /\ \A r \in Row : NoArchive.rows[r].ts = 0 /\ NoArchive.rows[r].del = 0
  BY VerbTyped, SyncAssumption DEF IInv, TypeOK, Archives, Verbs, NoArchive, NoRow, Serials
<1>5. \A e \in Device, n \in Serials \ {0} :
        Names(had'[e], verb'[e], n) =>
            \/ Names(had[e], verb[e], n)
            \/ n = remote.sha /\ e = d /\ (sha_match(cfg[d], remote) \/ own_origin(d, remote))
  BY <1>1, <1>2, <1>3, PulledStamps DEF Becomes, Names
<1>15. \A e \in Device, n \in Serials : PutNames(had'[e], verb'[e], n) => PutNames(had[e], verb[e], n)
  <2>1. PushStamps(v.cfg) = PushStamps(cfg[d])
    BY <1>2, <1>3, PulledStamps
  <2>. QED
    BY <1>1, <1>2, <1>3, <2>1 DEF Becomes, PutNames
<1>6. StampsPast'
  BY <1>1, <1>3, <1>4 DEF IInv, StampsPast, Becomes, By
<1>7. Bounded'
  <2>1. \A e \in Device, n \in Serials : Knows(e, n)' => n <= serial'
    BY <1>1, <1>4, <1>5 DEF IInv, Bounded, Knows, Serials
  <2>2. \A e \in Device, u \in Slots : verb'[e][u].arch.sha <= serial'
    BY <1>1, <1>3, <1>4 DEF IInv, Bounded, Becomes
  <2>. QED
    BY <1>1, <1>3, <2>1, <2>2 DEF IInv, Bounded
<1>8. PutIsNew'
  <2>1. \A e \in Device, u \in Slots :
          /\ verb'[e][u].pc = "put" => verb'[e][u] = verb[e][u] /\ verb[e][u].arch.sha # remote.sha
          /\ \/ verb'[e][u].arch.sha = 0
             \/ verb'[e][u].arch.sha = remote.sha
             \/ verb'[e][u].arch = verb[e][u].arch
    <3>1. \A e \in Device, u \in Slots : verb[e][u].pc = "put" => verb[e][u].arch.sha # remote.sha
      BY DEF IInv, PutIsNew
    <3>. QED
      BY <1>3, <1>4, <3>1 DEF Becomes
  <2>. QED
    BY <1>1, <1>5, <2>1, NewStaysNew
<1>9. MergesRemote'
  BY <1>1, <1>3 DEF IInv, MergesRemote, Becomes
<1>10. \A e \in Device \ crossed' : Alone(e)'
  BY <1>1, <1>3, BeginAlone DEF IInv, Alone, Becomes
<1>11. \A e \in Device : Claims(e)' => Claims(e)
  <2>1. sha_match(cfg[d], remote) => Knows(d, remote.sha)
    BY <1>2 DEF sha_match, Knows, Names, Stamps
  <2>. QED
    BY <1>1, <1>4, <1>5, <2>1 DEF Claims, Knows, own_origin
<1>12. Claimed'
  <2>1. \A e \in Device : Owns(e)' => Owns(e)
    BY <1>1, <1>4, <1>15 DEF Owns, HasPut, own_origin
  <2>. QED
    BY <1>1, <1>11, <2>1, BeginAlone DEF IInv, Claimed
<1>13. PutHolds'
  BY <1>1, <1>3, BeginAlone DEF IInv, PutHolds, Becomes
<1>14. MergeHolds'
  BY <1>1, <1>3, <1>11, BeginAlone DEF IInv, MergeHolds, Becomes
<1>. QED
  BY <1>6, <1>7, <1>8, <1>9, <1>10, <1>12, <1>13, <1>14 DEF IInv

\* The archive reaches the server, whether or not the device hears of it.
LEMMA LandStep ==
    ASSUME IInv, TypeOK', NEW d \in Device, NEW s \in Slots, PutLands(d, s), NEW v,
           Becomes(d, s, v), v.pc = "idle" \/ v.pc = "persist", v.arch = NoArchive,
           \A n \in Stamps(v.cfg) : n = 0 \/ n = verb[d][s].arch.sha \/ n \in Stamps(verb[d][s].cfg),
           UNCHANGED <<now, serial, rows, cfg, had, proc, crossed, missed>>,
           upsets' = upsets \/ upsets' = upsets + 1,
           \A e \in Device : page'[e].cfg = page[e].cfg \/ page'[e].cfg = cfg'[e]
    PROVE  IInv'
<1>. DEFINE a == verb[d][s].arch
<1>1. verb[d][s].pc = "put" /\ remote' = a
  BY DEF PutLands
<1>2. /\ a.sha # 0
      /\ a.origin = [dev |-> d, run |-> proc[d]]
      /\ \A f \in Device : ~Names(had[f], verb[f], a.sha)
      /\ \A f \in Device, w \in Slots : verb[f][w].arch.sha = a.sha => f = d /\ w = s
  BY <1>1 DEF IInv, PutIsNew, Knows
<1>3. /\ a.sha \in Serials
      /\ \A e \in Device, u \in Slots : verb[e][u].arch.sha \in Serials
      /\ NoArchive.sha = 0 /\ serial \in Nat /\ now \in Nat /\ upsets \in Nat
      /\ \A e \in Device : proc[e] \in Nat
      /\ \A r \in Row : NoArchive.rows[r].ts = 0 /\ NoArchive.rows[r].del = 0
  BY VerbTyped, SyncAssumption DEF IInv, TypeOK, Archives, Verbs, NoArchive, NoRow, Serials
<1>4. \A e \in Device, n \in Serials \ {0} :
        Names(had'[e], verb'[e], n) => Names(had[e], verb[e], n) \/ (n = a.sha /\ e = d)
  BY DEF Becomes, Names
<1>5. StampsPast'
  BY <1>1, <1>3 DEF IInv, StampsPast, Becomes, By
<1>6. Bounded'
  <2>1. \A e \in Device, n \in Serials : Knows(e, n)' => n <= serial'
    BY <1>3, <1>4 DEF IInv, Bounded, Knows, Serials
  <2>2. /\ remote'.sha <= serial'
        /\ \A e \in Device, u \in Slots : verb'[e][u].arch.sha <= serial'
    BY <1>1, <1>3 DEF IInv, Bounded, Becomes
  <2>3. \A e \in Device : proc'[e] <= upsets' /\ (a.origin.dev = e => a.origin.run <= proc'[e])
    BY <1>2, <1>3 DEF IInv, Bounded
  <2>. QED
    BY <1>1, <2>1, <2>2, <2>3 DEF IInv, Bounded
<1>7. PutIsNew'
  <2>1. \A e \in Device, u \in Slots :
          /\ verb'[e][u].pc = "put" => verb'[e][u] = verb[e][u] /\ verb[e][u].arch.sha # a.sha
          /\ \/ verb'[e][u].arch.sha = 0
             \/ verb'[e][u].arch.sha = a.sha
             \/ verb'[e][u].arch = verb[e][u].arch
    BY <1>2, <1>3 DEF Becomes
  <2>2. \A e \in Device, n \in Serials \ {0} :
          Names(had'[e], verb'[e], n) => Names(had[e], verb[e], n) \/ n = a.sha
    BY <1>4
  <2>. HIDE DEF a
  <2>. QED
    BY <1>1, <2>1, <2>2, NewStaysNew
<1>8. MergesRemote'
  BY <1>1, <1>2 DEF MergesRemote, Becomes
<1>9. \A e \in Device \ crossed' : Alone(e)'
  BY <1>1 DEF IInv, Alone, Becomes
<1>10. \A e \in Device : e # d => ~Claims(e)'
  BY <1>1, <1>2, <1>3, <1>4 DEF Claims, Knows, own_origin
<1>11. Claimed'
  <2>1. d \notin crossed => FoldedAll(rows[d], a.rows)
    BY <1>1 DEF IInv, PutHolds
  <2>2. \A e \in Device : Owns(e)' => Claims(e)'
    BY DEF Owns, Claims, Knows, Names, Stamps, HasPut, PutNames, PushStamps
  <2>. QED
    BY <1>1, <1>10, <2>1, <2>2 DEF Claimed, FoldedAll, FoldedOn
<1>12. PutHolds'
  <2>. SUFFICES ASSUME NEW e \in Device \ crossed, NEW u \in Slots, verb'[e][u].pc = "put"
                PROVE  /\ FoldedAll(rows[e], verb'[e][u].arch.rows)
                       /\ verb'[e][u].cfg.pushEtag # a.sha
    BY <1>1 DEF PutHolds
  <2>1. verb'[e][u] = verb[e][u]
    BY DEF Becomes
  <2>2. verb[e][u].cfg.pushEtag # a.sha
    BY <1>2 DEF Names, Stamps
  <2>. QED
    BY <2>1, <2>2 DEF IInv, PutHolds
<1>13. MergeHolds'
  <2>. SUFFICES ASSUME NEW e \in Device \ crossed, NEW u \in Slots, verb'[e][u].pc = "merge"
                PROVE  e # d
    BY <1>10 DEF MergeHolds
  <2>. QED
    BY <1>1 DEF IInv, Alone, Becomes
<1>. QED
  BY <1>5, <1>6, <1>7, <1>8, <1>9, <1>11, <1>12, <1>13 DEF IInv

\* An answered PUT keeps the invariant.
LEMMA PutStep ==
    ASSUME IInv, TypeOK', NEW d \in Device, NEW s \in Slots, Put(d, s)
    PROVE  IInv'
<1>. DEFINE c == Pushed(verb[d][s].cfg, verb[d][s].arch)
            v == [pc |-> "persist", cfg |-> c, arch |-> NoArchive, shown |-> verb[d][s].shown]
<1>1. /\ PutLands(d, s) /\ Goto(d, s, "persist", c)
      /\ UNCHANGED <<now, serial, rows, cfg, had, proc, upsets, crossed, missed>>
  BY DEF Put, storeVars, history
<1>2. verb[d][s].cfg \in SyncConfigs /\ c \in SyncConfigs
  <2>1. verb[d][s].cfg \in SyncConfigs /\ verb[d][s].arch \in Archives /\ etags \in BOOLEAN
    BY VerbTyped DEF IInv, TypeOK, Verbs
  <2>. QED
    BY <2>1, StampTypes
<1>3. Becomes(d, s, v) /\ page' = page
  BY <1>1, <1>2, GotoBecomes DEF IInv
<1>4. \A n \in Stamps(c) : n = 0 \/ n = verb[d][s].arch.sha \/ n \in Stamps(verb[d][s].cfg)
  BY <1>2, PushedStamps
<1>5. v.pc = "persist" /\ v.cfg = c /\ v.arch = NoArchive
  OBVIOUS
<1>. HIDE DEF v, c
<1>. QED
  BY <1>1, <1>3, <1>4, <1>5, LandStep

\* So does a PUT whose answer is lost.
LEMMA PutUnansweredStep ==
    ASSUME IInv, TypeOK', NEW d \in Device, NEW s \in Slots, PutUnanswered(d, s)
    PROVE  IInv'
<1>1. /\ PutLands(d, s) /\ Finish(d, s) /\ upsets' = upsets + 1
      /\ UNCHANGED <<now, serial, rows, cfg, had, proc, crossed, missed>>
  BY DEF PutUnanswered, Upset, storeVars
<1>2. /\ Becomes(d, s, NoVerb)
      /\ \A e \in Device : page'[e].cfg = page[e].cfg \/ page'[e].cfg = cfg'[e]
  BY <1>1, FinishBecomes DEF IInv, TypeOK
<1>3. NoVerb.pc = "idle" /\ NoVerb.arch = NoArchive
  BY DEF NoVerb
<1>. QED
  BY <1>1, <1>2, <1>3, FreshNames, LandStep

\* The merge keeps the invariant.
LEMMA MergeStep ==
    ASSUME IInv, TypeOK', NEW d \in Device, NEW s \in Slots, Merge(d, s)
    PROVE  IInv'
<1>. DEFINE a == verb[d][s].arch
            c == Pulled(verb[d][s].cfg, a)
            v == [pc |-> "persist", cfg |-> c, arch |-> NoArchive, shown |-> verb[d][s].shown]
<1>1. /\ verb[d][s].pc = "merge" /\ Goto(d, s, "persist", c)
      /\ UNCHANGED <<now, serial, remote, cfg, had, proc, crossed>>
      /\ upsets' = upsets \/ upsets' = upsets + 1
  BY DEF Merge, Upset, storeVars
<1>2. verb[d][s].cfg \in SyncConfigs /\ c \in SyncConfigs /\ a \in Archives
  <2>1. verb[d][s].cfg \in SyncConfigs /\ a \in Archives /\ etags \in BOOLEAN
    BY VerbTyped DEF IInv, TypeOK, Verbs
  <2>. QED
    BY <2>1, StampTypes
<1>20. PICK failing \in SUBSET Row :
         /\ rows' = [rows EXCEPT ![d] = merge_pending_into_local(@, verb[d][s].arch.rows, failing)]
         /\ missed' = [missed EXCEPT ![d] = @ \cup failing]
  BY DEF Merge
<1>3. /\ rows[d] \in [Row -> RowStates] /\ a.rows \in [Row -> RowStates]
      /\ rows'[d] = merge_pending_into_local(rows[d], a.rows, failing)
      /\ missed'[d] = missed[d] \cup failing
      /\ \A e \in Device : e # d => rows'[e] = rows[e] /\ missed'[e] = missed[e]
  <2>1. /\ rows \in [Device -> [Row -> RowStates]] /\ a.rows \in [Row -> RowStates]
        /\ missed \in [Device -> SUBSET Row]
    BY <1>2 DEF IInv, TypeOK, Archives
  <2>. QED
    BY <1>20, <2>1
<1>4. Becomes(d, s, v) /\ page' = page
  BY <1>1, <1>2, GotoBecomes DEF IInv
<1>5. v.pc = "persist" /\ v.cfg = c /\ v.arch = NoArchive
  OBVIOUS
<1>6. \A n \in Stamps(c) : n = a.sha \/ n \in Stamps(verb[d][s].cfg)
  BY <1>2, PulledStamps
<1>. HIDE DEF v, c
<1>7. /\ a.sha \in Serials /\ remote.sha \in Serials
      /\ \A e \in Device, u \in Slots : verb[e][u].arch.sha \in Serials
      /\ NoArchive.sha = 0 /\ serial \in Nat /\ now \in Nat /\ upsets \in Nat
      /\ \A e \in Device : proc[e] \in Nat
      /\ \A r \in Row : NoArchive.rows[r].ts = 0 /\ NoArchive.rows[r].del = 0
  BY VerbTyped, SyncAssumption DEF IInv, TypeOK, Archives, Verbs, NoArchive, NoRow, Serials
<1>8. \A e \in Device, n \in Serials \ {0} :
        Names(had'[e], verb'[e], n) => Names(had[e], verb[e], n) \/ (n = a.sha /\ e = d)
  BY <1>1, <1>4, <1>5, <1>6 DEF Becomes, Names
<1>9. /\ FoldedOn(Row \ failing, rows'[d], a.rows)
      /\ \A r \in failing : rows'[d][r] = rows[d][r]
  BY <1>3, MergeFolds DEF FoldedOn, merge_pending_into_local
<1>10. StampsPast'
  <2>1. By(rows'[d], now)
    BY <1>3, MergeBy DEF IInv, StampsPast
  <2>2. \A e \in Device : By(rows'[e], now)
    BY <1>3, <2>1 DEF IInv, StampsPast
  <2>3. \A e \in Device, u \in Slots : By(verb'[e][u].arch.rows, now)
    BY <1>4, <1>5, <1>7 DEF IInv, StampsPast, Becomes, By
  <2>. QED
    BY <1>1, <2>2, <2>3 DEF IInv, StampsPast
<1>11. Bounded'
  <2>1. \A e \in Device, n \in Serials : Knows(e, n)' => n <= serial'
    BY <1>1, <1>7, <1>8 DEF IInv, Bounded, Knows, Serials
  <2>2. \A e \in Device, u \in Slots : verb'[e][u].arch.sha <= serial'
    BY <1>1, <1>4, <1>5, <1>7 DEF IInv, Bounded, Becomes
  <2>3. \A e \in Device : proc'[e] <= upsets'
    BY <1>1, <1>7 DEF IInv, Bounded
  <2>. QED
    BY <1>1, <1>4, <2>1, <2>2, <2>3 DEF IInv, Bounded
<1>12. PutIsNew'
  <2>1. \A e \in Device, u \in Slots : verb[e][u].pc = "put" => verb[e][u].arch.sha # a.sha
    <3>. SUFFICES ASSUME NEW e \in Device, NEW u \in Slots, verb[e][u].pc = "put",
                         verb[e][u].arch.sha = verb[d][s].arch.sha
                  PROVE  FALSE
      OBVIOUS
    <3>1. \A f \in Device, w \in Slots : verb[f][w].arch.sha = verb[e][u].arch.sha => f = e /\ w = u
      BY DEF IInv, PutIsNew
    <3>. QED
      BY <1>1, <3>1
  <2>2. \A e \in Device, u \in Slots :
          /\ verb'[e][u].pc = "put" => verb'[e][u] = verb[e][u] /\ verb[e][u].arch.sha # a.sha
          /\ \/ verb'[e][u].arch.sha = 0
             \/ verb'[e][u].arch.sha = a.sha
             \/ verb'[e][u].arch = verb[e][u].arch
    BY <1>4, <1>5, <1>7, <2>1 DEF Becomes
  <2>3. \A e \in Device, n \in Serials \ {0} :
          Names(had'[e], verb'[e], n) => Names(had[e], verb[e], n) \/ n = a.sha
    BY <1>8
  <2>. HIDE DEF a
  <2>. QED
    BY <1>1, <2>2, <2>3, NewStaysNew
<1>13. MergesRemote'
  BY <1>1, <1>4, <1>5 DEF IInv, MergesRemote, Becomes
<1>14. \A e \in Device \ crossed' : Alone(e)'
  BY <1>1, <1>4 DEF IInv, Alone, Becomes
<1>15. \A e \in Device : Claims(e)' => Claims(e) \/ (e = d /\ a.sha = remote.sha)
  BY <1>1, <1>7, <1>8 DEF Claims, Knows, own_origin
<1>16. \A e \in Device : Owns(e)' => Owns(e)
  <2>1. PushStamps(v.cfg) = PushStamps(verb[d][s].cfg)
    BY <1>2, <1>5, PulledStamps DEF c
  <2>2. \A e \in Device, n \in Serials :
          PutNames(had'[e], verb'[e], n) => PutNames(had[e], verb[e], n)
    BY <1>1, <1>4, <2>1 DEF Becomes, PutNames
  <2>. QED
    BY <1>1, <1>7, <2>2 DEF Owns, HasPut, own_origin
<1>21. Claimed'
  <2>. SUFFICES ASSUME NEW e \in Device \ crossed
                PROVE  /\ Claims(e)' => FoldedOn(Row \ missed'[e], rows'[e], remote.rows)
                       /\ Owns(e)' => FoldedAll(rows'[e], remote.rows)
    BY <1>1 DEF Claimed
  <2>1. CASE e # d
    BY <1>3, <1>15, <1>16, <2>1 DEF IInv, Claimed
  <2>2. CASE e = d
    <3>. SUFFICES ASSUME Claims(d)' \/ Owns(d)'
                  PROVE  /\ FoldedOn(Row \ missed'[d], rows'[d], remote.rows)
                         /\ Owns(d)' => FoldedAll(rows'[d], remote.rows)
      BY <2>2
    <3>1. Owns(d) => Claims(d)
      BY DEF Owns, Claims, Knows, Names, Stamps, HasPut, PutNames, PushStamps
    <3>2. a.sha = remote.sha
      BY <1>1, <1>15, <1>16, <2>2, <3>1 DEF IInv, MergeHolds
    <3>3. a = remote
      BY <1>1, <3>2 DEF IInv, MergesRemote
    <3>4. FoldedOn(Row \ missed'[d], rows'[d], remote.rows)
      BY <1>3, <1>9, <3>3 DEF FoldedOn
    <3>5. ASSUME Owns(d)' PROVE FoldedAll(rows'[d], remote.rows)
      <4>1. FoldedAll(rows[d], remote.rows)
        BY <1>16, <2>2, <3>5 DEF IInv, Claimed
      <4>. QED
        BY <1>9, <3>3, <4>1 DEF FoldedAll, FoldedOn
    <3>. QED
      BY <3>4, <3>5
  <2>. QED
    BY <2>1, <2>2
<1>17. \A e \in Device \ crossed, u \in Slots :
         verb'[e][u].pc = "put" \/ verb'[e][u].pc = "merge" => e # d /\ verb'[e][u] = verb[e][u]
  BY <1>1, <1>4, <1>5 DEF IInv, Alone, Becomes
<1>18. PutHolds'
  BY <1>1, <1>3, <1>17 DEF IInv, PutHolds
<1>19. MergeHolds'
  BY <1>1, <1>15, <1>17 DEF IInv, MergeHolds
<1>. QED
  BY <1>10, <1>11, <1>12, <1>13, <1>14, <1>18, <1>19, <1>21 DEF IInv

-----------------------------------------------------------------------------
(* The theorems.                                                           *)

\* The invariant holds of a fresh pair of installs.
LEMMA InitInv == Init => IInv
<1>. SUFFICES ASSUME Init PROVE IInv
  OBVIOUS
<1>1. TypeOK
  BY ConstantTypes, SyncAssumption DEF Init, TypeOK, Verbs, Serials
<1>2. /\ \A d \in Device : had[d] = {Fresh} /\ cfg[d] = Fresh /\ page[d].cfg = Fresh /\ proc[d] = 0
      /\ \A d \in Device, s \in Slots : verb[d][s] = NoVerb
      /\ \A d \in Device, r \in Row : rows[d][r] = NoRow
      /\ remote = NoArchive /\ now = 0 /\ serial = 0 /\ upsets = 0
  BY DEF Init
<1>3. /\ NoVerb.pc = "idle" /\ NoVerb.arch = NoArchive /\ NoVerb.cfg = Fresh
      /\ NoArchive.sha = 0 /\ NoArchive.origin.run = 0
      /\ \A r \in Row : NoArchive.rows[r] = NoRow
      /\ NoRow.ts = 0 /\ NoRow.del = 0
  BY DEF NoVerb, NoArchive, NoRow, NoProcess
<1>4. StampsPast
  BY <1>2, <1>3 DEF StampsPast, By
<1>5. Bounded
  <2>1. \A d \in Device, n \in Serials : Knows(d, n) => n = 0
    BY <1>2, <1>3, FreshNames DEF Knows, Names
  <2>. QED
    BY <1>2, <1>3, <2>1 DEF Bounded
<1>6. PutIsNew /\ MergesRemote /\ PutHolds /\ MergeHolds /\ Claimed
  BY <1>2, <1>3 DEF PutIsNew, MergesRemote, PutHolds, MergeHolds, Claimed, Claims, Owns
<1>7. \A d \in Device \ crossed : Alone(d)
  BY <1>2, <1>3 DEF Alone
<1>. QED
  BY <1>1, <1>4, <1>5, <1>6, <1>7 DEF IInv

\* Every step keeps it.
LEMMA NextInv == IInv /\ [Next]_vars => IInv'
<1>. SUFFICES ASSUME IInv, [Next]_vars PROVE IInv'
  OBVIOUS
<1>1. TypeOK'
  BY TypeStep DEF IInv, Bounded
<1>2. CASE Next
  <2>1. PICK d \in Device :
          \/ \E r \in Row : Create(d, r) \/ Edit(d, r) \/ Delete(d, r)
          \/ SaveConfig(d) \/ ReopenPage(d) \/ Crash(d)
          \/ \E s \in Slots : BeginPush(d, s) \/ Get(d, s) \/ Work(d, s)
    BY <1>2 DEF Next
  <2>. QED
    BY <1>1, <2>1, EditStep, SaveConfigStep, ReopenPageStep, CrashStep, BeginPushStep, GetStep,
       GiveUpStep, PutStep, PutUnansweredStep, MergeStep, PersistStep DEF Work
<1>3. CASE UNCHANGED vars
  <2>. USE <1>3 DEF vars, storeVars, history, IInv
  <2>1. StampsPast' /\ PutIsNew' /\ MergesRemote' /\ \A d \in Device \ crossed' : Alone(d)'
    BY DEF StampsPast, PutIsNew, MergesRemote, Alone, Knows
  <2>2. Bounded' /\ PutHolds'
    BY DEF Bounded, PutHolds, Knows
  <2>3. \A d \in Device : Claims(d)' = Claims(d) /\ Owns(d)' = Owns(d)
    BY DEF Claims, Owns, Knows, HasPut, own_origin
  <2>4. Claimed' /\ MergeHolds'
    BY <2>3 DEF Claimed, MergeHolds
  <2>. QED
    BY <1>1, <2>1, <2>2, <2>4
<1>. QED
  BY <1>2, <1>3

\* The variables have their types in every behaviour: stamps, serials and
\* process numbers stay within their bounds (push, pull, crash, edits).
THEOREM TypeCorrect == Spec => []TypeOK
<1>1. IInv => TypeOK
  BY DEF IInv
<1>. QED
  BY <1>1, InitInv, NextInv, PTL DEF Spec

\* Whatever archive pull would answer "up to date" for, by ETag, hash or origin
\* (pull_with_client, sha_match_outcome, own_origin_outcome), has been merged
\* or composed by the device, except for the rows that failed to apply in a
\* merge, for any number of devices, rows and crashes.
THEOREM SkippedIsTakenIn == Spec => []UpToDateIsTrue
<1>1. IInv => UpToDateIsTrue
  <2>. SUFFICES ASSUME IInv, NEW d \in Device \ crossed, remote.sha # 0, Skips(d, remote)
                PROVE  \A r \in Row : \/ Folded(rows[d][r], remote.rows[r])
                                      \/ r \in missed[d] /\ ~own_origin(d, remote)
    BY DEF UpToDateIsTrue
  <2>1. cfg[d] \in had[d]
    BY DEF IInv, Bounded
  <2>2. Claims(d)
    BY <2>1 DEF Skips, build_if_none_match, sha_match, Claims, Knows, Names, Stamps
  <2>. QED
    BY <2>2 DEF IInv, Claimed, Owns, FoldedAll, FoldedOn
<1>. QED
  BY <1>1, InitInv, NextInv, PTL DEF Spec

\* A PUT with If-Match (push) replaces an archive only by one that holds
\* everything in it, for any number of devices, rows and crashes.
THEOREM PushSafe == Spec => PushKeepsPeers
<1>1. ASSUME IInv, NEW d \in Device \ crossed, NEW s \in Slots,
             PutLands(d, s), verb[d][s].cfg.pushEtag # 0
      PROVE  \A r \in Row : Folded(remote'.rows[r], remote.rows[r])
  BY <1>1 DEF IInv, PutHolds, PutLands, IfMatch, FoldedAll, FoldedOn
<1>2. IInv => [\A d \in Device \ crossed, s \in Slots :
                 PutLands(d, s) /\ verb[d][s].cfg.pushEtag # 0 =>
                     \A r \in Row : Folded(remote'.rows[r], remote.rows[r])]_vars
  BY <1>1
<1>. QED
  BY <1>2, InitInv, NextInv, PTL DEF Spec, PushKeepsPeers

=============================================================================
