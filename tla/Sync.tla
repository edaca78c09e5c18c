-------------------------------- MODULE Sync --------------------------------
(***************************************************************************)
(* Synchronisation of several installations through one archive on a       *)
(* WebDAV server: push and pull (lfs_core/src/sync/service.rs), the        *)
(* last-write-wins merge (archive/apply/mod.rs and the apply_tombstone of  *)
(* the tables), the sync slice of the configuration store with its         *)
(* debounced write (config_store.rs) and the settings page that drives     *)
(* them (settings_sections_sync.dart).                                     *)
(*                                                                         *)
(* A row is its two stamps: what a row says is left out, an edit is its    *)
(* stamp.  Every archive is encrypted with a fresh salt, so an archive is  *)
(* identified by a serial number that stands for its SHA-256 and, once it  *)
(* is on the server, for its ETag.  0 is the empty string of the           *)
(* configuration.  No two edits have the same stamp, and the clocks of the *)
(* devices agree.                                                          *)
(***************************************************************************)
EXTENDS Naturals, FiniteSets

CONSTANTS Device,
          Row,          \* identifiers of rows
          CreatedOnly,  \* rows of tables without updated_at: tags, keys
          MaxTime,      \* bound on the clock
          MaxPush,      \* bound on composed archives
          MaxUpset,     \* bound on crashes, lost answers, failing rows and visits to the settings
          Slots         \* bound on the verbs a device has in flight

ASSUME SyncAssumption ==
    /\ CreatedOnly \subseteq Row
    /\ MaxTime \in Nat /\ MaxPush \in Nat /\ MaxUpset \in Nat

VARIABLES
    now,      \* the clock
    serial,   \* archives composed so far
    etags,    \* the server answers a PUT with the new ETag
    remote,   \* the archive on the server
    rows,     \* the database of each device
    cfg,      \* Store.current, the sync slice
    had,      \* history: the values cfg has had, one of which is in config.json
    verb,     \* the push and the pull a device has in flight
    page,     \* the settings page: its copy of the slice, _busy
    proc,     \* the process: read_install_id is drawn once per process
    upsets,   \* what has come in the way so far
    crossed,  \* history: devices that had two verbs in flight
    missed    \* history: rows of which a device has failed to apply a version

storeVars == <<cfg, had>>
history == <<upsets, crossed, missed>>
vars == <<etags, now, serial, remote, rows, storeVars, verb, page, proc, history>>

NoRow == [ts |-> 0, del |-> 0]
RowStates == [ts : 0..MaxTime, del : 0..MaxTime]
Serials == 0..MaxPush
Processes == [dev : Device, run : 0..MaxUpset]
NoProcess == [dev |-> "none", run |-> 0]
Archives == [sha : Serials, origin : Processes \cup {NoProcess}, rows : [Row -> RowStates]]
SyncConfigs == [enabled : BOOLEAN, pushEtag : Serials, pushSha : Serials,
                pullEtag : Serials, pullSha : Serials]

Fresh == [enabled |-> TRUE, pushEtag |-> 0, pushSha |-> 0, pullEtag |-> 0, pullSha |-> 0]
NoArchive == [sha |-> 0, origin |-> NoProcess, rows |-> [r \in Row |-> NoRow]]
NoVerb == [pc |-> "idle", cfg |-> Fresh, arch |-> NoArchive, shown |-> FALSE]

Exists(row) == row.ts # 0
Live(row) == Exists(row) /\ row.del = 0

Init ==
    /\ etags \in BOOLEAN
    /\ now = 0
    /\ serial = 0
    /\ remote = NoArchive
    /\ rows = [d \in Device |-> [r \in Row |-> NoRow]]
    /\ cfg = [d \in Device |-> Fresh]
    /\ had = [d \in Device |-> {Fresh}]
    /\ verb = [d \in Device |-> [s \in Slots |-> NoVerb]]
    /\ page = [d \in Device |-> [cfg |-> Fresh, busy |-> FALSE]]
    /\ proc = [d \in Device |-> 0]
    /\ upsets = 0
    /\ crossed = {}
    /\ missed = [d \in Device |-> {}]
-----------------------------------------------------------------------------
(* The user's edits.                                                       *)

Tick == now < MaxTime /\ now' = now + 1

\* A row is created on one device, under a fresh identifier.
Create(d, r) ==
    /\ \A e \in Device : ~Exists(rows[e][r])
    /\ Tick
    /\ rows' = [rows EXCEPT ![d][r] = [ts |-> now', del |-> 0]]
    /\ UNCHANGED <<serial, remote, storeVars, verb, page, proc, history>>

Edit(d, r) ==
    /\ r \notin CreatedOnly
    /\ Live(rows[d][r])
    /\ Tick
    /\ rows' = [rows EXCEPT ![d][r].ts = now']
    /\ UNCHANGED <<serial, remote, storeVars, verb, page, proc, history>>

\* Mutant: the tombstone is stamped in the future.
Delete_Ahead(d, r) ==
    /\ Live(rows[d][r])
    /\ Tick
    /\ rows' = [rows EXCEPT ![d][r].del = now' + 1]
    /\ UNCHANGED <<serial, remote, storeVars, verb, page, proc, history>>

\* The row stays with deleted_at set; updated_at is not touched.
Delete(d, r) ==
    /\ Live(rows[d][r])
    /\ Tick
    /\ rows' = [rows EXCEPT ![d][r].del = now']
    /\ UNCHANGED <<serial, remote, storeVars, verb, page, proc, history>>
-----------------------------------------------------------------------------
(* The merge.                                                              *)

\* Mutant: the comparison is the wrong way round.
lww_peer_loses_Newer(l, p) == Live(l) /\ p.ts >= l.ts

\* The local rows of the gate are those of list_all: live rows only.
lww_peer_loses(l, p) == Live(l) /\ p.ts <= l.ts

\* UPDATE ... WHERE, per table: an absent row stays absent.
apply_tombstone(r, l, p) ==
    IF r \in CreatedOnly
    THEN IF Live(l) /\ l.ts < p.del THEN [l EXCEPT !.del = p.del] ELSE l
    ELSE IF Exists(l) /\ l.ts < p.del THEN [ts |-> p.del, del |-> p.del] ELSE l

apply_one(r, l, p) ==
    IF ~Exists(p) THEN l
    ELSE IF p.del # 0 THEN apply_tombstone(r, l, p)
    ELSE IF lww_peer_loses(l, p) THEN l ELSE p

\* Rows that fail to apply are collected as errors and left as they are.
merge_pending_into_local(mine, theirs, failing) ==
    [r \in Row |-> IF r \in failing THEN mine[r] ELSE apply_one(r, mine[r], theirs[r])]
-----------------------------------------------------------------------------
(* The settings page and the configuration store.                          *)

Upset == upsets < MaxUpset /\ upsets' = upsets + 1

\* Store::update_sync: replace the slice.  The debounced write of config.json
\* happens later, if at all.
update_sync(d, c) ==
    /\ cfg' = [cfg EXCEPT ![d] = c]
    /\ had' = [had EXCEPT ![d] = @ \cup {c}]

\* _saveConfig writes the stamps of the page's own copy back, then reloads it.
SaveConfig(d) ==
    /\ Upset
    /\ LET c == [page[d].cfg EXCEPT !.enabled = ~@] IN
         /\ update_sync(d, c)
         /\ page' = [page EXCEPT ![d].cfg = c]
    /\ UNCHANGED <<now, serial, remote, rows, verb, proc, crossed, missed>>

\* The page is closed and opened again: a new state object, which knows nothing
\* of a verb in flight.
ReopenPage(d) ==
    /\ Upset
    /\ page' = [page EXCEPT ![d] = [cfg |-> cfg[d], busy |-> FALSE]]
    /\ verb' = [verb EXCEPT ![d] = [s \in Slots |-> [@[s] EXCEPT !.shown = FALSE]]]
    /\ UNCHANGED <<now, serial, remote, rows, storeVars, proc, crossed, missed>>

\* The process dies and is started again: the database and config.json remain.
\* The write may be behind by any number of values, for it is debounced and
\* two flushes may land in the wrong order.
Crash(d) ==
    /\ Upset
    /\ \E c \in had[d] :
         /\ cfg' = [cfg EXCEPT ![d] = c]
         /\ page' = [page EXCEPT ![d] = [cfg |-> c, busy |-> FALSE]]
    /\ verb' = [verb EXCEPT ![d] = [s \in Slots |-> NoVerb]]
    /\ proc' = [proc EXCEPT ![d] = @ + 1]
    /\ UNCHANGED <<now, serial, remote, rows, had, crossed, missed>>
-----------------------------------------------------------------------------
(* Push and pull.                                                          *)

\* prepare: the verb works on a copy of the configuration.  Push composes its
\* archive in the same step; so does the server answer a pull: what another
\* device does in between could as well come before, and what this device
\* does could come after.
Begin(d, s) ==
    /\ ~page[d].busy
    /\ cfg[d].enabled
    /\ verb[d][s].pc = "idle"
    /\ crossed' = IF \E u \in Slots : verb[d][u].pc # "idle" THEN crossed \cup {d} ELSE crossed
    /\ UNCHANGED <<now, remote, rows, storeVars, proc, upsets, missed>>

Start(d, s, pc, c, a) ==
    /\ verb' = [verb EXCEPT ![d][s] = [pc |-> pc, cfg |-> c, arch |-> a, shown |-> TRUE]]
    /\ page' = [page EXCEPT ![d].busy = TRUE]

Goto(d, s, pc, c) ==
    /\ verb' = [verb EXCEPT ![d][s] = [pc |-> pc, cfg |-> c, arch |-> NoArchive,
                                         shown |-> @.shown]]
    /\ UNCHANGED page

\* The future of _onPush or _onPull completes: the page, if it is still the
\* one that started the verb, is freed and reloads its copy.
Finish(d, s) ==
    /\ verb' = [verb EXCEPT ![d][s] = NoVerb]
    /\ page' = IF verb[d][s].shown THEN [page EXCEPT ![d] = [cfg |-> cfg'[d], busy |-> FALSE]]
               ELSE page

\* An error before the configuration is written back.
VerbFails(d, s) ==
    /\ verb[d][s].pc \in {"put", "merge"}
    /\ UNCHANGED storeVars
    /\ Finish(d, s)
    /\ UNCHANGED <<now, serial, remote, rows, proc, history>>

BeginPush(d, s) ==
    /\ Begin(d, s)
    /\ serial < MaxPush
    /\ serial' = serial + 1
    /\ Start(d, s, "put", cfg[d],
             [sha |-> serial + 1, origin |-> [dev |-> d, run |-> proc[d]], rows |-> rows[d]])

\* Mutant: the push is sent without a condition.
IfMatch_Always(c) == TRUE

\* The server's answer to PUT with If-Match: last_pushed_etag.
IfMatch(c) == c.pushEtag = 0 \/ c.pushEtag = remote.sha

PutLands(d, s) ==
    /\ verb[d][s].pc = "put"
    /\ IfMatch(verb[d][s].cfg)
    /\ remote' = verb[d][s].arch

Pushed(c, a) == [c EXCEPT !.pushSha = a.sha, !.pushEtag = IF etags THEN a.sha ELSE 0]

Put(d, s) ==
    /\ PutLands(d, s)
    /\ Goto(d, s, "persist", Pushed(verb[d][s].cfg, verb[d][s].arch))
    /\ UNCHANGED <<now, serial, rows, storeVars, proc, history>>

\* The archive is stored, the answer is lost.
PutUnanswered(d, s) ==
    /\ PutLands(d, s)
    /\ Upset
    /\ UNCHANGED storeVars
    /\ Finish(d, s)
    /\ UNCHANGED <<now, serial, rows, proc, crossed, missed>>

PutRefused(d, s) ==
    /\ verb[d][s].pc = "put"
    /\ ~IfMatch(verb[d][s].cfg)
    /\ UNCHANGED storeVars
    /\ Finish(d, s)
    /\ UNCHANGED <<now, serial, remote, rows, proc, history>>

\* If-None-Match carries both ETags.
build_if_none_match(c) == {c.pushEtag, c.pullEtag} \ {0}
sha_match(c, a) == a.sha \in {c.pushSha, c.pullSha} \ {0}
own_origin(d, a) == a.origin = [dev |-> d, run |-> proc[d]]

Pulled(c, a) == [c EXCEPT !.pullEtag = a.sha, !.pullSha = a.sha]

\* Without an archive (404), or with one the device knows by its ETag (304), the
\* verb ends and nothing has changed.  An archive known by its hash or its origin: only
\* the stamps are written back.
Get(d, s) ==
    /\ Begin(d, s)
    /\ UNCHANGED serial
    /\ remote.sha # 0
    /\ remote.sha \notin build_if_none_match(cfg[d])
    /\ IF sha_match(cfg[d], remote) \/ own_origin(d, remote)
       THEN Start(d, s, "persist", Pulled(cfg[d], remote), NoArchive)
       ELSE Start(d, s, "merge", cfg[d], remote)

\* One transaction, which commits and stamps the archive as pulled although
\* rows have failed: a tag whose name a live tag of the device has, for one.
Merge(d, s) ==
    /\ verb[d][s].pc = "merge"
    /\ \E failing \in SUBSET Row :
         /\ \A r \in failing : apply_one(r, rows[d][r], verb[d][s].arch.rows[r]) # rows[d][r]
         /\ rows' = [rows EXCEPT ![d] = merge_pending_into_local(@, verb[d][s].arch.rows, failing)]
         /\ missed' = [missed EXCEPT ![d] = @ \cup failing]
         /\ IF failing = {} THEN UNCHANGED upsets ELSE Upset
    /\ Goto(d, s, "persist", Pulled(verb[d][s].cfg, verb[d][s].arch))
    /\ UNCHANGED <<now, serial, remote, storeVars, proc, crossed>>

\* The whole slice goes back, the copy taken at the start included.
persist_sync(d, s) ==
    /\ verb[d][s].pc = "persist"
    /\ update_sync(d, verb[d][s].cfg)
    /\ Finish(d, s)
    /\ UNCHANGED <<now, serial, remote, rows, proc, history>>
-----------------------------------------------------------------------------
Work(d, s) ==
    \/ VerbFails(d, s)
    \/ Put(d, s) \/ PutUnanswered(d, s) \/ PutRefused(d, s)
    \/ Merge(d, s) \/ persist_sync(d, s)

Next ==
    /\ UNCHANGED etags
    /\ \E d \in Device :
        \/ \E r \in Row : Create(d, r) \/ Edit(d, r) \/ Delete(d, r)
        \/ SaveConfig(d) \/ ReopenPage(d)
        \/ Crash(d)
        \/ \E s \in Slots : BeginPush(d, s) \/ Get(d, s) \/ Work(d, s)

Spec == Init /\ [][Next]_vars

-----------------------------------------------------------------------------
(* Properties.                                                             *)

\* Type correctness: stamps are times that have passed, serial numbers name
\* composed archives, and every configuration, verb and page has its fields.
TypeOK ==
    /\ etags \in BOOLEAN
    /\ now \in 0..MaxTime
    /\ serial \in Serials
    /\ remote \in Archives
    /\ rows \in [Device -> [Row -> RowStates]]
    /\ cfg \in [Device -> SyncConfigs]
    /\ had \in [Device -> SUBSET SyncConfigs]
    /\ verb \in [Device -> [Slots -> [pc : {"idle", "put", "merge", "persist"},
                                     cfg : SyncConfigs, arch : Archives, shown : BOOLEAN]]]
    /\ page \in [Device -> [cfg : SyncConfigs, busy : BOOLEAN]]
    /\ proc \in [Device -> 0..MaxUpset]
    /\ upsets \in 0..MaxUpset
    /\ crossed \subseteq Device
    /\ missed \in [Device -> SUBSET Row]

\* What a device that has taken in a row p must show for it.
Folded(l, p) ==
    IF ~Exists(p) THEN TRUE
    ELSE IF p.del = 0 THEN Exists(l) /\ (l.ts >= p.ts \/ l.del >= p.ts)
    ELSE ~(Live(l) /\ l.ts < p.del)

Skips(d, a) == \/ a.sha \in build_if_none_match(cfg[d])
               \/ sha_match(cfg[d], a)
               \/ own_origin(d, a)

\* A pull that answers "up to date" says the truth: whatever archive a device
\* would skip, by ETag, by hash or by origin, it has taken in, after any
\* crash, lost answer or stale write of the configuration.  Not so for a row
\* that has failed to apply there: the merge commits without it, and the
\* archive is skipped all the same.  Of an archive that it has put there
\* itself a device has those rows, too.
UpToDateIsTrue ==
    \A d \in Device \ crossed :
        remote.sha # 0 /\ Skips(d, remote) =>
            \A r \in Row : \/ Folded(rows[d][r], remote.rows[r])
                           \/ r \in missed[d] /\ ~own_origin(d, remote)

\* A push with an ETag never removes from the server what another device put
\* there.
PushKeepsPeers ==
    [][\A d \in Device \ crossed, s \in Slots :
          PutLands(d, s) /\ verb[d][s].cfg.pushEtag # 0 =>
              \A r \in Row : Folded(remote'.rows[r], remote.rows[r])]_vars

\* The last-write-wins rule also protects a deletion: a pull brings a deleted
\* row back only as a newer edit.
DeletionKept ==
    [][\A d \in Device, s \in Slots, r \in Row :
          Merge(d, s) /\ Exists(rows[d][r]) /\ ~Live(rows[d][r]) /\ Live(rows'[d][r])
              => rows'[d][r].ts > rows[d][r].del]_vars

\* Pull, then push: once a device has pulled what is on the server its push
\* is accepted.
PullUnblocksPush ==
    \A d \in Device :
        remote.sha # 0 /\ cfg[d].pullEtag = remote.sha => IfMatch(cfg[d])
=============================================================================
