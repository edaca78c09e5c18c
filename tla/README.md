# LetsFLUTssh: a TLA+ verification project

LetsFLUTssh is an SSH/SFTP client: a Flutter UI (`lib/`) over a Rust core
(`rust/crates/lfs_core`), joined by a generated bridge (`rust/crates/lfs_frb`)
and an in-process event bus. The Rust core owns connections, transfers, the
encrypted store, the unlock tiers and the recorder; the Dart side starts
operations, awaits some of them, and mirrors the rest from bus events. Almost
all of the hard behaviour is in the seams: tokio tasks that share a registry,
Dart continuations that run after an `await`, and events that arrive after the
object they describe has moved on.

This directory models those parts as TLA+ modules, checks them with TLC on
small instances and proves the most important invariants with TLAPS for all
values of the constants.

## 1. Inventory

| Component | State it keeps | Operations | Interacts with | Hard behaviour |
|---|---|---|---|---|
| Transfer queue and worker pool (`transfer/mod.rs`, `transfer/driver.rs`, FRB `api/transfer.rs`) | task rows, bounded dispatch channel, token map, `.part` files | enqueue, dispatch, cancel, clear history, one worker loop per slot | SFTP, WebDAV and S3 providers, bus | cancel racing start and finish, promotion that is two requests, full channel |
| Transfer mirror (`lib/providers/transfer_provider.dart`) | last snapshot shown | refresh on event, clear history | bus, FRB snapshot | snapshots that return out of order, clears without an event |
| Connections (`connection/mod.rs`, `connections_notifier.dart`, `connection.dart`) | registry rows, actor state, session Arc, Dart `Connection` | connect, reconnect, disconnect, monitor tick, count publication | ssh, bus, prompts, secrets | overlapping attempts under one id, teardown in a handshake, silent link death |
| ProxyJump wait (`wait_for_parent_ready`) | a bus subscription | wait for the parent | connections, bus | lost update between snapshot and subscription |
| Session recording (`recorder/queue.rs`, `recorder/mod.rs`, `session_recorder.dart`, the tee in `lfs_frb/src/api/terminal.rs`) | buffers per direction, a deadline timer, one bounded mailbox per worker, the file of the actor | tee, deadline flush, rotate, close, worker loop | terminal, file system, bus | drains whose send comes after the unlock, aborted timers, a rotation that is two entries |
| Unlock tiers (`security/tier_machine.rs`, `tier_unlock_orchestrator.rs`, `lib/app/security_init_controller*.dart`, `tier_unlocked_listener.dart`, `lock_screen.dart`) | tier state, active database key, database handle, one pending Dart wait, startup flow | unlock at startup and from the lock screen (keychain, keychain + password, hardware, paranoid, biometric), cascade, re-open | secrets, db, bus, auto-lock | result after a lock, two surfaces sharing one wait, an event that means two things |
| Auto-lock (`autolock.rs`, `auto_lock_detector.dart`, `lock_state.dart`) | idle clock, locked flag, overlay | ticker, lifecycle and session-lock commands, lock action, mirror | unlock tiers | two critical sections per decision, two flags for one fact |
| Tier switch (`security_section_logic.dart`, `settings_sections_security_apply.dart`, `security_tier_switcher.dart`, `tier_transition_marker.rs`, `api/app.rs`, `recorder/migrate.rs`) | key of the database, vaults, gate, saved tier, marker, headers of the recordings | select a tier, wrap, mark, re-wrap, re-key, save, clear the old vaults, disable the master password, next launch | vaults, db, recordings, config | a dozen steps on five stores, each of which may fail or be the last |
| Persisted rate limiter (`security/persisted_rate_limit_actor.rs`, `rate_limit.rs`) | failure counter and next retry, in memory and on disk | init, failure, success, clear | unlock tiers | restart between failures |
| Prompt registries (`security/prompt_registry.rs`, `known_hosts.rs`) | pending one-shot senders | register, resolve, cancel, time out | connect driver, UI | answer racing the timeout |
| Port forwarding (`portforward/`) | listeners and pumps | start, stop | connections | stop while accepting |
| Sync and merge (`sync/`, `archive/apply/`, `settings_sections_sync.dart`) | rows with stamps and tombstones, stamps of the last push and pull, one archive on the server | edit, push, pull, merge, save the settings | db, webdav, config store | conditional requests with stale stamps, lost answers, crash before the stamp is saved, last-writer-wins with deletions |
| Config store (`config_store.rs`) | configuration in memory, debounced writer | set, flush | file system, bus | write in flight when a new value arrives |
| Secret store (`secrets.rs`) | locked memory slots | put, take, drop | everything that authenticates | slot overwritten while in use |
| Recovery and wipe (`security/wipe.rs`, `security/recovery.rs`) | managed files, a marker | destructive reset | db, keychain, vault | stop half-way |
| Update, migration, archive, import/export | files on disk | download, verify, migrate, stage | file system | partial failure |
| Storage registry (`storage/registry.rs`) | provider slots | insert, get, drop | transfers | slot freed in use |
| Encrypted store (`db/`) | SQLCipher tables | queries | sessions, tags, snippets | delegated to SQLite transactions |
| SSH, SFTP, WebDAV, S3 and agent clients, terminal, file browser UI, platform code | protocol state | I/O | network, OS | delegated to libraries or pure presentation |

`PROJECT.json` lists every component with its status, and every hazard with the
line where it bites and the properties that cover it.

Properties that make the modelled components correct:

* transfers: a token never cancels somebody else's task; a row says what really
  happened; a destination is replaced only by a whole file and is never lost;
  a task leaves a terminal state never; every task ends;
* connections: an actor answers for a session exactly while it is Connected; a
  registered session is always watched; only a dead link takes a row down; the
  UI ends up agreeing with the registry; sessions that lost their row are closed;
  whoever waits for an attempt is woken up;
* recording: a chunk is in one place and is never stranded in a buffer; a file
  rotates once; frames carry the index the reader recomputes; a close seals the
  file and keeps what was recorded before it;
* unlock: the tier machine is never stuck; overlay, machine, key and database
  handle agree when nothing crosses; the right password gets in; every wait ends;
* tier switch: a vault or the running app keeps the database's key; the saved
  tier or the marker's opens it; recordings and the active slot follow the key;
* sync: what a device skips it has taken in; a conditional push takes nothing
  from a peer.

Most of these hold only up to what the code does not give. Each property names
its exceptions in its comment, each exception is a step of the model that TLC
reaches, and section 2 says what it is in the code.

## 2. What is modelled, checked and proved

### 2.1 `TransferPool`: the transfer engine

Code: `lfs_core/src/transfer/mod.rs` (registry), `transfer/driver.rs` (pool,
executors), `sftp/mod.rs` (`promote_staged`), `lfs_frb/src/api/transfer.rs`.

* State. `state`, `req` are the rows of `TransferQueue`; `chan` is the
  bounded dispatch channel and `sending` the callers parked in `dispatch`;
  `tokens` is `cancel_tokens`; `pc`, `job`, `flag`, `result` are the locals of
  one `run_one` per worker; `part` and `file` are the staging file of a task and
  the content of each target, abstracted to prior / absent / torn / whole
  payload of a task. `asked`, `delivered` and `unanswered` are history for the
  properties. The byte counts of a row are left out: no guard reads them.
* Actions. `Enqueue`, `Dispatch`, `Cancel`, `DropTerminal`, `ClearHistory` and
  `ClearNext` are the calls of the UI (the history clear is a snapshot followed
  by one drop per row, as in the code). `Recv` to `Report` are `run_one` and the
  executor, split where another task can run: at every lock acquisition, await
  and file system request. `Unlink` and `RenameRemote` are the two requests of
  `promote_staged`. Provider downloads poll their stream before they look at the
  token, SSH streamers after; provider uploads are not staged. A request to the
  server may fail, or land with its answer lost or late (`Unanswered`, `Lands`):
  the rename of an SSH upload and the PUT of a provider upload, whose row is
  then Failed over a replaced target.
* `TransferLifecycle` is the abstract specification, the diagram of
  `docs/ARCHITECTURE.md:637`: none, Queued, Running or Cancelled, one terminal
  state, dropped only from there. The code never takes Queued to Cancelled:
  `transfer_cancel`.

| Run | Instance | Shows |
|---|---|---|
| `transfer` | 2 tasks, 2 workers, channel of 1, an SSH upload, an HTTP upload and an HTTP download | `TokenHitsOwner`, `ReportIsTrue`, `NoLostCopy`, `WholeFilesOnly`, refinement of `TransferLifecycle`, `EveryTaskEnds` for finite sources, `CancelEnds` for any source |
| `transfer_cancel` | 2 tasks, 1 worker, channel of 1, an SSH upload | violated: a cancel before the start is lost |

Two tasks, two workers and a channel with one slot are enough for a task to be
in each of its places while another one is in any other: waiting for room, in
the channel, held by a worker, and two runs on one target. An SSH download
differs from the HTTP one in the order of two looks only. The theorems of
section 4 remove the bounds from the safety properties.

`dispatch` waits for room in the channel; its comment (`transfer/driver.rs:122`)
says that it returns an error when the channel is full. The model waits, as the
code does.

### 2.2 `Connection`: registry, driver, monitor and Dart mirror

Code: `lfs_core/src/connection/mod.rs`, `lib/providers/connections_notifier.dart`,
`lib/core/connection/connection.dart`.

* State. `reg` is the registry; `home`, `st`, `sess`, `link` are an actor, named
  by the attempt that made it, since `connect_async` makes a new one each time;
  `drv`, `mon`, `cls`/`held` are the control states of the connect driver
  (together with the `_doConnect` that awaits it), the transport monitor and
  `disconnect`; `owner`, `latest`, `ui`, `transport`, `gate`, `ready` are the
  notifier's entry and the `Connection`; `sub`/`inbox` its bus subscription;
  `adopt` the `_adoptSession` calls in flight.
* Actions. One per step between two locks, publications or awaits. A session is
  alive while somebody holds its Arc (`SessionAlive`), which is what the
  monitor's `Weak::upgrade` asks.
* Reconnects overlap anything, prompts may be dismissed and a disconnect may come
  at any time. `crossed` is history: the latest attempt began before everything
  of the earlier ones had ended; `late`: an attempt took its row after the
  disconnect; `drv = "thrown"`: the staging of the credentials threw.

| Run | Instance | Shows |
|---|---|---|
| `connection` | 2 attempts that overlap in any way | `SessionIffConnected`, `Watched`, `NoSpuriousDrop`, `UiAgrees`, `OrphansEnd`, `AttemptResolves` |
| `connection_overlap` | the same | violated: an earlier attempt overwrites the newer state |

`UiAgrees`, `OrphansEnd` and `AttemptResolves` are about states in which nothing
of the id is in flight, so they are invariants and need no fairness. What they
except, because the code breaks it there:

* crossed attempts: the events of the earlier driver are taken for the newer
  one's, and the mirror may settle in the wrong state (finding 2) or hold the
  session of the attempt that lost;
* a dismissed prompt (`connections_notifier_auth.dart:259`): nobody catches the
  exception, the connection stays at Connecting, and whoever awaits `ready` or
  `transportReady` waits for ever (`connection.dart:384`: "Future that completes
  when connection attempt finishes");
* a `late` row: the attempt went on after the disconnect, and its session lives
  in a row that nobody owns (`connections_notifier.dart:679`).

That a silently dead link is noticed is not stated as a liveness property: with
overlapping attempts it is out of TLC's time. Its safety half is `Watched`: a
registered session has a monitor, whose loop looks at the link on every tick.

Two attempts of one id are the smallest instance with a superseded attempt; ids
share nothing but the registry map, in which they are different keys, so one id
is enough for TLC and the proofs take any number.

### 2.3 `RecorderQueue`: session recording

Code: `recorder/queue.rs`, `recorder/mod.rs`, `lib/core/session/session_recorder.dart`,
the tee in `lfs_frb/src/api/terminal.rs`.

* State. `attached`/`call` are the terminal's recorder slot and the tee calls
  that have cloned the id; `buf`, `slot` are `EventBuffers`; `timer` the
  deadline tasks; `out` what a sender has drained and not yet sent; `chan` the
  mailbox; `latch` the worker's `rotate_requested`; `requests`, `rotor`,
  `closer` the Dart recorder; `file`, `open`, `size`, `frame` the actor; `disk`,
  `spoilt`, `lost`, `cut` are history.
* Actions. `Chunk` is the critical section of `enqueue_event_chunk`;
  `TimerFires`, `TimerDrains`, `TimerCancelled` a deadline task, which an abort
  ends at its next await only; `Send` and `SendFails` one `send().await`;
  `RotateHeard`, `RotateCall`, `RotateEnds`, `StopRecording`, `CloseCall` the
  Dart recorder; `WorkHeader` to `WorkClose` the worker with the file operation
  of each entry. Byte thresholds are counted in chunks and frames.

| Run | Instance | Shows |
|---|---|---|
| `recorder_flow` | pump and one typist, 2 timers, 1 rotation at a time, mailbox of 1, 2 chunks, failing writes | `Accounted`, `NoStrandedBytes`, `OneRotation`, `FramesDecodable`, `CloseKeeps`, `ChunkSettles`, `CloseSeals` |

A mailbox of one makes every sender wait for every other; a threshold of two
chunks gives both the deadline and the threshold drain; two timers are needed
for an aborted one that still runs beside its successor; a file of one frame
makes the second chunk rotate. `CloseKeeps` is about a close that finds no other
sender with entries in hand: one that has drained and not yet sent loses its
bytes to the close (section 5, item 10). `cut` is the set of chunks that such a
close answers for: everything recorded so far that was not already lost.

### 2.4 `Unlock`: tiers, cascade, lock screen and auto-lock

Code: `security/tier_machine.rs`, `security/tier_unlock_orchestrator.rs`,
`autolock.rs`, `app.rs`; in Dart `tier_unlocked_listener.dart`, `lock_state.dart`,
`auto_lock_detector.dart`, `lock_screen.dart`, `security_init_controller.dart`
and its `_unlock` part.

* State. `machine`, `key`, `db` are the tier machine, the active key slot and
  the database handle; `att` the orchestrator call of each surface (the startup
  dialog and the lock screen), `reply` its outcome on the way back; `tierQ` and
  `lockEv` the events Dart has not seen; `alLocked`, `due`, `fire` the auto-lock
  machine, the ticker's decision and `fire_lock`; `overlay`, `active`, `boot`,
  `waiter`, `dlg`, `busy`, `reopen`, `cfg` the Dart side. `odd` records what went
  wrong so far, since some properties hold only without it.
* Actions. An orchestrator is `Begin`, `Verify`, `ReadKey` and the three steps
  of the cascade, with everything else in between. Locks come from the ticker
  (`TickerDecides`, `TickerLocks`, `Fire`), the detector's timer and the
  lifecycle (`IdleTimer`, `SystemLock`). `OnLocked` and `OnCascadeReady` are both
  listeners of the tier topic at once; they subscribe to one stream.

| Run | Instance | Shows |
|---|---|---|
| `unlock` | all four tiers, 4 inputs | `NeverWedged`, `LockedMeansClosed`, `ShownMeansOpen`, `OverlayAgrees`, `GoodSecretLifts`, `ScreenFreed`, `BootEnds` |
| `unlock_tier` | paranoid, 4 inputs | violated: a wrong password at startup can cost the saved tier |

An input is a secret given or a lock triggered; `MaxInputs` bounds both together,
so that they mix freely: a wrong secret, one into the lock screen that this
raises, a right one and a lock; or two locks around two unlocks. A person
submits what the events so far have brought up, so an attempt waits for an empty
`tierQ`; locks and failures come at any time.

Failures are part of it. A verifier, a key store and the open inside a cascade
may fail; the cascade then publishes its terminal event all the same
(`tier_unlock_orchestrator.rs:124-144`), and the startup probe or
`reopenAfterUnlock` makes up for it. The re-open may fail and is swallowed
(`rust_db_init.dart:103-125`). The listener may throw and resolves its wait with
`failed`; the wait of the startup may time out after 30 s with the attempt still
running. `_triggerLock` sends `db_close` without awaiting it
(`auto_lock_detector.dart:357`; the comment at 353 calls it "sync on the Rust
side"), so the handle closes in a later step (`closing`, `DbClose`). An overlay
that goes down and up within one frame keeps its screen with `_busy` set.

What the properties leave out, because the code does not give it:

* with a lock that crosses an unlock or the re-open (`crossed`), the database
  stays open (or the key in its slot) although the machine says Locked: `Grant`
  and `ReopenOpen` do not look at the machine again; or the workspace is shown
  over the handle that `fire_lock` has closed. Hence `odd = {}` in
  `LockedMeansClosed`, and `odd \subseteq {"error"}` in `ShownMeansOpen` and
  `OverlayAgrees`;
* a wrong secret at startup (`wrong_at_boot`) raises the lock screen over the
  dialog (finding 3); a wait that failed (`failed`) takes the fallback while the
  attempt goes on; a failed re-open (`unopened`) leaves the workspace over no
  handle;
* a screen kept across a flip of the overlay (`kept`) may stay busy: excepted
  from `ScreenFreed`;
* the lock screen runs the paranoid orchestrator for every tier
  (`main_app.dart:450`, `lock_screen.dart:35`), so only the paranoid tier has
  `GoodSecretLifts`;
* nobody sends AutoLockUnlock: after the first `fire_lock` the flag `alLocked`
  stays set, and the later locks come from Dart's `_triggerLock` alone;
* AutoLockLocked is ignored while the overlay is up (`auto_lock_detector.dart:223`).

### 2.5 `Sync`: push, pull and merge

Code: `sync/service.rs`, `sync/merge.rs`, `archive/apply/mod.rs`, the
`apply_tombstone` of the tables, `config_store.rs`, `settings_sections_sync.dart`.

* State. A row is its two stamps (`ts` for `updated_at` or `created_at`, `del`
  for `deleted_at`). `remote` is the archive on the server, named by a serial
  number that stands for its hash and its ETag, since every archive is encrypted
  with a fresh salt. `cfg` is the sync slice in memory, `had` every value it has
  had, `page` the copy the settings page works on, `verb` a push or pull in
  flight with the configuration it read at its start, `proc` the process (the
  install id is drawn once per process).
* Actions. `Create`, `Edit`, `Delete`; `BeginPush`, `Put`, `PutRefused` (412),
  `PutUnanswered` (the server stored it, the answer is lost), `Get` with its
  three ways to skip an archive, `Merge` (one transaction, in which single rows
  may fail to apply: the rest is committed), `persist_sync`, which writes the whole slice back; `SaveConfig` and `ReopenPage` of the page;
  `Crash`, after which `config.json` has any value the slice ever had.

| Run | Instance | Shows |
|---|---|---|
| `sync` | 2 devices, 1 row, 2 edits, 3 archives, 1 upset (crash, lost answer, save, reopened page, rows that fail to apply), server with or without ETags | `UpToDateIsTrue`, `PushKeepsPeers` |
| `sync_pull_push` | 2 rows, no upset | violated: a pull does not renew what If-Match carries |
| `sync_deletion` | 2 rows, no upset | violated: a pull undoes a newer deletion |

Rows merge independently, so one is enough for the passing run; three archives
are the first push of each device and a conditional one; the theorems take any
number of rows, archives, upsets and verbs in flight. Both properties stop at a
device that had two verbs in flight (`crossed`): a page that is closed and opened
again has lost `_busy` and lets a second verb start, whose write-back and the
first one's overwrite each other's stamps. With one slot per device the run has
no such device; the proof has.

A row that fails to apply (a tag whose name a live tag of the device has, against
`ON CONFLICT(id)`) is noted as an error while the archive is stamped as pulled;
the next pull skips the archive and the row stays missing, which
`sync/merge.rs:88-95` documents. `missed` holds those rows, and `UpToDateIsTrue`
excepts them, but not from an archive that the device has put there itself.

What the code does not give, and the properties therefore do not say: the first
push of a device has no condition and replaces whatever is on the server; the
write-back of a verb reverts what the user changed in the settings meanwhile;
after a crash between a PUT and the debounced write, or a `_saveConfig` with old
stamps, every push is refused from then on; an edit of a tag or a key does not
move its stamp, so it never reaches a peer that has the row.

### 2.6 `TierSwitch`: moving an installation to another tier

Code: `security_section_logic.dart`, `settings_sections_security_apply.dart`,
`security_tier_switcher.dart`, `tier_transition_marker.rs`, `api/app.rs`
(`db_rekey_from_secret`), `recorder/migrate.rs`, `api/master_password.rs`,
`security_init_controller.dart` (the next launch).

* State. Keys are numbers. On disk: `dbKey` (or `Gone`), `vault` (keychain,
  hardware, master password: a key, `Empty`, or `Broken`), `gate`, `cfg`, `marker`, `rec` (the key each recording's header is
  wrapped under). In memory: `phase`, `pc`, `target`, `staged`, `active`,
  `cfgMem`. `odd` names what has happened, as the exceptions below need it.
* Actions, in the order of the pipeline: `onSelectTier`, `gateSetPassword`,
  `wrapKey`, `promoteRecordings`, `tierTransitionMarkerWrite`,
  `rewrap_one_header` per recording, `db_rekey_from_secret`, `persistConfig`,
  `saveConfig`, `clearMarker`, then the clear plan (`clearKeychainKey`,
  `clearKeychainGate`, `clearHardwareVault`, `master_password_disable`). A step
  takes `ok`: a failure throws out of the pipeline, or is logged and passed over,
  as the code has it. Failures that leave something behind are actions of their
  own: `wrapRefused` (a fresh salt or `credentials.kdf` replaced before the write
  that was refused), `masterDisableFails`, `swapFails` and `disableFails` (the
  three places where disabling the master password can end). `applyAlwaysRekey` is the plaintext target. `Crash` may
  come between any two steps; `bootstrap` is the next launch, with `quit` and
  `retryUnlockUnderDifferentTier` of the recovery prompt.

| Run | Instance | Shows |
|---|---|---|
| `tier_switch` | all tiers, 2 recordings, 2 new keys, failures and crashes | `KeyKept`, `MarkerTells`, `RecordingsFollow`, `ActiveIsCurrent` |
| `tier_switch_lands` | the same, no faults | violated: the plaintext target leaves an encrypted database without a vault and without a marker |

Two new keys are two switches in a row, so that a vault the first one left
behind is met by the second; two recordings show a walk that stops half-way. The
exceptions are named in the properties and are what the code does; TLC finds each
of those of `MarkerTells` needed:

* `t0`: the plaintext target re-keys nothing (finding 6);
* `lost`: disabling the master password deletes the encrypted file before it
  renames the plain copy, and deletes the copy when that fails
  (`api/master_password.rs:325-336`; its comment at 270 says "the encrypted DB
  stays intact"). No database is left, and the next launch runs the first-launch
  wizard. A stop between the two leaves the same;
* `overwritten`: the keychain serves two tiers, and a tier can be re-applied; the
  vault write then replaces the only copy of the key before the re-key. A
  refused write does so too where it comes in two parts: the salt of the hardware
  vault (`api/hardware_tier_vault.rs:332`), `credentials.kdf` before the verifier
  (`security/master_password.rs:309`). The running app still has the key, and
  `KeyKept` says so; it is lost when the app stops;
* `ungated`: a failing gate write, or its roll-back, takes away the gate of the
  configured tier;
* `exported`: leaving the paranoid tier disables the master password, which
  writes the database out in the clear under whatever tier was just applied,
  without any fault;
* `torn`: headers were re-wrapped and the re-key failed; `api/app.rs:215` tells
  the caller to retry with the same secret, which the caller's `finally` drops;
* `unsaved`: the save failed after the memory was updated; a retry sees an equal
  tier, writes nothing and removes the marker;
* `interrupted`: the next launch logs and deletes the marker and unlocks with the
  saved tier; if that does not open the database, nothing knows of the switch any
  more. `tier_transition_marker.rs:8` and `security_tier_switcher.dart:17` say
  that the launch completes the switch or rolls it back. `MarkerTells` shows that
  it could: up to then the marker names a tier that opens the database.

`recovery` stands for whatever a launch comes to that does not open: the prompt,
a dialog that never takes the secret (a `Broken` vault), or the wizard.

## 3. Fairness

Weak fairness of every task's next step: tokio polls ready tasks, a bounded
channel serves waiting senders in order, `spawn_blocking` jobs finish and Dart's
event loop drains. That I/O steps return rests on request timeouts
(`webdav/client.rs`, `s3/client.rs`, the SFTP library), the connect timeout and
the prompt timeouts; a cool-down of the limiter ends by the clock. The user, the
shell, the lock triggers and the network owe nothing. `EveryTaskEnds` assumes in
addition that a worker that keeps reading meets the end of its source (strong
fairness of `Eof`); `CancelEnds` does not need it. `Sync` and `TierSwitch` state
safety only: a push or a switch that never goes on is a stopped process, which
their crashes have.

Deadlock checking is off where an instance has finitely many tasks, attempts,
chunks, submissions or archives and the system may then be idle for ever. That
nobody waits for ever is what the liveness properties say. `TierSwitch` keeps it
on: the process can always end and be started again.

## 4. Proofs

All theorems hold for every value of the constants that satisfies the named
assumptions (`TargetsAssumption`, `PoolAssumption`, `ConnectionAssumption`,
`RecorderAssumption`, `UnlockAssumption`, `SyncAssumption`,
`TierSwitchAssumption`), which say that capacities and bounds are numbers, that
the null values are not members, and that the kinds of processes are disjoint.

* `TransferPoolProofs`: `TypeCorrect`, `CancelHitsOwner`, `ReportsAreTrue`,
  `CopiesSurvive`, `OnlyWholeFiles`, `RefinesLifecycle`. None of the properties
  is inductive: a token hits its owner only because a task is in one place.
  `Ownership` says so (in a dispatch call, one channel slot or one worker, and
  the row's state is determined by the place); `TokenMap` makes the token map
  exactly the armed runs; `Outcome` carries what a run knows between its result
  and its report; `Staging` says whose `.part` is complete; `Direction` that
  only uploads unlink. Each is preserved given the ones before it. Refinement
  then follows step by step: every worker step on a row is the lifecycle's.
* `ConnectionProofs`: `ConnectionTyped`, `SessionMatchesState`,
  `RegisteredWatched`, `OnlyDeadLinksDrop`, for overlapping attempts too. The
  invariant adds to them who may write an actor: `Actors` (no session before
  the handshake), `Rows` (a row's actor has this id and is past
  `connect_async`; an actor that a teardown holds has no row), `MonHome` and
  `Mail` (monitors, events and adoptions belong to begun attempts).
* `ConnectionMirrorProofs`: `MirrorMatches`, `UiAgrees` with any number of ids and
  attempts, without hypotheses: a connection whose attempts crossed or whose
  prompt was dismissed is excepted in the property and may do anything. The
  property is about a connection with nothing in flight; the invariant `Mirror`
  says what is in flight otherwise. Per open id, `Past`: the
  earlier attempts have ended without a task, a monitor, an adoption or a
  session; `Lead`: the latest one owns the row as soon as it is staged; `Phase`:
  it is `Trying` (the inbox holds Connecting at most), `Live` (the Connected
  event is under way, or the adoption is, or the mirror wraps its session) or
  `Gone` (the last event of the inbox is Disconnected, or the mirror shows it).
* `RecorderQueueProofs`: `RecorderTyped`, `NothingStranded`, `FramesNumbered`,
  `RotatesOnce`. The types need `Bounded`, since a caller takes its chunk number
  only after it has cloned the recorder id. For `NothingStranded`: any timer may
  clear a slot that is not its own, so the slot alone does not show that bytes
  will be flushed. `Armed` adds that a slot names a timer that has not drained
  yet and that only a timer past its drain has something to send: whoever clears
  the slot has just emptied the buffers. `Numbered` counts the frames of the
  open file, which is what the actor's index is; `Rotating` follows the one
  Rotate entry from the hand of a Dart rotation to the mailbox and to the latch.
* `RecorderLedgerProofs`: `ChunksAccounted` and `CloseWritesAll`. `Ledger` makes
  five places (buffers, senders, mailbox, file, lost) split the chunks so far,
  with no chunk twice within one of them; it needs `Idle`, that whoever drains
  has nothing left from an earlier drain. `CloseWritesAll` follows the close:
  `Unsent` (before it nothing is owed and the mailbox has no Close entry),
  `OneCloser` (only the close sends one, after all it drained), `Owed` (until the
  file is sealed, what the close answers for is written, in the mailbox or in its
  hand, and ahead of any Close entry in the mailbox), `Paid` (then all is on
  disk), each as long as no write failed.
* `UnlockProofs`: `TypeCorrect`, `MachineNeverWedged`, `LockedIsClosed`,
  `ShownIsOpen`, `OverlayIsMachine`. The second rests on the first: an attempt
  leaves "verify" or "read" in the step that tells the machine, and only a step
  that puts an attempt there enters Unlocking. The last three are about states
  at rest, so their invariant `Story` describes all the others: the phases of the
  startup (`Starting`, `Opened`, `Failed`, `Started`, `Recovering`) and, from the
  first outcome on, six modes. The workspace is `Shown` over an open handle (or
  over one `fire_lock` has closed and is about to announce); a lock takes it to
  `Dropping` and its event to `Covered`; an attempt goes through `Trying`,
  `Lifting` and `Lifted` back to `Shown`, or from `Trying` back to `Covered`. Why
  a mode lasts is mostly that a trigger in it would have been noted as crossing,
  and that a cascade whose open failed owes a re-open. That the ticker does not
  start a second `fire_lock` over the first is `Taken`: `alLocked` is set while
  one runs, and nothing resets it.
* `SyncProofs`: `TypeCorrect`, `SkippedIsTakenIn`, `PushSafe`. A crash or a
  stale save may bring back any earlier configuration, so the invariant speaks
  of every configuration a device has had: `Claimed`, that a device which names
  the archive on the server in any of them has its rows, but those it missed. `PutIsNew` makes an
  archive under way unknown to everyone, `PutHolds` and `MergeHolds` carry the
  claim through the two verbs, and lemmas about `apply_one` (`MergeFolds`,
  `MergeBy`, `EditFolds`) say that merging takes a row in and invents no stamp.
* `TierSwitchProofs`: `TypeCorrect`, `KeyAlwaysKept`, `MarkerTruthful`,
  `RecordingsPlayable`, `ActiveSlotCurrent`, for any number of switches and
  recordings. The invariant says where the pipeline is: `Routed` (which steps a
  target takes), `Wrapped` (the new key is in its vault before the re-key, and
  is the database's after it), `Announced` (the marker stands from its write to
  the save), `ActiveKey`, `Followed` (recordings are under the old key or the
  new one), `Kept` (a vault has the key, or one was touched since the re-key),
  `Settled` (a running app was opened by its saved tier, but between the re-key
  and the save, where the marker names the tier that opens) and `Stopped` (what
  a stopped app has of that).

Every invariant and every action property of the passing runs is stated by a
theorem, but `OrphansEnd` and `AttemptResolves`. Only model-checked are these two
and the liveness properties, which the prover does not reach: `EveryTaskEnds`,
`CancelEnds`, `ChunkSettles`, `CloseSeals`, `GoodSecretLifts`, `ScreenFreed`,
`BootEnds`.

`Closed`, `Mirror` and `Story` were checked with TLC before they were proved, on
instances with more chunks, attempts, submissions and locks than the runs. An
attempt to prove `CloseKeeps` for any number of chunks showed item 12 of
section 5, which takes three of them.

## 5. Findings

Where a document or a comment of the repository says otherwise than the code
does, a run states the sentence as a property and TLC shows the execution that
breaks it; `PROJECT.json` quotes the sentence under `findings`:

1. `transfer_cancel`: `WorkerPool::cancel` does nothing for a task that no worker
   has armed, and the task runs (`transfer/driver.rs:136`;
   `docs/ARCHITECTURE.md:637` draws queued to cancelled);
2. `connection_overlap`: the generation comparison of `run_connect_driver` can
   never fail, as each attempt has an actor of its own (`connection/mod.rs:731`,
   comment at 630): after a reconnect in a handshake the mirror may settle in the
   state of the attempt that lost;
3. `unlock_tier`: the wait of the lock screen aborts that of the startup dialog
   it covers, and the right password in the dialog then saves the plaintext tier
   over an encrypted database (`tier_unlocked_listener.dart:106`);
4. `sync_pull_push`: "pull, then push" never gets past a 412
   (`sync/service.rs:202`);
5. `sync_deletion`: a tombstone does not count as a local row, so a pull undoes
   a newer deletion (`archive/apply/mod.rs:921`);
6. `tier_switch_lands`: a switch to plaintext removes the marker, deletes every
   vault and leaves the database encrypted
   (`settings_sections_security_apply.dart:257`), against the contract of the
   file and against "its absence is the 'all good' signal"
   (`security_tier_switcher.dart:132`).

Divergences the models contain without a run of their own; each shapes a
property of section 2 as said there:

7. `promote_staged` unlinks before it renames (`sftp/mod.rs:185`;
   `docs/ARCHITECTURE.md:503` has the original untouched): `NoLostCopy` accepts
   the complete `.part` in its place; and `dispatch` waits on a full channel
   (`transfer/driver.rs:122`);
8. `_doConnect` does not look at its generation after it staged the credentials
   (`connections_notifier.dart:679`, comment at 571): a disconnect meanwhile
   leaves a row that nobody owns;
9. an exception of that staging is caught by nobody (`errors.dart:96`,
   `connection.dart:384`): waiters wait for ever;
10. drained bytes are sent after the lock is released (`recorder/queue.rs:345`,
    comment at 268): a close or rotate overtakes them;
11. a rotation enqueues Rotate and Header by two calls
    (`session_recorder.dart:402`, comment at 388): an event may get between;
12. an aborted deadline timer that is past its sleep still drains
    (`recorder/queue.rs:345`, comment at 268): it can take bytes that came after
    the drain that aborted it, meet its abort at the first await on a full
    mailbox, and lose them with no close or rotation near. `CloseKeeps` is
    therefore about what was not lost before the close;
13. `_triggerLock` does not await `db_close` (`auto_lock_detector.dart:357`,
    comment at 353), and a cascade publishes ready over a failed open
    (`tier_unlock_orchestrator.rs:124`);
14. a failed rename leaves no database (`api/master_password.rs:325`, comment at
    270), and a marker is deleted unused (`security_init_controller.dart:512`).

## 6. Not modelled

Transfers: re-use of a task id (ids are UUIDs) and the teardown of the pool at
exit. Connections: the active-connection count, the ProxyJump wait, credential
re-prompts, progress steps, WebDAV and S3 connections, lag of the bus.
Recording: encryption, timestamps, the sidecar index, reader and storage cap, a
recording in progress during a tier switch. Unlock: first launch, the plaintext
tier, the biometric attempt before the dialog, resets from the dialogs, idle
time. Sync: clock skew, ETags that change without a PUT, references between
rows, the encryption of the archive. Tier switch: a switch that starts from an
unencrypted database, the biometric copy, the change of the master password.

The reset (`security/wipe.rs`, `recovery.rs`), port forwarding, the prompt
registries, the provider registry and the Dart mirror of the transfer rows are
the components with interleavings or crashes of their own that have no module
yet. The rest is parsing, formatting, SQL, protocol I/O over libraries,
generated bridge code and widgets; `PROJECT.json` gives the reason for each. The
repository is large (some 170 000 lines with its generated bridge), and the
modules cover the parts in which several actors, failures or restarts meet.

## 7. Plan

1. done: `TransferPool` with `TransferLifecycle`, `Connection`, `RecorderQueue`,
   `Unlock`, `Sync`, `TierSwitch`, and theorems for all their safety properties;
2. next: an abstract specification of the recorder (the file is a subsequence of
   what was enqueued, in order per direction) and of the unlock, with the proof
   that the detailed ones implement them;
3. then: the reset with a stop after every step, a recording in progress under a
   tier switch (`RecorderQueue` with `TierSwitch`), the prompt registries with
   their timeouts, the provider registry across a reconnect, the ProxyJump wait
   under bus lag.
