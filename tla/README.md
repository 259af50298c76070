# Formal verification of rumoca's language server, compile session and worker pool

Rumoca is a Modelica compiler written in Rust. Most of it is a pipeline of pure
transformations; the part where state, concurrency and ordering decide whether
the user sees the right thing is the *language server* (`rumoca-tool-lsp`) and
the *compile session* (`rumoca-compile`) it shares between its request handlers.
Around it stand two pieces of coordination between *processes*: the on-disk cache
of parsed files and the pool of worker processes that runs a model library. This
directory models these parts in TLA+, checks them with TLC on small instances and
proves with TLAPS, for instances of any size, every safety property that these
checks hold, the refinement included.

Paths below are relative to the repository root. Short names:

| name | file |
|---|---|
| `server.rs` | `crates/rumoca-tool-lsp/src/server.rs` |
| `runtime` | `crates/rumoca-tool-lsp/src/server/source_root_runtime.rs` |
| `diagnostics` | `crates/rumoca-tool-lsp/src/server/diagnostics.rs` |
| `jobs` | `crates/rumoca-tool-lsp/src/server/simulation_jobs.rs` |
| `preview_cache` | `crates/rumoca-tool-lsp/src/server/preview_cache.rs` |
| `roots`, `loads`, `inputs` | `crates/rumoca-compile/src/session/session_impl_source_roots.rs`, `.._source_root_loads.rs`, `.._inputs.rs` |
| `scenario` | `crates/rumoca-tool-lsp/src/server/scenario_commands.rs` |
| `wasm` | `crates/rumoca-bind-wasm/src/source_root_api.rs` |
| `artifacts`, `cache`, `root_cache` | `crates/rumoca-compile/src/parsed_artifact_cache.rs`, `cache.rs`, `source_root_cache.rs` |
| `cache_cmd` | `crates/rumoca/src/cache_cmd.rs` |
| `worker`, `daemon`, `memory_limit` | `crates/rumoca-worker/src/lib.rs`, `bin/rumoca-worker.rs`, `memory_limit.rs` |
| `pipeline`, `queues` | `crates/rumoca-test-msl/tests/balance_pipeline/balance_pipeline_core.rs`, `balance_pipeline_core/streaming_workers.rs` |

## 1. Inventory

### How the server runs

tower-lsp starts one async task per message, in the order of arrival, and runs
several at once on a tokio runtime. The handlers share one `Session` behind a
`tokio::sync::RwLock`, a handful of smaller locks (document versions, configured
paths, caches), two *work lanes* (async mutexes named indexing and strict), and
one `Notify`. Between two lock acquisitions every other handler may run, so a
handler is a sequence of critical sections. The session itself is sequential:
whoever holds the write lock runs one of its methods to the end.

| component | state | operations | interacts with |
|---|---|---|---|
| source-root loading (`runtime`, `diagnostics`, `roots`) | state epoch, loaded keys, loading keys (reservations), dirty roots, configured paths, indexing lane | plan, reserve, parse, apply or cancel, rebuild dirty roots, reload the scenario configuration, reset | writes the session; clears the compile caches; wakes prewarm waiters |
| read prewarm (`server.rs`, `runtime`, `roots`) | pending marker, session revision, Notify, indexing lane | spawn, run, finish, notify, wait | spawned by opens and loads; cleared by every mutation |
| document synchronisation (`server.rs`, `diagnostics`) | version table, session text, mutation epoch, tokens, published diagnostics | open, change, save, close, reload, analysis request | changes the session; loads roots; publishes to the client |
| compile caches and prewarm jobs (`jobs`, `scenario`, `preview_cache`) | simulation cache, hover memo and its queue, strict lane, the table of prewarm jobs with a done flag and a Notify each | simulate, prepare, hover, clear; spawn, wait for, finish and forget a job | keyed by the session's epoch and sources |
| session lock (`server.rs`) | lock queue, guards | one critical section, or a guard held to the end | every handler |
| session documents (`inputs`, `roots`, `loads`) | documents, source sets, reverse index, detached overlay, list of detached documents, dirty flags, revision, epoch | set text, remove, add, replace a root, refresh, remove a root, reset | the state all of the above work on |
| workspace family (`wasm`, `roots`) | the roots a browser workspace is split into | sync | session documents |
| artifact cache (`artifacts`, `cache`, `root_cache`) | cache files, temporary files, per process an in-memory table, the prune lock file and the time of the last prune | hash, look up, read again, parse, write and rename; take over a stale lock, lock, prune, unlock; prune on command, without the lock | every process that loads a source root; the loads above go through it |
| worker pool (`worker`, `daemon`, `memory_limit`, `pipeline`, `queues`) | the list of models, the rows sent, memory tokens, per queue thread a daemon with its pipes, per model a progress file and a partial result | claim, acquire, spawn, wait for ready, run, poll, time out, kill, shut down; the daemon's load, compile, simulate, answer; its memory watchdog | threads, processes, pipes and files |

What is hard to get right here: results computed from a session that has moved
on (each handler carries its own notion of currency: an epoch, a revision, a
token or a reservation); wake-ups of a `Notify` that stores no permit; lanes and
reservations that must be given back on each early return; membership recorded
three times and kept in step by hand over long sequences of calls; processes that
die, hang or answer late while files, permits and pipes still carry their traces.
`hazards` in
`PROJECT.json` lists each of these at its line with the properties that cover it.

### Not modelled

The compiler phases, the IRs and evaluators, the solvers, code generation and
the execution backends are pure functions over large trees or floating-point
numbers: there is no small abstraction that keeps what makes them right.
Formatter, linter, codecs, transports, command line, bindings and user
interfaces are sequential adapters. Three parts are state machines that are left
out so far (section 7): the session's query caches, the life cycle of the FMI
runtime and the scheduled simulation. They are sequential, and what decides their
correctness is mostly data: fingerprints of trees, the values of a model, and
floating-point time.

## 2. Modules

Each component has a module, an `MC` module that adds the model values and the
symmetry, and one or more `.cfg` files. The theorems about it are in a module of
their own named after it (`SessionLockProofs` and so on; WorkspaceFamily, which only
documents a divergence, and DocumentStore, an abstract specification, have none).

**SourceRootLoading.** A job is one run of a loader, of the rebuild before a
simulation compile, or of a configuration reload. Its program counter names the
lock or lane it is at. `Reserve`, `Apply`, `ApplyStale` and `LoadFailure` are the
critical sections of `load_source_root_if_current`; `AcquireLane` and `ParseOk`
or `ParseErr` the blocking parse. Contents are abstracted to the epoch at which
the disk was read (`parsedAt`, a history variable). `CancelRequest` is
tower-lsp dropping the handler's future (external).

**ReadPrewarm.** A handler reads the revision, takes a snapshot and sets the
pending marker in three separate critical sections, spawns a task, and waits.
The tokio `Notify` is external: `NotifyWaiters` wakes the futures that exist and
remembers nothing. `ApplyChange`, `ChangeSourceRoots` and `ResetSession` are the
mutations that clear the marker, with and without a wake-up.

**DocumentSync.** Messages are numbered and the number stands for the text they
carry. `Send` is the editor and tower-lsp; each handler then goes through
version check, session change, reload, epoch bump, token, loading, staleness
checks, compile and publish, in the order of the code (`did_change` bumps the
epoch after its diagnostics, `did_open` before).

**CompileCaches.** One model, one document: contents are version stamps and a
compiled model is the stamp of the roots it was compiled from. The kinds of
request (simulate, background preparation, hover, simulation configuration) run
through the same steps in different orders, given by the `After...` tables. A
configuration request waits for the model's prewarm job if a current one is
registered, and otherwise spawns one: its place goes on as the job, a preparation
whose end is `JobNotify` (done flag and `notify_waiters`) and then `JobRemove`. The
wait is the code's four steps: look the job up, create the `notified` future, test
the done flag again, sleep. Looking for a job and registering one are two lock
sections, hence two steps (`JobGet`, `JobInsert`). A changer is a notification handler:
it edits (`ApplyChange`), may reload the scenario configuration (`ReloadConfig`), which
clears the caches, then rebuilds the session with its revision counted anew
(`ResetSession`) and loads the durable roots (`LoadDurable`); after an edit it clears the
caches again and moves the mutation epoch, after a save of the configuration it does
not. The rebuild of a dirty root is the code's steps: read the dirty flag, try the live
subtree, replace the root's documents or fail, clear (`ReadDirty`, `RefreshLive`,
`ReplaceRoot`, `RequestClear`). `vouched` is history: whether the token of a request, and
the clone an entry was compiled from, still mean what their tests assume.

**SessionLock.** The tokio `RwLock` (external: FIFO queue, readers share) and
the handlers as sequences of sections. The workspace symbol request keeps the
guard of its snapshot until it returns and asks for the lock again under it.

**SessionDocuments.** The session as one record; each helper method of the code
is an operator from session to session and each public operation an action that
composes them, as the code does. `editor`, `onDisk` and `blanked` are history
variables: what the editor has open, what the last load of each root found, and the
files that the editor has emptied and no load has found closed since.

**DocumentStore** is the abstract specification of that session: three functions
from files to texts (what the compiler sees, what the editor has open, what the last
load found) and five operations, each of which touches the files it is about and no
other. One of them is the emptying of an open file (`Blank`), which the code may not
notice: the store says what may then happen to that file, and until when.
SessionDocuments implements it (`ImplementsStore`) under the mapping that
forgets records, reverse index, overlay, dirty flags and early returns.

**WorkspaceFamily** extends SessionDocuments with
`sync_partitioned_source_root_family` as the wasm binding calls it: a fold of
`Replaced` over the new roots and then over the ones that became stale.

**ArtifactCache.** Several processes and one source file. A load hashes the file
and looks its parse up by the hash; on a miss it reads the file *again* and goes on
under the hash of what it read. Writing the cache file is four steps (create, write,
rename, or the copy that replaces a rename that failed, during which the file is
`Torn`). A miss is followed by an attempt to prune: the age of the lock, its token,
both again, the removal, the exclusive creation and the token's writing are steps of
their own, as each is a system call of the code. Which files a prune removes is left
open: any of them may be over the budget. `rumoca cache prune` runs the same removals in
a process of its own and takes no lock (`cache_cmd`): `CommandPrunes` removes a file at
any moment. `Age` makes the lock old and `CheckExpires` the record of the last check.
`Crash` drops what the process had in memory and leaves its lock and a half-copied cache
file behind.

**ModelWorkers.** A queue thread claims models with `fetch_add`, takes its memory
permit, spawns a daemon, sends it one request at a time and polls (`Poll`, `Recv`,
`ExitStatus` are the three looks of one turn of the loop). The daemon's stages are
the ones its progress file tells apart; the pipe, the reader thread that forwards
its lines (`Forward`) and the exit status are separate, so that the three can be seen
in every order. Faults (a spawn that fails, a hang, a stray line, a crash, the
watchdog's stop) may come at any stage and are bounded by `MaxFaults`.

How they compose: SourceRootLoading, ReadPrewarm, DocumentSync and CompileCaches
are four views of the same handlers, each with the other three reduced to what
they may do to its state (a load is one step in DocumentSync and CompileCaches, a
mutation in ReadPrewarm). SessionDocuments is what happens inside one critical
section of any of them, and DocumentStore what that amounts to. ArtifactCache is the
inside of the parse step of SourceRootLoading. ModelWorkers stands apart.

Slips (operators whose comment starts with "A slip for") are wrong variants of
the operator they precede, each a bug one could write there; `mutants` in
`PROJECT.json` pairs them with the property that catches them.

## 3. Runs

| run | instance | shows |
|---|---|---|
| `source_root_loading` | 2 jobs, 2 roots, handlers start below epoch 2, requests may be cancelled; 241 416 states | single flight per root and epoch; a reservation ends by its owner and outlives it only by cancellation; only a current parse is installed; loaded keys have documents; every job returns |
| `read_prewarm` | 2 handlers with a task each, 2 mutations; 362 692 states | a pending marker has a task that clears it; a sleeper has a wake-up ahead; every wait ends |
| `document_sync` | 2 documents, 3 messages of any kind, 2 handlers at once, 1 load, reloads; 831 943 states | an answer that passes its staleness check was computed from the session as it is, unless a reset replaced it; a document whose handlers never overlapped ends with the editor's text, and where no handlers overlapped at all with the editor's diagnostics |
| `document_sync_versions` (violation) | 1 document, an open and two overlapping changes | an older text is written over a newer one |
| `compile_caches` | 2 requests (two hovers, two configurations, one of each, a simulation with a hover or with another; a configuration becomes a prewarm job), 1 handler that edits a local or a root document or saves the configuration, with or without a reset, memo of one entry; 713 138 states | a preparation whose token means something is never answered with an older model; memo and queue stay in step; who sleeps on a job has a wake-up ahead; a running job is unregistered only by a newer one or by a clear; every request returns |
| `compile_caches_simulate` (violation) | 2 simulations, the load of either | an older model is stored under a newer key and hit |
| `session_lock` | 2 symbol requests, 1 reader, 2 writers; 71 248 states | a symbol request's snapshot is current until it returns; the only way to hang is re-entry |
| `session_lock_symbol` (violation) | 1 symbol request, 1 writer | both wait for ever |
| `session_documents` | 2 files of an external root, 1 of a workspace root, texts that parse, that do not and that are empty; 368 112 states | the three membership tables agree; closed files are what their root last loaded, after they were emptied from the next load on; (epoch, revision) only moves forward; the session implements DocumentStore |
| `workspace_family_repartition` (violation) | nested package directories, files come and go | a file that changes root is lost |
| `model_workers` | 2 queue threads, 2 models, 2 faults; 513 073 states | one row per model, of that model and of this run; permits cover the processes; a watchdog's stop is told from a crash; the pool ends unless a daemon hangs between two phases |
| `artifact_cache` | 2 processes, 3 loads, 2 contents, 1 edit, 1 crash or failed rename, the prune command at any moment; 706 002 states | a load ends with the parse of a content it saw; the pruners after a write are at most one more than the locks taken from a process at work; a stale lock does not survive an attempt to take it |

**Bounds.** Two actors suffice for the races listed under hazards: each is
between one handler that holds a stale value and one that moved the session. Two
roots are needed for a plan with a remainder, two epochs for a reservation of an
earlier epoch to meet one of the current epoch, and for a loaded root to be
edited, marked dirty and rebuilt. Counters are capped in guards by named
constants (`MaxEpoch`, `MaxMutations`, `MaxMessages`, `MaxLoads`, `MaxRevision`);
steps of a job already running are never cut off, so liveness is not an artefact
of a bound. `CHECK_DEADLOCK` is off because each bounded instance ends.
Symmetry is used in `document_sync` only, which checks no liveness. Two faults let a
daemon that replaced a failed one fail too, one more than a retry would need. In
`model_workers` a permit is two of three tokens, so that a budget with a remainder
and a thread that waits for tokens occur and the two daemons run one after the
other: they share the list, the rows and the tokens and nothing else. The same model
with tokens for both daemons and one fault has 1 245 508 states and takes too long
to be kept as a run. One process of `artifact_cache` loads twice, so that it meets
its own earlier lock, and each meets the other's. The invariants also hold with three
processes, one edit and no fault (9 600 000 states). In `compile_caches` the revision is
bounded so that the session is reset only after a save; an edit followed by a reset was
checked, for the invariants, with a hover and a configuration request (7 400 000 states),
and up to revision two with a configuration request beside another or a simulation,
under root edits and saves (6 100 000 states); the theorems cover every order. For
`session_documents` the inductive invariant was also checked with two files and two
roots up to revision 8 and epoch 5.

**Fairness.** A tokio task that can run is polled again, so steps of a running
handler are weakly fair. The lanes are tokio mutexes and hand out in FIFO order:
a job that keeps asking is served, which is strong fairness of the acquisition.
In SourceRootLoading a job's steps are strongly fair as a whole for the same
reason. In ModelWorkers the threads, the readers and a daemon that does not hang are
weakly fair, and so is the passing of a deadline; a hang is a fault after which the
daemon takes no step. In ArtifactCache a process that has not crashed is weakly
fair; neither a crash nor a restart nor the ageing of a lock is assumed. Nothing is
assumed of the editor, of the client's cancellations or of new requests.

## 4. What the violations show

- `document_sync_versions`: `did_change` accepts the version under one lock
  (`server.rs:1199`) and writes the text under another. Handler A accepts version
  2, handler B accepts 3 and writes, A writes. A test says "older document
  versions must not overwrite newer session state"
  (`server/tests/editor_surface_session_tests.rs:93`).
- `compile_caches_simulate`: a simulation clones the session, the load of another one
  moves it and clears the cache, the first reads the epoch for its key (`jobs:495`) and
  inserts; the other is answered with the older model. A preparation tests its token in
  between, which closes this gap (`PreparedHitIsNotOlder`) but for the three holes given
  below under *Token outlives a reset*, *Rebuild without a change* and *Entry of a
  simulation*.
- `session_lock_symbol`: `symbol` keeps a read guard (`server.rs:1595`) and reads
  again for its staleness check; a writer that queues in between blocks the second
  read, and the first guard blocks the writer.
- `workspace_family_repartition`: stale roots are emptied after the new ones were
  filled (`roots:598`), and emptying a root deletes the documents of its former
  members, including those another root has just installed.

Schedules met while modelling for which no run is kept:

- *Siblings dropped.* A loader whose reservation is refused because another
  request moved the epoch keeps its old epoch (`diagnostics:53`), so the rest of its
  plan is refused too; the roots load with the next request.
- *Save compiled stale.* Staleness is tested (`diagnostics:144`) before the write
  lock is taken (`diagnostics:150`); an edit in between makes the strict compile run
  for a text the session no longer holds.
- *Prewarm marker overwritten.* `begin_source_root_read_prewarm` (`roots:446`) does
  not compare the revision it is given with the session's, so a late spawn replaces
  the marker of a newer one, and a handler may return before its prewarm is done.
- *Reset repeats revisions.* The session built by `reset_to_open_documents`
  (`roots:425`) counts revisions from zero; a token taken before can match again.
  This is why `AnswerIsCurrent` speaks of tokens that no reset has overtaken.
  `StampNamesContent` shows that epoch and revision together would be safe.
- *Token outlives a reset.* The same for the compile caches: the reset of a
  configuration reload (`runtime:59`) comes before the epoch bump of its handler, and a
  save of the configuration bumps nothing (`server.rs:1260`). A preparation that cloned
  the session before the reset finds its revision again, passes its test, reads the new
  epoch and stores the older model under it.
- *Rebuild without a change.* A rebuild that finds the documents the root has already
  ends the dirty state, but moves neither epoch nor revision (`loads:75`), unlike the
  live edit that made the root dirty. A preparation that confirmed its token before that
  edit and inserts after the rebuild's clear leaves an older model under the epoch that
  still holds.
- *Entry of a simulation.* What a simulation stores without a test, a preparation hits.
- *Close after reopen.* A `did_close` still running when the file is opened again
  removes the new text (`server.rs:1232`).
- *Last live diagnostics dropped.* The epoch bump of an earlier `did_change`
  (`server.rs:1223`) makes the diagnostics of a later one stale, and none follow.
- *Hover after a live root edit.* The edit changes neither epoch nor local
  fingerprint; a hover that cloned before it and inserts after the clear leaves an
  older preview that later hovers hit (`preview_cache:73`).
- *Emptied document.* Empty content is how the session tells a root's document from
  a live one (`loads:64`), so a document the user has emptied is treated as the
  root's: emptying a document that is there without content changes nothing, the
  next rebuild replaces it, a reset drops it, and closing it may bring back nothing or
  a copy that is out of date. The editor's next text is accepted as any other, and the
  file is right again after a load that finds it closed. `DetachedExact` and
  `ClosedFileIsLoaded` exempt such a file (`blanked`) until then, and DocumentStore says
  the same; what they state of every other file holds all the while.
- *Deleted file restored.* A rebuild refreshes the detached copies of the files it
  finds and keeps those of files that are gone (`loads:45`); closing such a file
  brings it back. DocumentStore leaves this open.
- *Two jobs for one model.* Two configuration requests both find no current job and
  register one each (`scenario:49`); the second entry replaces the first, and the
  model is compiled twice.
- *Hang between phases.* A deadline belongs to the phase the progress file names
  (`worker:393`). A daemon that hangs after the end of one phase and before the next
  begins has none, and its thread polls for good. `PoolFinishes` exempts this hang
  and no other. In practice the watchdog of the test stage (`queues:334`) aborts the
  whole process after the stage's time; it is not modelled.
- *Answer lost to an exit.* A daemon answers and dies; its thread finds no message,
  then the exit status, before the reader has forwarded the answer (`worker:429`). The
  row says that the worker failed.
- *Fresh lock removed.* Two processes find the prune lock stale and unchanged; one
  removes it and creates its own, and the other's `remove_file` (`cache:479`) removes
  that one. Both prune. `PrunersBoundedByTakeovers` says what this costs: one more pruner
  for each lock that is removed from a process at work.
- *Prune on command.* `rumoca cache prune` (`cache_cmd:62`) takes no lock and so prunes
  beside whoever holds it. `LoadedWasThere` holds all the same.

## 5. Proofs

All theorems hold for every value of the constants allowed by the named `ASSUME`s
(which only say that sentinels differ from real values, bounds are naturals, finite
sets are finite and the roots of a session are disjoint; TLC evaluates them in every
run). No theorem has a hypothesis beyond them.

| module | theorem | statement |
|---|---|---|
| SourceRootLoadingProofs | `LoadingInvariance` | `Spec => []LoadingInv` |
| | `LoadingTypeCorrect` | `Spec => []TypeOK` |
| | `ReservationHeldAlways`, `SingleFlightAlways`, `LoadedHasDocumentsAlways` | the three safety invariants |
| | `InstalledParseIsCurrentAlways`, `ReservationEndsByOwnerAlways`, `ReservationLeaksOnlyByCancelAlways` | the three action properties |
| ReadPrewarmProofs | `PrewarmInvariance`, `PendingHasTaskAlways`, `SleeperIsCoveredAlways` | no lost wake-up |
| | `PrewarmTypeCorrect` | `Spec => []TypeOK` |
| DocumentSyncProofs | `TypeCorrect` | `Spec => []TypeOK` |
| | `AnswersAreCurrent` | unless a reset intervened, answers are current |
| | `TextsAreEditors` | when nothing is in flight, a document whose handlers never overlapped holds the editor's text |
| | `DiagnosticsAreEditors` | when nothing is in flight and no two handlers ever overlapped, the client shows the diagnostics of the editor's text |
| SessionLockProofs | `LockInvariance`, `SnapshotIsCurrentAlways` | the snapshot of a symbol request is current |
| | `LockTypeCorrect` | `Spec => []TypeOK` |
| SessionDocumentsProofs | `TypeCorrect`, `MembershipsAgree` | `Spec => []TypeOK`; the tables of members agree (`IndexConsistent`) |
| | `StampsNameContent` | the action property `StampNamesContent` |
| | `DetachedAreListed`, `ClosedFilesAreLoaded` | `DetachedExact` and `ClosedFileIsLoaded`, for every editor text |
| | `SessionImplementsStore` | the refinement of DocumentStore, for every editor text |
| CompileCachesProofs | `TypeCorrect`, `HoverMemoIsExact` | `Spec => []TypeOK`; memo and queue agree and are bounded |
| | `SleepersAreWoken`, `JobsStayRegistered` | who sleeps on a job has its wake-up ahead; a running job stays registered |
| | `PreparationsAreCurrent` | `PreparedHitIsNotOlder`, among requests of every kind |
| ModelWorkersProofs | `TypeCorrect`, `ThreadsShareNoModel`, `EveryModelGetsOneRow` | `Spec => []TypeOK`; claims differ; one row per model |
| | `ProcessesFitTheBudget` | the tokens add up and cover every process |
| | `AnswersAreForTheirModel`, `PartialResultsAreNew` | a row is its model's and this run's |
| | `WatchdogStopsAreReported` | the action property `WatchdogStopIsReported` |
| ArtifactCacheProofs | `TypeCorrect`, `CacheHoldsItsKeys` | `Spec => []TypeOK`; cache files and memory hold the parse of their key |
| | `LoadsAreOfTheFile`, `PrunersExclude` | `LoadedWasThere` and `PrunersBoundedByTakeovers` |

*Loading.* `ReservationHeld` is not inductive: a late cancellation might take the
reservation. It can only if its job has the same root and epoch, which
`SingleFlight` excludes, and `SingleFlight` in turn needs `ReservationHeld` at the
moment of a reservation. The invariant adds that no remembered epoch is ahead of
the session's (`EpochsOrdered`; an epoch that moves on makes all older claims
vacuous) and that a job in flight has a root. `InstalledParseIsCurrent` follows: an
apply that passes has `epoch = stateEpoch`, and the parse lies between the two. So
does `ReservationEndsByOwner`; for `ReservationLeaksOnlyByCancel` one shows that the
owner of a reservation stays its owner in every step but the end or the cancellation
of its load (`OwnerStays`); the end releases the entry. `ReservationRemoved` says
which steps remove an entry at all.

*Prewarm.* `SleeperIsCovered` needs `PendingHasTask` at the step that decides to
sleep, which needs that a handler has no task before its begin (`TaskFollowsBegin`).

*Document synchronisation.* The invariant says that tokens are behind the session,
and that a request whose token still names the session's revision took its snapshot
at this content (`SnapshotAtToken`). The token is taken before the snapshot, so a
mutation in between makes them differ for good, as revisions only grow without
resets. For `TextsAreEditors` the invariant follows the one writer a document has
(`LoneWriters`): as long as it has not written, it will write the editor's text and
its version will be accepted; once there is none, the session has that text. For
`DiagnosticsAreEditors` it follows the one handler there is (`TurnsAlone`): where it
may be for its kind of message, what it has written so far, and that its token names
the epoch and revision of the session from the moment it is taken, or refreshed after
the handler's own loads, to the check. So no check of a lone handler fails, and what
it publishes is the text it has put into the session or found there.

*Lock.* A writer is alone; a symbol request that works on its snapshot holds its
guard; hence no guard is held when the revision moves. The queue must hold each
handler once, or a granted reader could still be queued.

*Session documents.* Each helper has a lemma that gives its result field by field
(`DetachFields`, `ReplacedFields`, ...); an operation is the composition of a few of
them. `TypeOK` and `IndexConsistent` together are inductive without more
(`SessionOK`), and so is what `StampNamesContent` needs. The rest needs `DocumentsInv`,
that is these and `FilesKept`: a file the editor has open with a text has that text and,
unless it was emptied, is in no root (`OpenIsLive`); the document of a closed file is a
root's and, unless it was emptied, is there if the file is in a root (`ClosedIsOfRoot`);
a file is in no other root than the one whose directory it is in, in the table and in
the overlay (`RootsOwn`); and what the last load found is in the session, or in the
overlay while the file is open, unless the file was emptied (`LoadedIsKept`). "Emptied"
is membership in `blanked`; the exemptions are needed because the loss described under
*Emptied document* in section 4 is reachable. Under the invariant `Operations` reduces
all operations to five cases: a file is edited (`EditedIs`), closed (`ClosedIs`), a root is loaded or removed (`LoadIs`),
the session is reset, or nothing happens to a file. Each case preserves the invariant
(`EditKeeps`, ...) and is the operation of DocumentStore with the same name, or a
stutter (`EditRefines`, ...); an edit to the empty text is `Blank`. That is the
refinement.

*Compile caches.* A job's entry is freed by its own end only after the job has ceased
to run, so `JobStaysRegistered` needs only that each kind of request is at a step of
its own program (`PcFitsKind`). For `SleeperHasJob` the step that decides to sleep
finds the job running and the notification wakes all who wait. The memo's queue
has no key twice and no key has two entries (`Exact`), which gives the equal
cardinalities by a bijection. `PreparedHitIsNotOlder` needs `PreparedInv`. A preparation
whose token still names epoch and revision works on the roots as they are, and no root is
dirty once it has passed its rebuild (`PreparesCurrent`). So what it has confirmed, and
what such preparations have put into the cache, is current for an epoch that is current
as long as no root is dirty (`OffersAreCurrent`; a live edit makes one dirty, and the
rebuild that ends this moves the epoch), and a preparation is offered nothing older under
the epoch it reads for its key (`NothingOlderOffered`). The three holes of section 4 break
exactly this, and `vouched` records each where it opens: a reset unvouches every request
(`ResetSession`), a rebuild without a change those that hold a clone and every entry
(`ReplaceRoot`), and a simulation is never vouched for (`Vouch`), nor is who hits an
entry that is not (`Lookup`). TLC refutes the property, on two or three requests, as soon
as one of these exemptions is dropped.

*Worker pool.* `fetch_add` gives each number once, so no two threads have the same
model (`ClaimsDiffer`; the counter is bounded by the threads that found the list
empty, `ClaimsCounted`). A thread holds a permit at exactly the places where it may
have a process (`PermitFollowsPc`), and the tokens move with it. For
`RowIsForItsModel` and the two after it the invariant says of each place of a thread
what its daemon, its pipe and its inbox may hold (`DaemonFollowsRequest`): where the
thread has no request, its daemon works on none and no result is on its way; in a
request, there is at most one result and it answers that request. A thread that gives
a request up kills the daemon and the channel with it, so that nothing old is left
for the next model.

*Artifact cache.* The invariant says that a cache file, a temporary file that is
complete, and an entry in memory hold the parse of their key (`CacheIsHonest`), and
what a load has in hand at each place (`LoadFollowsPc`); a torn file is no parse and
reads as a miss. For `PrunersBoundedByTakeovers` the processes that own a lock which is
no longer theirs are counted (`Orphans`): there are no more of them than locks were
removed from a process at work (`OrphansCounted`), and at most one process owns the lock
that is there.

Every strengthening was model-checked as an invariant of the run's instance before it
was proved. Only model-checked are the liveness properties (`JobsReturn`,
`WaitersReturn`, `RequestsReturn`, `OnlyReentryBlocks`, `PoolFinishes`,
`StaleLockIsTakenOver`): they hold under fairness, and neither fairness nor the
`ENABLED` in it is within reach of the prover. The violations of section 3 are TLC's.

## 6. Abstractions

- Texts, documents and file contents are model values or stamps; parsing is the
  identity on texts that parse, and a text in `Broken` keeps the previous tree.
- Which of the missing roots a text refers to, whether a parse fails, whether a
  rebuild finds changes and whether a refresh plan demands the full fallback are
  nondeterministic.
- u64 counters are naturals; their saturation is out of reach.
- The session's derived caches (resolved trees, queries) and path aliases are left
  out of SessionDocuments, and so are `add_parsed_batch` and the variants of
  `replace` that only tests call.
- In CompileCaches the staleness test is one step although the code reads the
  mutation epoch and then the revision; the epoch only grows, so a test split in two
  is stale whenever the joined one is at its second read, or fresh at a moment when
  the epoch had not moved yet. All source roots share one stamp and one dirty flag, and
  the loop over the dirty roots has one turn; the indexing lane, which orders parses only,
  is in SourceRootLoading.
- In ArtifactCache a content is its own hash and its own parse; access stamps, byte
  budgets and the semantic summaries are left out, and one process runs one load at a
  time. In ModelWorkers the modes without memory tokens, the barrier at start-up and
  a crash of the parent process are left out.

## 7. Plan

Order of the modules, most important behaviour first: SourceRootLoading,
ReadPrewarm, DocumentSync, CompileCaches with the prewarm jobs, SessionLock,
SessionDocuments with DocumentStore, WorkspaceFamily, ModelWorkers, ArtifactCache
(all done). Candidates after them are the invalidation of the session's query caches
by revision, which SessionDocuments supplies, and the FMI runtime's life cycle.

Every safety property of the passing runs is a theorem, without a hypothesis beyond the
assumptions on the constants. What is left to prove:

1. CompileCaches: a hit is never older than the last clear of the cache it comes from,
   which is what the code still guarantees to simulations and hovers.
2. WorkspaceFamily: `IndexConsistent` under the fold of replacements, from the lemmas
   on `Replaced`.
