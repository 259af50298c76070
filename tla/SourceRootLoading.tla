-------------------------- MODULE SourceRootLoading --------------------------
(***************************************************************************)
(* How the language server loads library source roots into the shared       *)
(* Session.  Every request handler runs as its own async task; the Session  *)
(* sits behind one RwLock, so each critical section below is one action and  *)
(* everything between two lock acquisitions can interleave.                  *)
(*                                                                          *)
(* A job is one run of one of three handlers:                                *)
(*   - a loader (diagnostics, completion, a simulation): plan the roots     *)
(*     still missing, then for each root reserve it, parse it on the        *)
(*     indexing lane, and apply it if still current;                        *)
(*   - a rebuild of dirty roots before a simulation compile;                *)
(*   - a reload of the scenario configuration, which resets the session and *)
(*     then continues as a loader.                                          *)
(*                                                                          *)
(* The state epoch orders all of this: it grows with every change of the    *)
(* source-root graph, and a reservation or an apply is refused unless the   *)
(* epoch is still the one its job planned with.                             *)
(***************************************************************************)
EXTENDS Naturals

CONSTANTS
    PathKeys,        \* canonical keys of the source-root paths
    Jobs,            \* handler invocations that may be in flight
    NoOwner,         \* "no reservation" in loading_path_keys
    Free,            \* the indexing lane is not held
    NoPath,          \* a job that works on no root
    Cancellable,     \* TRUE when the client may cancel a request in flight
    MaxEpoch         \* bound: handlers start only below this epoch

ASSUME LoadingAssumption ==
    /\ NoOwner \notin Nat
    /\ Free \notin Jobs
    /\ NoPath \notin PathKeys
    /\ Cancellable \in BOOLEAN
    /\ MaxEpoch \in Nat

VARIABLES
    stateEpoch,          \* source_root_indexing.state_epoch
    loadedPathKeys,      \* source_root_indexing.loaded_path_keys
    loadingPathKeys,     \* source_root_indexing.loading_path_keys: key -> epoch
    sourceSets,          \* the roots that have documents in the session
    needsRefresh,        \* roots whose record has needs_refresh set
    sourceRootPaths,     \* the server's configured source_root_paths
    indexingLane,        \* holder of work_lanes.indexing
    pc,                  \* where each job is
    plan,                \* roots a job still has to visit
    path,                \* the root a job is working on
    epoch,               \* the job's local source_root_state_epoch
    paths,               \* the job's clone of source_root_paths
    parsedAt             \* history: state epoch at which the job read the disk

session == <<stateEpoch, loadedPathKeys, loadingPathKeys, sourceSets, needsRefresh>>
jobVars == <<pc, plan, path, epoch, paths, parsedAt>>
vars == <<session, sourceRootPaths, indexingLane, jobVars>>

\* Points of load_source_root_if_current between its reservation and its end.
InFlight == {"lane", "parse", "apply", "fail"}
LoaderPc == {"idle", "plan", "next", "refresh"} \union InFlight
RebuildPc == {"rnext", "rlane", "rparse", "rapply"}
ReloadPc == {"store", "reset"}

TypeOK ==
    /\ stateEpoch \in Nat
    /\ loadedPathKeys \subseteq PathKeys
    /\ loadingPathKeys \in [PathKeys -> Nat \union {NoOwner}]
    /\ sourceSets \subseteq PathKeys
    /\ needsRefresh \subseteq sourceSets
    /\ sourceRootPaths \subseteq PathKeys
    /\ indexingLane \in Jobs \union {Free}
    /\ pc \in [Jobs -> LoaderPc \union RebuildPc \union ReloadPc]
    /\ plan \in [Jobs -> SUBSET PathKeys]
    /\ path \in [Jobs -> PathKeys \union {NoPath}]
    /\ epoch \in [Jobs -> Nat]
    /\ paths \in [Jobs -> SUBSET PathKeys]
    /\ parsedAt \in [Jobs -> Nat]

-----------------------------------------------------------------------------
(* Session operations, each one critical section of the session's lock.      *)

\* mark_source_root_graph_changed.  The saturation of the u64 counter is out
\* of reach, so the epoch is a natural number.
GraphChanged == stateEpoch' = stateEpoch + 1

\* A slip for CanReserve: the loading_path_keys test is forgotten.
CanReserveTwice(p, e) == e = stateEpoch /\ p \notin loadedPathKeys

\* What reserve_source_root_load requires.
CanReserve(p, e) ==
    /\ e = stateEpoch
    /\ p \notin loadedPathKeys
    /\ loadingPathKeys[p] = NoOwner

\* Slips for Cancelled: whoever cancels removes the entry; nobody does.
CancelledByAnyone(p, e) == [loadingPathKeys EXCEPT ![p] = NoOwner]
CancelledByNobody(p, e) == loadingPathKeys

\* loading_path_keys after cancel_source_root_load(p, e): only the owner of
\* the epoch the entry was made with removes it.
Cancelled(p, e) ==
    IF loadingPathKeys[p] = e
    THEN [loadingPathKeys EXCEPT ![p] = NoOwner]
    ELSE loadingPathKeys

\* A slip for IsCurrent: the epoch is not compared.
IsNotLoaded(p, e) == p \notin loadedPathKeys

\* The currency test of apply_parsed_source_root_if_current.
IsCurrent(p, e) == e = stateEpoch /\ p \notin loadedPathKeys

\* A slip for RebuiltSession: the loaded keys survive the reset.
RebuiltKeepingKeys ==
    /\ loadedPathKeys' = loadedPathKeys
    /\ loadingPathKeys' = [p \in PathKeys |-> NoOwner]
    /\ sourceSets' = {}
    /\ needsRefresh' = {}

\* The index of the fresh Session that reset_to_open_documents installs.
RebuiltSession ==
    /\ loadedPathKeys' = {}
    /\ loadingPathKeys' = [p \in PathKeys |-> NoOwner]
    /\ sourceSets' = {}
    /\ needsRefresh' = {}

\* A slip for ReleaseLane: the guard outlives the parse.
LeakLane == indexingLane' = indexingLane

\* The guard of the indexing lane is dropped when the worker is done.
ReleaseLane == indexingLane' = Free

Goto(j, label) == pc' = [pc EXCEPT ![j] = label]

\* A job that returns forgets its locals.
Return(j) ==
    /\ Goto(j, "idle")
    /\ plan' = [plan EXCEPT ![j] = {}]
    /\ path' = [path EXCEPT ![j] = NoPath]
    /\ paths' = [paths EXCEPT ![j] = {}]
    /\ epoch' = [epoch EXCEPT ![j] = 0]
    /\ parsedAt' = [parsedAt EXCEPT ![j] = 0]

-----------------------------------------------------------------------------
(* Loaders.                                                                  *)

\* A handler clones the configured paths (their guard is dropped at once) ...
ReadPaths(j) ==
    /\ pc[j] = "idle" /\ stateEpoch < MaxEpoch
    /\ Goto(j, "plan")
    /\ paths' = [paths EXCEPT ![j] = sourceRootPaths]
    /\ UNCHANGED <<session, sourceRootPaths, indexingLane, plan, path, epoch, parsedAt>>

\* ... and then plans under a second guard: loaded keys and epoch together.
\* Which of the missing roots the text refers to is any subset.
PlanLoads(j) ==
    /\ pc[j] = "plan"
    /\ \E wanted \in SUBSET (paths[j] \ loadedPathKeys) :
        plan' = [plan EXCEPT ![j] = wanted]
    /\ epoch' = [epoch EXCEPT ![j] = stateEpoch]
    /\ Goto(j, "next")
    /\ UNCHANGED <<session, sourceRootPaths, indexingLane, path, paths, parsedAt>>

\* reserve_source_root_load for the next root of the plan; a refused root is
\* skipped and the job keeps the epoch it has.
Reserve(j, p) ==
    /\ pc[j] = "next" /\ p \in plan[j]
    /\ plan' = [plan EXCEPT ![j] = @ \ {p}]
    /\ \/ /\ CanReserve(p, epoch[j])
          /\ loadingPathKeys' = [loadingPathKeys EXCEPT ![p] = epoch[j]]
          /\ path' = [path EXCEPT ![j] = p]
          /\ Goto(j, "lane")
       \/ /\ ~CanReserve(p, epoch[j])
          /\ UNCHANGED <<loadingPathKeys, path, pc>>
    /\ UNCHANGED <<stateEpoch, loadedPathKeys, sourceSets, needsRefresh,
                   sourceRootPaths, indexingLane, epoch, paths, parsedAt>>

FinishPlan(j) ==
    /\ pc[j] \in {"next", "rnext"} /\ plan[j] = {}
    /\ Return(j)
    /\ UNCHANGED <<session, sourceRootPaths, indexingLane>>

\* parse_source_root_on_indexing_lane, for a loader and for a rebuild: take
\* the lane, read the disk on a blocking worker, release the lane.
AcquireLane(j) ==
    /\ pc[j] \in {"lane", "rlane"} /\ indexingLane = Free
    /\ indexingLane' = j
    /\ Goto(j, IF pc[j] = "lane" THEN "parse" ELSE "rparse")
    /\ UNCHANGED <<session, sourceRootPaths, plan, path, epoch, paths, parsedAt>>

ParseOk(j) ==
    /\ pc[j] \in {"parse", "rparse"}
    /\ ReleaseLane
    /\ parsedAt' = [parsedAt EXCEPT ![j] = stateEpoch]
    /\ Goto(j, IF pc[j] = "parse" THEN "apply" ELSE "rapply")
    /\ UNCHANGED <<session, sourceRootPaths, plan, path, epoch, paths>>

\* A parse error fails one root of a loader, and the whole of a rebuild.
ParseErr(j) ==
    /\ pc[j] \in {"parse", "rparse"}
    /\ ReleaseLane
    /\ IF pc[j] = "parse"
       THEN Goto(j, "fail") /\ UNCHANGED <<plan, path, paths, epoch, parsedAt>>
       ELSE Return(j)
    /\ UNCHANGED <<session, sourceRootPaths>>

\* source_root_load_failure: release the reservation, go on with the plan.
LoadFailure(j) ==
    /\ pc[j] = "fail"
    /\ loadingPathKeys' = Cancelled(path[j], epoch[j])
    /\ path' = [path EXCEPT ![j] = NoPath]
    /\ Goto(j, "next")
    /\ UNCHANGED <<stateEpoch, loadedPathKeys, sourceSets, needsRefresh,
                   sourceRootPaths, indexingLane, plan, epoch, paths, parsedAt>>

\* apply_parsed_source_root_if_current succeeds: whether or not the replace
\* found the documents changed, the epoch grows by one.
Apply(j) ==
    /\ pc[j] = "apply" /\ IsCurrent(path[j], epoch[j])
    /\ sourceSets' = sourceSets \union {path[j]}
    /\ needsRefresh' = needsRefresh \ {path[j]}
    /\ loadedPathKeys' = loadedPathKeys \union {path[j]}
    /\ GraphChanged
    /\ loadingPathKeys' = Cancelled(path[j], epoch[j])
    /\ Goto(j, "refresh")
    /\ UNCHANGED <<sourceRootPaths, indexingLane, plan, path, epoch, paths, parsedAt>>

\* It is refused: the reservation goes, the parsed documents are dropped.
ApplyStale(j) ==
    /\ pc[j] = "apply" /\ ~IsCurrent(path[j], epoch[j])
    /\ loadingPathKeys' = Cancelled(path[j], epoch[j])
    /\ path' = [path EXCEPT ![j] = NoPath]
    /\ Goto(j, "next")
    /\ UNCHANGED <<stateEpoch, loadedPathKeys, sourceSets, needsRefresh,
                   sourceRootPaths, indexingLane, plan, epoch, paths, parsedAt>>

\* Only after a root was applied does the job read the epoch again, and it
\* does so in a critical section of its own.
RefreshEpoch(j) ==
    /\ pc[j] = "refresh"
    /\ epoch' = [epoch EXCEPT ![j] = stateEpoch]
    /\ path' = [path EXCEPT ![j] = NoPath]
    /\ Goto(j, "next")
    /\ UNCHANGED <<session, sourceRootPaths, indexingLane, plan, paths, parsedAt>>

-----------------------------------------------------------------------------
(* Dirty roots.                                                              *)

\* A slip for EditRootDocument: a root without a record is marked dirty.
EditAnyDocument(p) ==
    /\ stateEpoch < MaxEpoch
    /\ needsRefresh' = needsRefresh \union {p}
    /\ UNCHANGED <<stateEpoch, loadedPathKeys, loadingPathKeys, sourceSets,
                   sourceRootPaths, indexingLane, jobVars>>

\* An interface edit of an open document that belongs to a root
\* (mark_source_roots_for_refresh skips roots that have no record).
EditRootDocument(p) ==
    /\ p \in sourceSets /\ stateEpoch < MaxEpoch
    /\ needsRefresh' = needsRefresh \union {p}
    /\ UNCHANGED <<stateEpoch, loadedPathKeys, loadingPathKeys, sourceSets,
                   sourceRootPaths, indexingLane, jobVars>>

\* rebuild_dirty_source_roots_before_compile reads the dirty roots once.
StartRebuild(j) ==
    /\ pc[j] = "idle" /\ stateEpoch < MaxEpoch /\ needsRefresh # {}
    /\ plan' = [plan EXCEPT ![j] = needsRefresh]
    /\ Goto(j, "rnext")
    /\ UNCHANGED <<session, sourceRootPaths, indexingLane, path, epoch, paths, parsedAt>>

\* refresh_dirty_source_root_from_live_subtree, holding lane and session.  A
\* root that is no longer dirty has no plan, and a plan may demand the full
\* fallback; both leave the session alone and rebuild from disk.
RefreshLive(j, p) ==
    /\ pc[j] = "rnext" /\ p \in plan[j] /\ indexingLane = Free
    /\ plan' = [plan EXCEPT ![j] = @ \ {p}]
    /\ \/ /\ p \in needsRefresh
          /\ needsRefresh' = needsRefresh \ {p}
          /\ GraphChanged
          /\ UNCHANGED <<path, pc>>
       \/ /\ path' = [path EXCEPT ![j] = p]
          /\ Goto(j, "rlane")
          /\ UNCHANGED <<stateEpoch, needsRefresh>>
    /\ UNCHANGED <<loadedPathKeys, loadingPathKeys, sourceSets,
                   sourceRootPaths, indexingLane, epoch, paths, parsedAt>>

\* The end of rebuild_dirty_source_root_from_disk: replace_parsed_source_set
\* with no currency test.  Unchanged documents only clear the refresh flag.
RebuildApply(j) ==
    /\ pc[j] = "rapply"
    /\ needsRefresh' = needsRefresh \ {path[j]}
    /\ \/ sourceSets' = sourceSets \union {path[j]} /\ GraphChanged
       \/ path[j] \in sourceSets /\ UNCHANGED <<sourceSets, stateEpoch>>
    /\ path' = [path EXCEPT ![j] = NoPath]
    /\ Goto(j, "rnext")
    /\ UNCHANGED <<loadedPathKeys, loadingPathKeys, sourceRootPaths,
                   indexingLane, plan, epoch, paths, parsedAt>>

-----------------------------------------------------------------------------
(* Reload of the scenario configuration.                                     *)

\* reload_scenario_config_with_timing reads the previous paths ...
ReloadPrevious(j) ==
    /\ pc[j] = "idle" /\ stateEpoch < MaxEpoch
    /\ paths' = [paths EXCEPT ![j] = sourceRootPaths]
    /\ Goto(j, "store")
    /\ UNCHANGED <<session, sourceRootPaths, indexingLane, plan, path, epoch, parsedAt>>

\* ... resolves the next ones from the files on disk and stores them; equal
\* paths end the reload.
ReloadStore(j, next) ==
    /\ pc[j] = "store"
    /\ sourceRootPaths' = next
    /\ IF next # paths[j]
       THEN Goto(j, "reset") /\ UNCHANGED <<plan, path, paths, epoch, parsedAt>>
       ELSE Return(j)
    /\ UNCHANGED <<session, indexingLane>>

\* reset_to_open_documents, then the prewarm of the durable roots: the reload
\* goes on as a loader, whose roots are those of the initialization options.
ResetToOpenDocuments(j) ==
    /\ pc[j] = "reset"
    /\ GraphChanged
    /\ RebuiltSession
    /\ \E durable \in SUBSET PathKeys : paths' = [paths EXCEPT ![j] = durable]
    /\ Goto(j, "plan")
    /\ UNCHANGED <<sourceRootPaths, indexingLane, plan, path, epoch, parsedAt>>

-----------------------------------------------------------------------------
\* The client cancels the request: the handler's future is dropped at the
\* await it is suspended in, lane guard included.  Nothing cancels the
\* reservation it holds.  Notifications and reloads cannot be cancelled.
CancelRequest(j) ==
    /\ Cancellable
    /\ pc[j] \in (LoaderPc \union RebuildPc) \ {"idle"}
    /\ Return(j)
    /\ indexingLane' = IF indexingLane = j THEN Free ELSE indexingLane
    /\ UNCHANGED <<session, sourceRootPaths>>

Init ==
    /\ stateEpoch = 0
    /\ loadedPathKeys = {}
    /\ loadingPathKeys = [p \in PathKeys |-> NoOwner]
    /\ sourceSets = {}
    /\ needsRefresh = {}
    /\ sourceRootPaths = PathKeys
    /\ indexingLane = Free
    /\ pc = [j \in Jobs |-> "idle"]
    /\ plan = [j \in Jobs |-> {}]
    /\ path = [j \in Jobs |-> NoPath]
    /\ epoch = [j \in Jobs |-> 0]
    /\ paths = [j \in Jobs |-> {}]
    /\ parsedAt = [j \in Jobs |-> 0]

\* The steps of a job that is already running.
JobStep(j) ==
    \/ PlanLoads(j)
    \/ \E p \in PathKeys : Reserve(j, p)
    \/ FinishPlan(j)
    \/ AcquireLane(j)
    \/ ParseOk(j)
    \/ ParseErr(j)
    \/ LoadFailure(j)
    \/ Apply(j)
    \/ ApplyStale(j)
    \/ RefreshEpoch(j)
    \/ \E p \in PathKeys : RefreshLive(j, p)
    \/ RebuildApply(j)
    \/ \E next \in SUBSET PathKeys : ReloadStore(j, next)
    \/ ResetToOpenDocuments(j)

Next ==
    \/ \E j \in Jobs : JobStep(j)
    \/ \E j \in Jobs : ReadPaths(j) \/ StartRebuild(j) \/ ReloadPrevious(j)
    \/ \E j \in Jobs : CancelRequest(j)
    \/ \E p \in PathKeys : EditRootDocument(p)

Spec == Init /\ [][Next]_vars

\* Handlers keep being polled, and the indexing lane and the session lock are
\* handed out in arrival order, so no job waits for ever while others pass.
FairSpec == Spec /\ \A j \in Jobs : SF_vars(JobStep(j))

-----------------------------------------------------------------------------
(* Safety.                                                                   *)

\* A job that is loading a root at the current epoch still owns the
\* reservation it made: no late cancellation or late apply of another job
\* has taken it ("stale cancellation must leave the current reservation
\* active", reserve_source_root_load and cancel_source_root_load).
ReservationHeld ==
    \A j \in Jobs :
        pc[j] \in InFlight /\ epoch[j] = stateEpoch => loadingPathKeys[path[j]] = stateEpoch

\* No two jobs load the same root for the same epoch, also when a reset or a
\* failed parse released the reservation in between ("duplicate in-flight
\* reservations should be rejected").
SingleFlight ==
    \A i, j \in Jobs :
        /\ i # j /\ pc[i] \in InFlight /\ pc[j] \in InFlight
        /\ path[i] = path[j]
        => epoch[i] # epoch[j]

\* Every root recorded as loaded has its documents in the session: a reset
\* between a load's steps never leaves the key without the documents.
LoadedHasDocuments == loadedPathKeys \subseteq sourceSets

\* A root becomes loaded only from a parse that read the disk after the last
\* change of the source-root graph, whatever ran while the parse was waiting
\* for the indexing lane (apply_parsed_source_root_if_current).
InstalledParseIsCurrent ==
    [][\A p \in loadedPathKeys' \ loadedPathKeys :
          \E j \in Jobs : path[j] = p /\ pc[j] = "apply" /\ parsedAt[j] = stateEpoch]_vars

\* A reservation of the current epoch ends only when the job that owns it
\* applies or fails, or when the session is reset.
ReservationEndsByOwner ==
    [][\A p \in PathKeys :
          loadingPathKeys[p] = stateEpoch /\ loadingPathKeys'[p] # stateEpoch =>
              \/ \E j \in Jobs : path[j] = p /\ epoch[j] = stateEpoch
                                 /\ pc[j] \in {"apply", "fail"} /\ pc'[j] \notin InFlight
              \/ \E j \in Jobs : pc[j] = "reset" /\ pc'[j] = "plan"]_vars

\* A reservation is never left behind without the job that made it, except by
\* a request the client cancels: a failed parse, a stale load and a reset all
\* release it, so the root can be tried again.
HasOwner(p) ==
    \E j \in Jobs : pc[j] \in InFlight /\ path[j] = p /\ epoch[j] = loadingPathKeys[p]

ReservationLeaksOnlyByCancel ==
    [][\A p \in PathKeys :
          HasOwner(p) /\ loadingPathKeys'[p] # NoOwner =>
              HasOwner(p)' \/ \E j \in Jobs : CancelRequest(j)]_vars

-----------------------------------------------------------------------------
(* Liveness.                                                                 *)

\* Every handler returns: no job waits for ever on the lane or on a plan.
JobsReturn == \A j \in Jobs : pc[j] # "idle" ~> pc[j] = "idle"
=============================================================================
