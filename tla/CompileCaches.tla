---------------------------- MODULE CompileCaches ----------------------------
(***************************************************************************)
(* The caches of compiled models: the simulation compile cache, filled by   *)
(* simulations and by the background preparation of models, and the bounded *)
(* memo of hover previews.                                                  *)
(*                                                                          *)
(* Both are keyed by model, focus document, source-root epoch and the       *)
(* fingerprint of the local sources.  A request assembles what it compiles  *)
(* in several critical sections (the local sources, a clone of the session, *)
(* the epoch) and compiles without a lock, while edits, source-root loads   *)
(* and reloads of the scenario configuration change the session and clear   *)
(* the caches in sections of their own.                                     *)
(*                                                                          *)
(* A query of the simulation configuration prewarms the model: it registers *)
(* a job, which prepares the model in the background, and later requests    *)
(* for the same session wait for that job.                                  *)
(*                                                                          *)
(* One model and one focus document: other keys never meet these.  Contents *)
(* are version stamps; a compiled model is the stamps it was compiled from. *)
(***************************************************************************)
EXTENDS Naturals, Sequences, FiniteSets

CONSTANTS
    Requests,        \* requests in flight
    Changers,        \* handlers of the editor's notifications, one each
    Kinds,           \* what the requests may be, together
    Changes,         \* kinds of change
    Capacity,        \* HoverPreviewCache::CAPACITY
    MaxEpoch,        \* bound: source roots are loaded up to this epoch
    MaxRevision,     \* bound: edits, loads and resets follow up to this revision
    Free             \* the strict lane is not held; no job

Kind == {"simulate", "prepare", "hover", "config"}
Change == {"editLocal", "editRoot", "save"}

ASSUME CachesAssumption ==
    /\ Kinds \subseteq [Requests -> Kind]
    /\ Changes \subseteq Change
    /\ {Capacity, MaxEpoch, MaxRevision} \subseteq Nat
    /\ Free \notin Requests

VARIABLES
    local,           \* the local compile unit's sources in the session
    roots,           \* the source-root documents in the session
    dirty,           \* some source root has live edits not yet rebuilt
    epoch,           \* source_root_state_epoch
    revision,        \* Session::revision
    mutationEpoch,   \* completion_mutation_epoch
    simCache,        \* simulation_compile_cache: entries [key, roots, vouched]
    hoverCache,      \* HoverPreviewCache.entries
    hoverOrder,      \* HoverPreviewCache.order
    registered,      \* simulation_prewarm_state: whose job, or Free
    lane,            \* holder of work_lanes.strict
    cPc,             \* where each changer is
    change,          \* what each changer changes
    pc,              \* where each request is
    kind,            \* what each request is
    token,           \* its AnalysisRequestToken
    context,         \* the sources and roots it compiles
    keyEpoch,        \* the epoch in its cache key
    used,            \* the roots behind the compiled model it ended up with
    vouched,         \* history: its token checks mean what they say
    job,             \* the prewarm job it registered: SimulationPrewarmState.done
    stamp,           \* the revision and source-root epoch it read for a job
    awaits,          \* the job it waits for, or Free
    notified         \* whether that job's Notify has woken it

sessionVars == <<local, roots, dirty, epoch, revision>>
cacheVars == <<simCache, hoverCache, hoverOrder, registered>>
jobVars == <<job, stamp, awaits, notified>>
requestVars == <<pc, kind, vouched, token, context, keyEpoch, used, jobVars>>
changerVars == <<cPc, change>>
vars == <<sessionVars, mutationEpoch, cacheVars, lane, changerVars, requestVars>>

Key == [local : Nat, epoch : Nat]
Entry == [key : Key, roots : Nat, vouched : BOOLEAN]
ChangerPc == {"new", "reload", "reset", "durable", "durableClear", "clear", "bump", "done"}
Pc == {"token", "precheck", "load", "loadClear", "refresh", "check", "lane",
       "rebuild", "live", "replace", "rebuildClear", "sources", "base", "recheck", "epoch",
       "lookup", "relookup", "compile", "confirm", "insert", "result", "answered", "done",
       "waitRevision", "waitEpoch", "waitGet", "waitRegister", "waitRecheck", "asleep", "waited",
       "jobEpoch", "jobGet", "jobInsert"}

TypeOK ==
    /\ {local, roots, epoch, revision, mutationEpoch} \subseteq Nat
    /\ dirty \in BOOLEAN
    /\ simCache \subseteq Entry
    /\ hoverCache \subseteq Entry
    /\ hoverOrder \in Seq(Key)
    /\ lane \in Requests \union {Free}
    /\ cPc \in [Changers -> ChangerPc]
    /\ change \in [Changers -> Change]
    /\ pc \in [Requests -> Pc]
    /\ kind \in [Requests -> Kind]
    /\ token \in [Requests -> [epoch : Nat, revision : Nat]]
    /\ context \in [Requests -> [local : Nat, roots : Nat]]
    /\ keyEpoch \in [Requests -> Nat]
    /\ used \in [Requests -> Nat]
    /\ vouched \in [Requests -> BOOLEAN]
    /\ registered \in Requests \union {Free}
    /\ job \in [Requests -> {"none", "running", "done"}]
    /\ stamp \in [Requests -> [revision : Nat, epoch : Nat]]
    /\ awaits \in [Requests -> Requests \union {Free}]
    /\ notified \in [Requests -> BOOLEAN]
    /\ \A r \in Requests : lane = r => pc[r] \notin {"answered", "done"}

Goto(r, label) == pc' = [pc EXCEPT ![r] = label]
CGoto(c, label) == cPc' = [cPc EXCEPT ![c] = label]

KeyOf(r) == [local |-> context[r].local, epoch |-> keyEpoch[r]]

Cache(k) == IF k = "hover" THEN hoverCache ELSE simCache
Hits(r) == {e \in Cache(kind[r]) : e.key = KeyOf(r)}

\* HashMap::insert of what r ended up with.
Inserted(cache, r) ==
    {e \in cache : e.key # KeyOf(r)} \union {[key |-> KeyOf(r), roots |-> used[r], vouched |-> vouched[r]]}

\* A slip for ClearCaches: the hover memo keeps its queue.
ClearEntriesOnly ==
    /\ simCache' = {}
    /\ hoverCache' = {}
    /\ registered' = Free
    /\ UNCHANGED hoverOrder

\* clear_simulation_compile_cache: the prewarm jobs are forgotten, though they
\* run on, and the hover memo goes with it.
ClearCaches ==
    /\ simCache' = {}
    /\ hoverCache' = {}
    /\ hoverOrder' = <<>>
    /\ registered' = Free

-----------------------------------------------------------------------------
(* Handlers of the editor's notifications.                                      *)

\* did_open, did_change or did_close of a local document, or of a live
\* document of a source root, whose root becomes dirty; or did_save of the
\* scenario configuration, which leaves the session as it is.
ApplyChange(c) ==
    /\ cPc[c] = "new"
    /\ revision <= MaxRevision
    /\ \/ /\ change[c] = "editLocal"
          /\ CGoto(c, "reload")
          /\ local' = local + 1
          /\ revision' = revision + 1
          /\ UNCHANGED <<roots, dirty, epoch>>
       \/ /\ change[c] = "editRoot"
          /\ CGoto(c, "reload")
          /\ roots' = roots + 1
          /\ revision' = revision + 1
          /\ dirty' = TRUE
          /\ UNCHANGED <<local, epoch>>
       \/ /\ change[c] = "save"
          /\ CGoto(c, "reload")
          /\ UNCHANGED sessionVars
    /\ UNCHANGED <<change, mutationEpoch, cacheVars, lane, requestVars>>

\* Edits clear the caches after the reload; a save does nothing more.
AfterReload(c) == IF change[c] = "save" THEN "done" ELSE "clear"

\* reload_scenario_config: only source-root paths that have changed matter.
\* The caches go before the session does.
ReloadConfig(c) ==
    /\ cPc[c] = "reload"
    /\ \/ CGoto(c, AfterReload(c)) /\ UNCHANGED cacheVars
       \/ revision <= MaxRevision /\ CGoto(c, "reset") /\ ClearCaches
    /\ UNCHANGED <<sessionVars, change, mutationEpoch, lane, requestVars>>

\* reset_to_open_documents: the roots are dropped, and the revision starts
\* again, at one if a document is open.  No token that is out means anything.
ResetSession(c) ==
    /\ cPc[c] = "reset"
    /\ CGoto(c, "durable")
    /\ roots' = roots + 1
    /\ dirty' = FALSE
    /\ epoch' = epoch + 1
    /\ revision' \in {0, 1}
    /\ vouched' = [r \in Requests |-> FALSE]
    /\ UNCHANGED <<local, change, mutationEpoch, cacheVars, lane, pc, kind, token, context, keyEpoch, used, jobVars>>

\* prewarm_durable_source_roots: nothing to load, or a root.
LoadDurable(c) ==
    /\ cPc[c] = "durable"
    /\ \/ CGoto(c, AfterReload(c)) /\ UNCHANGED sessionVars
       \/ /\ epoch <= MaxEpoch
          /\ CGoto(c, "durableClear")
          /\ roots' = roots + 1
          /\ epoch' = epoch + 1
          /\ revision' = revision + 1
          /\ UNCHANGED <<local, dirty>>
    /\ UNCHANGED <<change, mutationEpoch, cacheVars, lane, requestVars>>

ChangeClear(c) ==
    /\ \/ cPc[c] = "durableClear" /\ CGoto(c, AfterReload(c))
       \/ cPc[c] = "clear" /\ CGoto(c, "bump")
    /\ ClearCaches
    /\ UNCHANGED <<sessionVars, change, mutationEpoch, lane, requestVars>>

ChangeBump(c) ==
    /\ cPc[c] = "bump"
    /\ mutationEpoch' = mutationEpoch + 1
    /\ CGoto(c, "done")
    /\ UNCHANGED <<sessionVars, change, cacheVars, lane, requestVars>>

-----------------------------------------------------------------------------
(* The requests.  What follows what, per kind of request.                    *)

FirstStep == [simulate |-> "token", prepare |-> "token", hover |-> "token", config |-> "waitRevision"]
AfterToken == [simulate |-> "waitRevision", prepare |-> "load", hover |-> "precheck", config |-> "jobEpoch"]
AfterCheck == [simulate |-> "lane", prepare |-> "rebuild", hover |-> "relookup"]
AfterBase == [simulate |-> "epoch", prepare |-> "recheck", hover |-> "epoch"]
AfterLane == [simulate |-> "rebuild", prepare |-> "done", hover |-> "check"]
AfterMiss == [simulate |-> "compile", prepare |-> "compile", hover |-> "lane"]
AfterCompile == [simulate |-> "insert", prepare |-> "confirm", hover |-> "insert"]
AfterResult == [simulate |-> "result", prepare |-> "answered", hover |-> "result"]

Ended == {"answered", "done"}

\* A slip for LaneWithout: a return that forgets the guard.
LaneKept(r) == lane

\* The lane after r returns, which drops r's guard.
LaneWithout(r) == IF lane = r THEN Free ELSE lane

\* hover_flat_preview returns with the model, a simulation keeps the lane
\* until it has answered.
LaneAfterModel(r) == IF kind[r] = "hover" THEN LaneWithout(r) ELSE lane

NoToken == [epoch |-> 0, revision |-> 0]
NoContext == [local |-> 0, roots |-> 0]
NoStamp == [revision |-> 0, epoch |-> 0]

\* r goes on at label; if that is its end, its token and key go out of scope,
\* and without an answer the context too.
Leave(r, label) ==
    /\ Goto(r, label)
    /\ token' = IF label \in Ended THEN [token EXCEPT ![r] = NoToken] ELSE token
    /\ keyEpoch' = IF label \in Ended THEN [keyEpoch EXCEPT ![r] = 0] ELSE keyEpoch
    /\ context' = IF label = "done" THEN [context EXCEPT ![r] = NoContext] ELSE context

\* From here on until the revision restarts, a token check finds out whether
\* the session has changed.  A simulation inserts what it compiled without one.
Vouch(r) == vouched' = [vouched EXCEPT ![r] = kind[r] \in {"prepare", "config"}]

\* begin_analysis_request.
TakeToken(r) ==
    /\ pc[r] = "token"
    /\ token' = [token EXCEPT ![r] = [epoch |-> mutationEpoch, revision |-> revision]]
    /\ Vouch(r)
    /\ Goto(r, AfterToken[kind[r]])
    /\ UNCHANGED <<sessionVars, mutationEpoch, cacheVars, lane, changerVars, kind, context, keyEpoch, used, jobVars>>

\* ensure_source_roots_loaded_with_paths: nothing, or a load of its own, after
\* which the token's revision is refreshed.
LoadRoots(r) ==
    /\ pc[r] = "load"
    /\ \/ /\ Goto(r, "check")
          /\ UNCHANGED sessionVars
       \/ /\ epoch <= MaxEpoch /\ revision <= MaxRevision
          /\ roots' = roots + 1
          /\ epoch' = epoch + 1
          /\ revision' = revision + 1
          /\ Goto(r, "loadClear")
          /\ UNCHANGED <<local, dirty>>
    /\ UNCHANGED <<mutationEpoch, cacheVars, lane, changerVars, kind, vouched, token, context, keyEpoch, used,
                   jobVars>>

\* The caches are cleared after a load, and after the rebuild of a dirty root.
RequestClear(r) ==
    /\ \/ pc[r] = "loadClear" /\ Goto(r, "refresh")
       \/ pc[r] = "rebuildClear" /\ Goto(r, "sources")
    /\ ClearCaches
    /\ UNCHANGED <<sessionVars, mutationEpoch, lane, changerVars, kind, vouched, token, context, keyEpoch, used,
                   jobVars>>

\* refresh_analysis_request_revision, after a load and after a wait.
RefreshToken(r) ==
    /\ token' = [token EXCEPT ![r].revision = revision]
    /\ Vouch(r)
    /\ \/ pc[r] = "refresh" /\ Goto(r, "check")
       \/ pc[r] = "waited" /\ Goto(r, "load")
    /\ UNCHANGED <<sessionVars, mutationEpoch, cacheVars, lane, changerVars, kind, context, keyEpoch, used, jobVars>>

\* A slip for IsStale: staleness is the mutation epoch's alone.
EpochMoved(r) == token[r].epoch # mutationEpoch

\* analysis_request_is_stale, in one step: the epoch only ever moves on.
IsStale(r) == token[r].epoch # mutationEpoch \/ token[r].revision # revision

AfterFresh(r) ==
    [precheck |-> "sources", check |-> AfterCheck[kind[r]], recheck |-> "epoch", confirm |-> "insert",
     result |-> "answered"][pc[r]]

CheckStale(r) ==
    /\ pc[r] \in {"precheck", "check", "recheck", "confirm", "result"}
    /\ LET next == IF IsStale(r) THEN "done" ELSE AfterFresh(r)
       IN /\ Leave(r, next)
          /\ lane' = IF next \in Ended THEN LaneWithout(r) ELSE lane
          /\ used' = IF next = "done" THEN [used EXCEPT ![r] = 0] ELSE used
    /\ UNCHANGED <<sessionVars, mutationEpoch, cacheVars, changerVars, kind, vouched, jobVars>>

\* The strict lane: held by simulations and by hover previews.
AcquireLane(r) ==
    /\ pc[r] = "lane"
    /\ lane = Free
    /\ lane' = r
    /\ Goto(r, AfterLane[kind[r]])
    /\ UNCHANGED <<sessionVars, mutationEpoch, cacheVars, changerVars, kind, vouched, token, context, keyEpoch, used,
                   jobVars>>

\* rebuild_dirty_source_roots_before_compile: with a dirty root, a refresh of
\* its live subtree is tried first.
ReadDirty(r) ==
    /\ pc[r] = "rebuild"
    /\ Goto(r, IF dirty THEN "live" ELSE "sources")
    /\ UNCHANGED <<sessionVars, mutationEpoch, cacheVars, lane, changerVars, kind, vouched, token, context, keyEpoch,
                   used, jobVars>>

\* refresh_dirty_source_root_from_live_subtree: a root that is no longer dirty,
\* or whose live documents do not cover what is dirty, is read from disk.
RefreshLive(r) ==
    /\ pc[r] = "live"
    /\ \/ /\ dirty
          /\ dirty' = FALSE
          /\ epoch' = epoch + 1
          /\ Goto(r, "rebuildClear")
          /\ UNCHANGED <<local, roots, revision>>
       \/ Goto(r, "replace") /\ UNCHANGED sessionVars
    /\ UNCHANGED <<mutationEpoch, cacheVars, lane, changerVars, kind, vouched, token, context, keyEpoch, used,
                   jobVars>>

\* What r has read of the session may be put in the cache, or asked of it.
HasClone(r) == pc[r] \in {"recheck", "epoch", "lookup", "compile", "confirm", "insert"}

\* rebuild_dirty_source_root_from_disk: the parse fails and ends the request, or
\* the session gets new documents, or those it has already.  Then the root is no
\* longer dirty under an epoch that has not moved.
ReplaceRoot(r) ==
    /\ pc[r] = "replace"
    /\ \/ /\ Leave(r, "done")
          /\ lane' = LaneWithout(r)
          /\ UNCHANGED <<sessionVars, simCache, vouched>>
       \/ /\ roots' = roots + 1
          /\ revision' = revision + 1
          /\ epoch' = epoch + 1
          /\ dirty' = FALSE
          /\ Leave(r, "rebuildClear")
          /\ UNCHANGED <<local, lane, simCache, vouched>>
       \/ /\ dirty' = FALSE
          /\ simCache' = {[e EXCEPT !.vouched = FALSE] : e \in simCache}
          /\ vouched' = [q \in Requests |-> vouched[q] /\ ~HasClone(q)]
          /\ Leave(r, "rebuildClear")
          /\ UNCHANGED <<local, roots, revision, epoch, lane>>
    /\ UNCHANGED <<mutationEpoch, hoverCache, hoverOrder, registered, changerVars, kind, used, jobVars>>

\* prepare_simulation_compile_context: the local sources under one lock, the
\* clone of the session under another.
ReadSources(r) ==
    /\ pc[r] = "sources"
    /\ context' = [context EXCEPT ![r].local = local]
    /\ Goto(r, "base")
    /\ UNCHANGED <<sessionVars, mutationEpoch, cacheVars, lane, changerVars, kind, vouched, token, keyEpoch, used,
                   jobVars>>

CloneBase(r) ==
    /\ pc[r] = "base"
    /\ context' = [context EXCEPT ![r].roots = roots]
    /\ Goto(r, AfterBase[kind[r]])
    /\ UNCHANGED <<sessionVars, mutationEpoch, cacheVars, lane, changerVars, kind, vouched, token, keyEpoch, used,
                   jobVars>>

ReadEpoch(r) ==
    /\ pc[r] = "epoch"
    /\ keyEpoch' = [keyEpoch EXCEPT ![r] = epoch]
    /\ Goto(r, "lookup")
    /\ UNCHANGED <<sessionVars, mutationEpoch, cacheVars, lane, changerVars, kind, vouched, token, context, used,
                   jobVars>>

\* A hover looks again once it has the lane.
Lookup(r) ==
    /\ pc[r] \in {"lookup", "relookup"}
    /\ \/ \E e \in Hits(r) :
             /\ used' = [used EXCEPT ![r] = e.roots]
             /\ vouched' = [vouched EXCEPT ![r] = @ /\ e.vouched]
             /\ Leave(r, AfterResult[kind[r]])
             /\ lane' = LaneAfterModel(r)
       \/ /\ Hits(r) = {}
          /\ Leave(r, IF pc[r] = "relookup" THEN "compile" ELSE AfterMiss[kind[r]])
          /\ UNCHANGED <<used, vouched, lane>>
    /\ UNCHANGED <<sessionVars, mutationEpoch, cacheVars, changerVars, kind, jobVars>>

\* A model that does not compile ends a simulation or a preparation; a hover
\* memoizes it like one that does.
Compile(r) ==
    /\ pc[r] = "compile"
    /\ \/ /\ used' = [used EXCEPT ![r] = context[r].roots]
          /\ Leave(r, AfterCompile[kind[r]])
          /\ UNCHANGED lane
       \/ /\ kind[r] # "hover"
          /\ Leave(r, "done")
          /\ lane' = LaneWithout(r)
          /\ UNCHANGED used
    /\ UNCHANGED <<sessionVars, mutationEpoch, cacheVars, changerVars, kind, vouched, jobVars>>

\* HoverPreviewCache::insert: a new key joins the queue, and the oldest keys
\* leave it until it fits.
OrderAfter(k) ==
    IF \E e \in hoverCache : e.key = k THEN hoverOrder ELSE Append(hoverOrder, k)

InsertPreview(r) ==
    LET order == OrderAfter(KeyOf(r))
        excess == IF Len(order) > Capacity THEN Len(order) - Capacity ELSE 0
        evicted == {order[i] : i \in 1 .. excess}
    IN /\ hoverOrder' = SubSeq(order, excess + 1, Len(order))
       /\ hoverCache' = {e \in Inserted(hoverCache, r) : e.key \notin evicted}
       /\ UNCHANGED <<simCache, registered>>

Insert(r) ==
    /\ pc[r] = "insert"
    /\ \/ kind[r] = "hover" /\ InsertPreview(r)
       \/ /\ kind[r] # "hover"
          /\ simCache' = Inserted(simCache, r)
          /\ UNCHANGED <<hoverCache, hoverOrder, registered>>
    /\ Leave(r, AfterResult[kind[r]])
    /\ lane' = LaneAfterModel(r)
    /\ UNCHANGED <<sessionVars, mutationEpoch, changerVars, kind, vouched, used, jobVars>>

-----------------------------------------------------------------------------

(* The prewarm jobs of simulation_jobs.rs and the requests that wait for one. *)

\* wait_for_simulation_prewarm_if_current reads the revision, the epoch and
\* the table in sections of their own, as prewarm_simulation_model_for_uri does.
ReadStamp(r) ==
    /\ \/ pc[r] = "waitRevision" /\ stamp' = [stamp EXCEPT ![r].revision = revision] /\ Goto(r, "waitEpoch")
       \/ pc[r] = "waitEpoch" /\ stamp' = [stamp EXCEPT ![r].epoch = epoch] /\ Goto(r, "waitGet")
       \/ /\ pc[r] = "jobEpoch"
          /\ stamp' = [stamp EXCEPT ![r] = [revision |-> token[r].revision, epoch |-> epoch]]
          /\ Goto(r, "jobGet")
    /\ UNCHANGED <<sessionVars, mutationEpoch, cacheVars, lane, changerVars, kind, vouched, token, context, keyEpoch,
                   used,
                   job, awaits, notified>>

\* A job for the session as r read it runs.
HasCurrentJob(r) ==
    /\ registered # Free
    /\ stamp[registered] = stamp[r]
    /\ job[registered] = "running"

AfterWait == [simulate |-> "waited", config |-> "done"]
AfterNoWait == [simulate |-> "load", config |-> "token"]

WaitGet(r) ==
    /\ pc[r] = "waitGet"
    /\ stamp' = [stamp EXCEPT ![r] = NoStamp]
    /\ \/ /\ HasCurrentJob(r)
          /\ awaits' = [awaits EXCEPT ![r] = registered]
          /\ Goto(r, "waitRegister")
       \/ /\ ~HasCurrentJob(r)
          /\ Goto(r, AfterNoWait[kind[r]])
          /\ UNCHANGED awaits
    /\ UNCHANGED <<sessionVars, mutationEpoch, cacheVars, lane, changerVars, kind, vouched, token, context, keyEpoch,
                   used,
                   job, notified>>

\* finished.notified(): from here on the job's notification reaches r.
WaitRegister(r) ==
    /\ pc[r] = "waitRegister"
    /\ Goto(r, "waitRecheck")
    /\ UNCHANGED <<sessionVars, mutationEpoch, cacheVars, lane, changerVars, kind, vouched, token, context, keyEpoch,
                   used, jobVars>>

\* A slip for WaitRecheck: the flag is not read again.
SleepAtOnce(r) ==
    /\ pc[r] = "waitRecheck"
    /\ Goto(r, "asleep")
    /\ UNCHANGED <<sessionVars, mutationEpoch, cacheVars, lane, changerVars, kind, vouched, token, context, keyEpoch,
                   used, jobVars>>

WaitRecheck(r) ==
    /\ pc[r] = "waitRecheck"
    /\ Goto(r, IF job[awaits[r]] = "running" THEN "asleep" ELSE AfterWait[kind[r]])
    /\ UNCHANGED <<sessionVars, mutationEpoch, cacheVars, lane, changerVars, kind, vouched, token, context, keyEpoch,
                   used, jobVars>>

WaitWake(r) ==
    /\ pc[r] = "asleep" /\ notified[r]
    /\ Goto(r, AfterWait[kind[r]])
    /\ UNCHANGED <<sessionVars, mutationEpoch, cacheVars, lane, changerVars, kind, vouched, token, context, keyEpoch,
                   used, jobVars>>

\* A job for the session as it is is enough.
JobGet(r) ==
    /\ pc[r] = "jobGet"
    /\ \/ HasCurrentJob(r) /\ Leave(r, "done") /\ stamp' = [stamp EXCEPT ![r] = NoStamp]
       \/ ~HasCurrentJob(r) /\ Leave(r, "jobInsert") /\ UNCHANGED stamp
    /\ UNCHANGED <<sessionVars, mutationEpoch, cacheVars, lane, changerVars, kind, vouched, used, job, awaits,
                   notified>>

\* The job replaces whatever is registered.  The handler that spawned it
\* returns; what goes on under its name is the job, a preparation.
JobInsert(r) ==
    /\ pc[r] = "jobInsert"
    /\ registered' = r
    /\ job' = [job EXCEPT ![r] = "running"]
    /\ kind' = [kind EXCEPT ![r] = "prepare"]
    /\ Goto(r, "load")
    /\ UNCHANGED <<sessionVars, mutationEpoch, simCache, hoverCache, hoverOrder, lane, changerVars, vouched, token,
                   context, keyEpoch, used, stamp, awaits, notified>>

\* finish_simulation_prewarm: the flag and the notification,
JobNotify(r) ==
    /\ pc[r] \in Ended /\ job[r] = "running"
    /\ job' = [job EXCEPT ![r] = "done"]
    /\ notified' = [q \in Requests |-> notified[q] \/ (awaits[q] = r /\ pc[q] \in {"waitRecheck", "asleep"})]
    /\ UNCHANGED <<sessionVars, mutationEpoch, cacheVars, lane, changerVars, pc, kind, vouched, token, context,
                   keyEpoch, used,
                   stamp, awaits>>

\* A slip for RegisteredAfter: the job's key is removed, whoever is there.
RegisteredByNobody(r) == Free

\* and then its entry, unless another job has taken its place.
RegisteredAfter(r) == IF registered = r THEN Free ELSE registered

JobRemove(r) ==
    /\ job[r] = "done"
    /\ job' = [job EXCEPT ![r] = "none"]
    /\ stamp' = [stamp EXCEPT ![r] = NoStamp]
    /\ registered' = RegisteredAfter(r)
    /\ UNCHANGED <<sessionVars, mutationEpoch, simCache, hoverCache, hoverOrder, lane, changerVars, pc, kind,
                   vouched, token, context,
                   keyEpoch, used, awaits, notified>>

-----------------------------------------------------------------------------
Init ==
    /\ local = 1 /\ roots = 0 /\ dirty = FALSE /\ epoch = 0
    /\ revision = 1 /\ mutationEpoch = 0
    /\ simCache = {} /\ hoverCache = {} /\ hoverOrder = <<>> /\ registered = Free
    /\ lane = Free
    /\ cPc = [c \in Changers |-> "new"]
    /\ change \in [Changers -> Changes]
    /\ kind \in Kinds
    /\ pc = [r \in Requests |-> FirstStep[kind[r]]]
    /\ token = [r \in Requests |-> NoToken]
    /\ context = [r \in Requests |-> NoContext]
    /\ keyEpoch = [r \in Requests |-> 0]
    /\ used = [r \in Requests |-> 0]
    /\ vouched = [r \in Requests |-> FALSE]
    /\ job = [r \in Requests |-> "none"]
    /\ stamp = [r \in Requests |-> NoStamp]
    /\ awaits = [r \in Requests |-> Free]
    /\ notified = [r \in Requests |-> FALSE]

ChangerStep(c) ==
    \/ ApplyChange(c) \/ ReloadConfig(c) \/ ResetSession(c) \/ LoadDurable(c)
    \/ ChangeClear(c) \/ ChangeBump(c)

RequestStep(r) ==
    \/ TakeToken(r) \/ LoadRoots(r) \/ RequestClear(r) \/ RefreshToken(r)
    \/ CheckStale(r) \/ AcquireLane(r)
    \/ ReadDirty(r) \/ RefreshLive(r) \/ ReplaceRoot(r)
    \/ ReadSources(r) \/ CloneBase(r) \/ ReadEpoch(r)
    \/ Lookup(r) \/ Compile(r) \/ Insert(r)
    \/ ReadStamp(r) \/ WaitGet(r) \/ WaitRegister(r) \/ WaitRecheck(r) \/ WaitWake(r)
    \/ JobGet(r) \/ JobInsert(r) \/ JobNotify(r) \/ JobRemove(r)

Next ==
    \/ \E c \in Changers : ChangerStep(c)
    \/ \E r \in Requests : RequestStep(r)

Spec == Init /\ [][Next]_vars

\* Handlers run to their end; the strict lane is a fair mutex.
FairSpec ==
    /\ Spec
    /\ \A c \in Changers : WF_vars(ChangerStep(c) /\ cPc[c] # "new")
    /\ \A r \in Requests : WF_vars(RequestStep(r) /\ pc[r] # "lane") /\ SF_vars(AcquireLane(r))

-----------------------------------------------------------------------------
(* Properties.                                                               *)

\* A request never ends with a compiled model older than the source-root
\* documents it would have compiled itself: a hit is as good as a compile.
HitIsNotOlder == \A r \in Requests : pc[r] = "answered" => used[r] >= context[r].roots

\* The same of the models prepared in the background, whatever is edited,
\* loaded, reloaded and rebuilt meanwhile: a preparation tests its token again
\* between the clone of the session and the insert.  Left out are preparations
\* whose token a reset of the session has outlived, those that meet a rebuild
\* which changes nothing, and hits on what either of them, or a simulation, has
\* inserted.
PreparedHitIsNotOlder ==
    \A r \in Requests : pc[r] = "answered" /\ kind[r] = "prepare" /\ vouched[r] => used[r] >= context[r].roots

\* The hover memo stays bounded, and its queue lists exactly its keys, each
\* once, however hovers and invalidations interleave.
HoverMemoConsistent ==
    /\ Len(hoverOrder) <= Capacity
    /\ {hoverOrder[i] : i \in 1 .. Len(hoverOrder)} = {e.key : e \in hoverCache}
    /\ Cardinality(hoverCache) = Len(hoverOrder)

\* A request that sleeps on a prewarm job has its wake-up ahead: the job still
\* runs, even where an edit has made the server forget it.
SleeperHasJob ==
    \A r \in Requests : pc[r] = "asleep" /\ ~notified[r] => job[awaits[r]] = "running"

Clearing ==
    \/ \E c \in Changers : cPc[c] \in {"reload", "durableClear", "clear"} /\ cPc'[c] # cPc[c]
    \/ \E r \in Requests : pc[r] \in {"loadClear", "rebuildClear"} /\ pc'[r] # pc[r]

\* A job that runs stays where later requests find it until a newer job takes
\* its place or the caches are cleared: an older job that ends does not take
\* a newer one's entry with it.
JobStaysRegistered ==
    [][\A r \in Requests :
          registered = r /\ job[r] = "running" /\ registered' = Free => Clearing]_vars

\* Every request returns: the strict lane is given back on
\* every path, early returns included, and no wait is for ever.
RequestsReturn == <>(\A r \in Requests : pc[r] \in Ended)
=============================================================================
