----------------------------- MODULE ReadPrewarm -----------------------------
(***************************************************************************)
(* The background prewarm of the source-root read queries and the handlers  *)
(* that wait for it.                                                        *)
(*                                                                          *)
(* A handler that wants the caches warm reads the session revision, takes a *)
(* snapshot, and sets the session's "read prewarm pending" marker to that   *)
(* revision, three separate critical sections; the task it spawns warms the *)
(* snapshot on the indexing lane, clears the marker if it still names its   *)
(* revision, and wakes every waiter.  A handler waits with the usual Notify *)
(* pattern: register first, then look at the marker, then sleep.  Every     *)
(* mutation of the session clears the marker.                               *)
(***************************************************************************)
EXTENDS Naturals

CONSTANTS
    Handlers,        \* handler invocations: each may spawn one task, and waits
    NoRevision,      \* the marker is None
    Free,            \* the indexing lane is not held
    MaxMutations     \* bound on the mutations of the session

ASSUME PrewarmAssumption ==
    /\ NoRevision \notin Nat
    /\ Free \notin Handlers
    /\ MaxMutations \in Nat

VARIABLES
    revision,        \* Session::revision
    pendingPrewarm,  \* source_root_indexing.read_prewarm_session_revision
    notifyOwed,      \* a mutation still has to call notify_waiters
    mutations,       \* how often the session was mutated (for the bound)
    lane,            \* holder of work_lanes.indexing: the handler whose task it is
    hPc,             \* where each handler is
    hRevision,       \* the revision a handler read
    woken,           \* its Notified future has fired
    tPc,             \* where the task spawned by each handler is
    tRevision        \* the revision that task was spawned for

sessionVars == <<revision, pendingPrewarm, notifyOwed, mutations>>
handlerVars == <<hPc, hRevision, woken>>
taskVars == <<lane, tPc, tRevision>>
vars == <<sessionVars, handlerVars, taskVars>>

HandlerPc == {"new", "snapshot", "begin", "spawned", "register", "revision", "check", "sleep", "done"}
TaskPc == {"none", "lane", "run", "finish", "notify", "done"}
\* A task in one of these will still clear the marker it set.
Unfinished == {"lane", "run", "finish"}

TypeOK ==
    /\ revision \in Nat
    /\ pendingPrewarm \in Nat \union {NoRevision}
    /\ notifyOwed \in BOOLEAN
    /\ mutations \in Nat
    /\ lane \in Handlers \union {Free}
    /\ hPc \in [Handlers -> HandlerPc]
    /\ hRevision \in [Handlers -> Nat]
    /\ woken \in [Handlers -> BOOLEAN]
    /\ tPc \in [Handlers -> TaskPc]
    /\ tRevision \in [Handlers -> Nat]
    /\ \A t \in Handlers : tPc[t] = "run" <=> lane = t

HGoto(h, label) == hPc' = [hPc EXCEPT ![h] = label]
TGoto(t, label) == tPc' = [tPc EXCEPT ![t] = label]

\* The handlers whose Notified future exists and is not yet dropped.
Registered == {h \in Handlers : hPc[h] \in {"revision", "check", "sleep"}}

\* A slip for NotifyWaiters: notify_one instead of notify_waiters.
NotifyOne ==
    IF Registered = {} THEN UNCHANGED woken
    ELSE \E h \in Registered : woken' = [woken EXCEPT ![h] = TRUE]

\* Notify::notify_waiters: wake every future that exists, remember nothing
\* for those made later.
NotifyWaiters == woken' = [h \in Handlers |-> woken[h] \/ h \in Registered]

-----------------------------------------------------------------------------
(* Mutations of the session.                                                 *)

Mutate ==
    /\ mutations < MaxMutations
    /\ mutations' = mutations + 1
    /\ pendingPrewarm' = NoRevision
    /\ UNCHANGED <<hPc, hRevision, woken, taskVars>>

\* bump_revision, for an edit: clears the marker and wakes nobody.
ApplyChange ==
    /\ Mutate
    /\ revision' = revision + 1
    /\ UNCHANGED notifyOwed

\* A source-root load or rebuild: one bump, and a wake-up after the lock is
\* released; a live subtree refresh does the same without a new revision.
ChangeSourceRoots ==
    /\ Mutate
    /\ revision' \in {revision, revision + 1}
    /\ notifyOwed' = TRUE

\* reset_to_open_documents: the rebuilt session counts its revisions from
\* zero again, and is at one if any document is open.
ResetSession ==
    /\ Mutate
    /\ revision' \in {0, 1}
    /\ notifyOwed' = TRUE

NotifyAfterMutation ==
    /\ notifyOwed
    /\ notifyOwed' = FALSE
    /\ NotifyWaiters
    /\ UNCHANGED <<revision, pendingPrewarm, mutations, hPc, hRevision, taskVars>>

-----------------------------------------------------------------------------
(* spawn_background_source_root_read_prewarm.                                *)

SpawnReadRevision(h) ==
    /\ hPc[h] = "new"
    /\ hRevision' = [hRevision EXCEPT ![h] = revision]
    /\ HGoto(h, "snapshot")
    /\ UNCHANGED <<sessionVars, woken, taskVars>>

\* A snapshot that needs no prewarm ends the spawn.
SpawnSnapshot(h) ==
    /\ hPc[h] = "snapshot"
    /\ HGoto(h, "begin") \/ HGoto(h, "spawned")
    /\ UNCHANGED <<sessionVars, hRevision, woken, taskVars>>

\* begin_source_root_read_prewarm does not compare the revision it is given
\* with the session's.  tokio::spawn follows without an await.
SpawnBegin(h) ==
    /\ hPc[h] = "begin"
    /\ \/ /\ pendingPrewarm = hRevision[h]
          /\ UNCHANGED <<pendingPrewarm, tPc, tRevision>>
       \/ /\ pendingPrewarm # hRevision[h]
          /\ pendingPrewarm' = hRevision[h]
          /\ TGoto(h, "lane")
          /\ tRevision' = [tRevision EXCEPT ![h] = hRevision[h]]
    /\ HGoto(h, "spawned")
    /\ UNCHANGED <<revision, notifyOwed, mutations, hRevision, woken, lane>>

-----------------------------------------------------------------------------
(* The spawned task.                                                         *)

\* A slip for TaskAcquireLane: the task does not wait for the lane.
TaskTakeLane(t) ==
    /\ tPc[t] = "lane"
    /\ lane' = t
    /\ TGoto(t, "run")
    /\ UNCHANGED <<sessionVars, handlerVars, tRevision>>

TaskAcquireLane(t) ==
    /\ tPc[t] = "lane" /\ lane = Free
    /\ lane' = t
    /\ TGoto(t, "run")
    /\ UNCHANGED <<sessionVars, handlerVars, tRevision>>

\* A slip for TaskRun: a task whose revision has passed ends on the spot.
TaskRunOrQuit(t) ==
    /\ tPc[t] = "run"
    /\ lane' = Free
    /\ TGoto(t, IF tRevision[t] = revision THEN "finish" ELSE "done")
    /\ UNCHANGED <<sessionVars, handlerVars, tRevision>>

\* run_source_root_read_prewarm_snapshot: a task whose revision has passed
\* skips the work; a failed worker is only logged.  All give up the lane.
TaskRun(t) ==
    /\ tPc[t] = "run"
    /\ lane' = Free
    /\ TGoto(t, "finish")
    /\ UNCHANGED <<sessionVars, handlerVars, tRevision>>

\* A slip for ClearsMarker: the marker is cleared only for a current revision.
ClearsMarkerIfCurrent(t) == pendingPrewarm = tRevision[t] /\ tRevision[t] = revision

\* finish_source_root_read_prewarm clears the marker that names its revision.
ClearsMarker(t) == pendingPrewarm = tRevision[t]

TaskFinish(t) ==
    /\ tPc[t] = "finish"
    /\ pendingPrewarm' = IF ClearsMarker(t) THEN NoRevision ELSE pendingPrewarm
    /\ TGoto(t, "notify")
    /\ UNCHANGED <<revision, notifyOwed, mutations, handlerVars, lane, tRevision>>

TaskNotify(t) ==
    /\ tPc[t] = "notify"
    /\ NotifyWaiters
    /\ TGoto(t, "done")
    /\ UNCHANGED <<sessionVars, hPc, hRevision, lane, tRevision>>

-----------------------------------------------------------------------------
(* wait_for_source_root_read_prewarm_if_pending.                             *)

\* From a spawn, or at once in a handler that only waits.
StartWait(h) ==
    /\ hPc[h] \in {"new", "spawned"}
    /\ HGoto(h, "register")
    /\ UNCHANGED <<sessionVars, hRevision, woken, taskVars>>

Register(h) ==
    /\ hPc[h] = "register"
    /\ woken' = [woken EXCEPT ![h] = FALSE]
    /\ HGoto(h, "revision")
    /\ UNCHANGED <<sessionVars, hRevision, taskVars>>

WaitReadRevision(h) ==
    /\ hPc[h] = "revision"
    /\ hRevision' = [hRevision EXCEPT ![h] = revision]
    /\ HGoto(h, "check")
    /\ UNCHANGED <<sessionVars, woken, taskVars>>

WaitCheck(h) ==
    /\ hPc[h] = "check"
    /\ HGoto(h, IF pendingPrewarm = hRevision[h] THEN "sleep" ELSE "done")
    /\ UNCHANGED <<sessionVars, hRevision, woken, taskVars>>

WaitWake(h) ==
    /\ hPc[h] = "sleep" /\ woken[h]
    /\ HGoto(h, "register")
    /\ UNCHANGED <<sessionVars, hRevision, woken, taskVars>>

-----------------------------------------------------------------------------
Init ==
    /\ revision = 0
    /\ pendingPrewarm = NoRevision
    /\ notifyOwed = FALSE
    /\ mutations = 0
    /\ lane = Free
    /\ hPc = [h \in Handlers |-> "new"]
    /\ hRevision = [h \in Handlers |-> 0]
    /\ woken = [h \in Handlers |-> FALSE]
    /\ tPc = [t \in Handlers |-> "none"]
    /\ tRevision = [t \in Handlers |-> 0]

HandlerStep(h) ==
    \/ SpawnSnapshot(h) \/ SpawnBegin(h)
    \/ hPc[h] = "spawned" /\ StartWait(h)
    \/ Register(h) \/ WaitReadRevision(h) \/ WaitCheck(h) \/ WaitWake(h)

TaskStep(t) == TaskAcquireLane(t) \/ TaskRun(t) \/ TaskFinish(t) \/ TaskNotify(t)

Next ==
    \/ ApplyChange \/ ChangeSourceRoots \/ ResetSession \/ NotifyAfterMutation
    \/ \E h \in Handlers : SpawnReadRevision(h) \/ StartWait(h) \/ HandlerStep(h)
    \/ \E t \in Handlers : TaskStep(t)

Spec == Init /\ [][Next]_vars

\* Tasks and handlers keep being polled; the lane is handed out in order.
FairSpec ==
    /\ Spec
    /\ \A h \in Handlers : WF_vars(HandlerStep(h))
    /\ \A t \in Handlers : SF_vars(TaskStep(t))

-----------------------------------------------------------------------------
\* A pending marker always has a task that will still clear it and wake the
\* waiters, also after resets, refused begins and overwritten markers: nobody
\* waits for a prewarm that is not running.
PendingHasTask ==
    pendingPrewarm # NoRevision =>
        \E t \in Handlers : tPc[t] \in Unfinished /\ tRevision[t] = pendingPrewarm

\* A sleeping handler has a wake-up ahead of it or behind it: its future has
\* fired, or a task it could be waiting for has not notified yet.
SleeperIsCovered ==
    \A h \in Handlers :
        hPc[h] = "sleep" =>
            woken[h] \/ \E t \in Handlers : tPc[t] \notin {"none", "done"} /\ tRevision[t] = hRevision[h]

\* Every wait ends (wait_for_source_root_read_prewarm_if_pending has no
\* timeout, so a lost wake-up would hang the handler for good).
WaitersReturn == \A h \in Handlers : hPc[h] = "register" ~> hPc[h] = "done"
=============================================================================
