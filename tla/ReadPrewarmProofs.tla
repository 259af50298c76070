-------------------------- MODULE ReadPrewarmProofs --------------------------
(***************************************************************************)
(* Proofs about ReadPrewarm, for any set of handlers.                        *)
(***************************************************************************)
EXTENDS ReadPrewarm, TLAPS

\* A handler spawns once: until its begin it has no task.
TaskFollowsBegin ==
    \A h \in Handlers : hPc[h] \in {"new", "snapshot", "begin"} => tPc[h] = "none"

\* The invariant: PendingHasTask is what makes SleeperIsCovered hold when a
\* handler decides to sleep.
PrewarmInv == TypeOK /\ TaskFollowsBegin /\ PendingHasTask /\ SleeperIsCovered

\* The initial state satisfies the invariant.
LEMMA InitPrewarmInv == Init => PrewarmInv
<1> SUFFICES ASSUME Init PROVE PrewarmInv
  OBVIOUS
<1> USE PrewarmAssumption DEF Init
<1>1. \A t \in Handlers : tPc[t] = "none" /\ hPc[t] = "new" /\ lane # t
  OBVIOUS
<1>2. TypeOK
  BY <1>1 DEF TypeOK, HandlerPc, TaskPc
<1>3. TaskFollowsBegin /\ SleeperIsCovered
  BY <1>1 DEF TaskFollowsBegin, SleeperIsCovered
<1>4. PendingHasTask
  BY DEF PendingHasTask
<1> QED
  BY <1>2, <1>3, <1>4 DEF PrewarmInv

\* Every step preserves the invariant, action by action.
LEMMA StepPrewarmInv == PrewarmInv /\ [Next]_vars => PrewarmInv'
<1> SUFFICES ASSUME PrewarmInv, [Next]_vars PROVE PrewarmInv'
  OBVIOUS
<1> USE PrewarmAssumption DEF PrewarmInv, TypeOK, TaskFollowsBegin, PendingHasTask,
       SleeperIsCovered, HandlerPc, TaskPc, Unfinished, HGoto, TGoto, sessionVars,
       handlerVars, taskVars
<1>1. CASE ApplyChange
  BY <1>1 DEF ApplyChange, Mutate
<1>2. CASE ChangeSourceRoots
  BY <1>2 DEF ChangeSourceRoots, Mutate
<1>3. CASE ResetSession
  BY <1>3 DEF ResetSession, Mutate
<1>4. CASE NotifyAfterMutation
  BY <1>4 DEF NotifyAfterMutation, NotifyWaiters, Registered
<1>5. ASSUME NEW h \in Handlers, SpawnReadRevision(h) PROVE PrewarmInv'
  BY <1>5 DEF SpawnReadRevision
<1>6. ASSUME NEW h \in Handlers, SpawnSnapshot(h) PROVE PrewarmInv'
  BY <1>6 DEF SpawnSnapshot
<1>7. ASSUME NEW h \in Handlers, SpawnBegin(h) PROVE PrewarmInv'
  BY <1>7 DEF SpawnBegin
<1>8. ASSUME NEW t \in Handlers, TaskAcquireLane(t) PROVE PrewarmInv'
  BY <1>8 DEF TaskAcquireLane
<1>9. ASSUME NEW t \in Handlers, TaskRun(t) PROVE PrewarmInv'
  BY <1>9 DEF TaskRun
<1>10. ASSUME NEW t \in Handlers, TaskFinish(t) PROVE PrewarmInv'
  BY <1>10 DEF TaskFinish, ClearsMarker
<1>11. ASSUME NEW t \in Handlers, TaskNotify(t) PROVE PrewarmInv'
  BY <1>11 DEF TaskNotify, NotifyWaiters, Registered
<1>12. ASSUME NEW h \in Handlers, StartWait(h) PROVE PrewarmInv'
  BY <1>12 DEF StartWait
<1>13. ASSUME NEW h \in Handlers, Register(h) PROVE PrewarmInv'
  BY <1>13 DEF Register
<1>14. ASSUME NEW h \in Handlers, WaitReadRevision(h) PROVE PrewarmInv'
  BY <1>14 DEF WaitReadRevision
<1>15. ASSUME NEW h \in Handlers, WaitCheck(h) PROVE PrewarmInv'
  BY <1>15 DEF WaitCheck
<1>16. ASSUME NEW h \in Handlers, WaitWake(h) PROVE PrewarmInv'
  BY <1>16 DEF WaitWake
<1>17. CASE UNCHANGED vars
  BY <1>17 DEF vars
<1> QED
  BY <1>1, <1>2, <1>3, <1>4, <1>5, <1>6, <1>7, <1>8, <1>9, <1>10, <1>11, <1>12,
     <1>13, <1>14, <1>15, <1>16, <1>17 DEF Next, HandlerStep, TaskStep

\* Every behaviour keeps the invariant.
THEOREM PrewarmInvariance == Spec => []PrewarmInv
BY InitPrewarmInv, StepPrewarmInv, PTL DEF Spec

\* A pending marker always has a task that will clear it
\* (begin_source_root_read_prewarm and finish_source_root_read_prewarm).
THEOREM PendingHasTaskAlways == Spec => []PendingHasTask
BY PrewarmInvariance, PTL DEF PrewarmInv

\* No wake-up is lost: a handler asleep in
\* wait_for_source_root_read_prewarm_if_pending has been woken or will be.
THEOREM SleeperIsCoveredAlways == Spec => []SleeperIsCovered
BY PrewarmInvariance, PTL DEF PrewarmInv

\* Every reachable state of the prewarm is well typed: a pending marker names a
\* revision, and a task goes only through its own steps.
THEOREM PrewarmTypeCorrect == Spec => []TypeOK
BY PrewarmInvariance, PTL DEF PrewarmInv
=============================================================================
