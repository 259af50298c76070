----------------------- MODULE SourceRootLoadingProofs -----------------------
(***************************************************************************)
(* Proofs about SourceRootLoading, for any sets of roots and of jobs.        *)
(***************************************************************************)
EXTENDS SourceRootLoading, TLAPS

\* What the epochs a job or a reservation remembers have to do with the
\* session's: they are never ahead of it, and a parse that is ready to be
\* applied read the disk no earlier than its job's epoch.
EpochsOrdered ==
    /\ \A j \in Jobs : epoch[j] <= stateEpoch
    /\ \A p \in PathKeys : loadingPathKeys[p] # NoOwner => loadingPathKeys[p] <= stateEpoch
    /\ \A j \in Jobs : pc[j] = "apply" => epoch[j] <= parsedAt[j] /\ parsedAt[j] <= stateEpoch

\* A job past its reservation or past the choice of a dirty root has a root.
WorksOnRoot ==
    \A j \in Jobs :
        pc[j] \in InFlight \union {"refresh", "rlane", "rparse", "rapply"} => path[j] \in PathKeys

\* ReservationHeld and SingleFlight keep each other up: a cancellation could
\* only take a current reservation from a job with the same root and epoch.
LoadingInv ==
    /\ TypeOK
    /\ EpochsOrdered
    /\ WorksOnRoot
    /\ ReservationHeld
    /\ SingleFlight
    /\ LoadedHasDocuments

-----------------------------------------------------------------------------
\* Cancelling yields a well-formed reservation map that differs from the old
\* one at most at the cancelled root, where it may lose its owner.
LEMMA CancelledType ==
    ASSUME TypeOK, NEW p \in PathKeys, NEW e \in Nat
    PROVE  /\ Cancelled(p, e) \in [PathKeys -> Nat \union {NoOwner}]
           /\ \A q \in PathKeys :
                  \/ Cancelled(p, e)[q] = loadingPathKeys[q]
                  \/ q = p /\ loadingPathKeys[q] = e /\ Cancelled(p, e)[q] = NoOwner
BY DEF TypeOK, Cancelled

\* The initial state satisfies the invariant.
LEMMA InitLoadingInv == Init => LoadingInv
BY LoadingAssumption
   DEF Init, LoadingInv, TypeOK, EpochsOrdered, WorksOnRoot, ReservationHeld,
       SingleFlight, LoadedHasDocuments, InFlight, LoaderPc

\* Every step keeps the variables in their types.
LEMMA TypeStep == LoadingInv /\ [Next]_vars => TypeOK'
<1> SUFFICES ASSUME LoadingInv, [Next]_vars PROVE TypeOK'
  OBVIOUS
<1> USE LoadingAssumption DEF LoadingInv, TypeOK, WorksOnRoot, InFlight, LoaderPc, RebuildPc, ReloadPc, Goto, Return,
       GraphChanged, session, jobVars
<1>1. ASSUME NEW j \in Jobs, ReadPaths(j) PROVE TypeOK'
  BY <1>1 DEF ReadPaths
<1>2. ASSUME NEW j \in Jobs, PlanLoads(j) PROVE TypeOK'
  BY <1>2 DEF PlanLoads
<1>3. ASSUME NEW j \in Jobs, NEW p \in PathKeys, Reserve(j, p) PROVE TypeOK'
  BY <1>3 DEF Reserve
<1>4. ASSUME NEW j \in Jobs, FinishPlan(j) PROVE TypeOK'
  BY <1>4 DEF FinishPlan
<1>5. ASSUME NEW j \in Jobs, AcquireLane(j) PROVE TypeOK'
  BY <1>5 DEF AcquireLane
<1>6. ASSUME NEW j \in Jobs, ParseOk(j) PROVE TypeOK'
  BY <1>6 DEF ParseOk, ReleaseLane
<1>7. ASSUME NEW j \in Jobs, ParseErr(j) PROVE TypeOK'
  BY <1>7 DEF ParseErr, ReleaseLane
<1>8. ASSUME NEW j \in Jobs, LoadFailure(j) PROVE TypeOK'
  BY <1>8, CancelledType DEF LoadFailure
<1>9. ASSUME NEW j \in Jobs, Apply(j) PROVE TypeOK'
  BY <1>9, CancelledType DEF Apply
<1>10. ASSUME NEW j \in Jobs, ApplyStale(j) PROVE TypeOK'
  BY <1>10, CancelledType DEF ApplyStale
<1>11. ASSUME NEW j \in Jobs, RefreshEpoch(j) PROVE TypeOK'
  BY <1>11 DEF RefreshEpoch
<1>12. ASSUME NEW j \in Jobs, NEW p \in PathKeys, RefreshLive(j, p) PROVE TypeOK'
  BY <1>12 DEF RefreshLive
<1>13. ASSUME NEW j \in Jobs, RebuildApply(j) PROVE TypeOK'
  BY <1>13 DEF RebuildApply
<1>14. ASSUME NEW j \in Jobs, NEW next \in SUBSET PathKeys, ReloadStore(j, next) PROVE TypeOK'
  BY <1>14 DEF ReloadStore
<1>15. ASSUME NEW j \in Jobs, ResetToOpenDocuments(j) PROVE TypeOK'
  BY <1>15 DEF ResetToOpenDocuments, RebuiltSession
<1>16. ASSUME NEW j \in Jobs, StartRebuild(j) PROVE TypeOK'
  BY <1>16 DEF StartRebuild
<1>17. ASSUME NEW j \in Jobs, ReloadPrevious(j) PROVE TypeOK'
  BY <1>17 DEF ReloadPrevious
<1>18. ASSUME NEW j \in Jobs, CancelRequest(j) PROVE TypeOK'
  BY <1>18 DEF CancelRequest
<1>19. ASSUME NEW p \in PathKeys, EditRootDocument(p) PROVE TypeOK'
  BY <1>19 DEF EditRootDocument
<1>20. CASE UNCHANGED vars
  BY <1>20 DEF vars
<1> QED
  BY <1>1, <1>2, <1>3, <1>4, <1>5, <1>6, <1>7, <1>8, <1>9, <1>10, <1>11, <1>12,
     <1>13, <1>14, <1>15, <1>16, <1>17, <1>18, <1>19, <1>20 DEF Next, JobStep

\* No step puts a remembered epoch ahead of the session's.
LEMMA EpochStep == LoadingInv /\ [Next]_vars => EpochsOrdered'
<1> SUFFICES ASSUME LoadingInv, [Next]_vars PROVE EpochsOrdered'
  OBVIOUS
<1> USE LoadingAssumption DEF LoadingInv, TypeOK, Goto, Return, session, jobVars, EpochsOrdered, WorksOnRoot, InFlight
<1>1. ASSUME NEW j \in Jobs, ReadPaths(j) PROVE EpochsOrdered'
  BY <1>1 DEF ReadPaths
<1>2. ASSUME NEW j \in Jobs, PlanLoads(j) PROVE EpochsOrdered'
  BY <1>2 DEF PlanLoads
<1>3. ASSUME NEW j \in Jobs, NEW p \in PathKeys, Reserve(j, p) PROVE EpochsOrdered'
  BY <1>3 DEF Reserve, CanReserve
<1>4. ASSUME NEW j \in Jobs, FinishPlan(j) PROVE EpochsOrdered'
  BY <1>4 DEF FinishPlan
<1>5. ASSUME NEW j \in Jobs, AcquireLane(j) PROVE EpochsOrdered'
  BY <1>5 DEF AcquireLane
<1>6. ASSUME NEW j \in Jobs, ParseOk(j) PROVE EpochsOrdered'
  BY <1>6 DEF ParseOk, ReleaseLane
<1>7. ASSUME NEW j \in Jobs, ParseErr(j) PROVE EpochsOrdered'
  BY <1>7 DEF ParseErr, ReleaseLane
<1>8. ASSUME NEW j \in Jobs, LoadFailure(j) PROVE EpochsOrdered'
  BY <1>8, CancelledType DEF LoadFailure
<1>9. ASSUME NEW j \in Jobs, Apply(j) PROVE EpochsOrdered'
  BY <1>9, CancelledType DEF Apply, GraphChanged
<1>10. ASSUME NEW j \in Jobs, ApplyStale(j) PROVE EpochsOrdered'
  BY <1>10, CancelledType DEF ApplyStale
<1>11. ASSUME NEW j \in Jobs, RefreshEpoch(j) PROVE EpochsOrdered'
  BY <1>11 DEF RefreshEpoch
<1>12. ASSUME NEW j \in Jobs, NEW p \in PathKeys, RefreshLive(j, p) PROVE EpochsOrdered'
  BY <1>12 DEF RefreshLive, GraphChanged
<1>13. ASSUME NEW j \in Jobs, RebuildApply(j) PROVE EpochsOrdered'
  BY <1>13 DEF RebuildApply, GraphChanged
<1>14. ASSUME NEW j \in Jobs, NEW next \in SUBSET PathKeys, ReloadStore(j, next) PROVE EpochsOrdered'
  BY <1>14 DEF ReloadStore
<1>15. ASSUME NEW j \in Jobs, ResetToOpenDocuments(j) PROVE EpochsOrdered'
  BY <1>15 DEF ResetToOpenDocuments, GraphChanged, RebuiltSession
<1>16. ASSUME NEW j \in Jobs, StartRebuild(j) PROVE EpochsOrdered'
  BY <1>16 DEF StartRebuild
<1>17. ASSUME NEW j \in Jobs, ReloadPrevious(j) PROVE EpochsOrdered'
  BY <1>17 DEF ReloadPrevious
<1>18. ASSUME NEW j \in Jobs, CancelRequest(j) PROVE EpochsOrdered'
  BY <1>18 DEF CancelRequest
<1>19. ASSUME NEW p \in PathKeys, EditRootDocument(p) PROVE EpochsOrdered'
  BY <1>19 DEF EditRootDocument
<1>20. CASE UNCHANGED vars
  BY <1>20 DEF vars
<1> QED
  BY <1>1, <1>2, <1>3, <1>4, <1>5, <1>6, <1>7, <1>8, <1>9, <1>10, <1>11, <1>12,
     <1>13, <1>14, <1>15, <1>16, <1>17, <1>18, <1>19, <1>20 DEF Next, JobStep

\* A job keeps the root it works on until it is done with it.
LEMMA RootStep == LoadingInv /\ [Next]_vars => WorksOnRoot'
<1> SUFFICES ASSUME LoadingInv, [Next]_vars PROVE WorksOnRoot'
  OBVIOUS
<1> USE LoadingAssumption DEF LoadingInv, TypeOK, Goto, Return, session, jobVars, WorksOnRoot, InFlight, LoaderPc,
   RebuildPc
<1>1. ASSUME NEW j \in Jobs, ReadPaths(j) PROVE WorksOnRoot'
  BY <1>1 DEF ReadPaths
<1>2. ASSUME NEW j \in Jobs, PlanLoads(j) PROVE WorksOnRoot'
  BY <1>2 DEF PlanLoads
<1>3. ASSUME NEW j \in Jobs, NEW p \in PathKeys, Reserve(j, p) PROVE WorksOnRoot'
  BY <1>3 DEF Reserve, CanReserve
<1>4. ASSUME NEW j \in Jobs, FinishPlan(j) PROVE WorksOnRoot'
  BY <1>4 DEF FinishPlan
<1>5. ASSUME NEW j \in Jobs, AcquireLane(j) PROVE WorksOnRoot'
  BY <1>5 DEF AcquireLane
<1>6. ASSUME NEW j \in Jobs, ParseOk(j) PROVE WorksOnRoot'
  BY <1>6 DEF ParseOk, ReleaseLane
<1>7. ASSUME NEW j \in Jobs, ParseErr(j) PROVE WorksOnRoot'
  BY <1>7 DEF ParseErr, ReleaseLane
<1>8. ASSUME NEW j \in Jobs, LoadFailure(j) PROVE WorksOnRoot'
  BY <1>8, CancelledType DEF LoadFailure
<1>9. ASSUME NEW j \in Jobs, Apply(j) PROVE WorksOnRoot'
  BY <1>9, CancelledType DEF Apply, GraphChanged
<1>10. ASSUME NEW j \in Jobs, ApplyStale(j) PROVE WorksOnRoot'
  BY <1>10, CancelledType DEF ApplyStale
<1>11. ASSUME NEW j \in Jobs, RefreshEpoch(j) PROVE WorksOnRoot'
  BY <1>11 DEF RefreshEpoch
<1>12. ASSUME NEW j \in Jobs, NEW p \in PathKeys, RefreshLive(j, p) PROVE WorksOnRoot'
  BY <1>12 DEF RefreshLive, GraphChanged
<1>13. ASSUME NEW j \in Jobs, RebuildApply(j) PROVE WorksOnRoot'
  BY <1>13 DEF RebuildApply, GraphChanged
<1>14. ASSUME NEW j \in Jobs, NEW next \in SUBSET PathKeys, ReloadStore(j, next) PROVE WorksOnRoot'
  BY <1>14 DEF ReloadStore
<1>15. ASSUME NEW j \in Jobs, ResetToOpenDocuments(j) PROVE WorksOnRoot'
  BY <1>15 DEF ResetToOpenDocuments, GraphChanged, RebuiltSession
<1>16. ASSUME NEW j \in Jobs, StartRebuild(j) PROVE WorksOnRoot'
  BY <1>16 DEF StartRebuild
<1>17. ASSUME NEW j \in Jobs, ReloadPrevious(j) PROVE WorksOnRoot'
  BY <1>17 DEF ReloadPrevious
<1>18. ASSUME NEW j \in Jobs, CancelRequest(j) PROVE WorksOnRoot'
  BY <1>18 DEF CancelRequest
<1>19. ASSUME NEW p \in PathKeys, EditRootDocument(p) PROVE WorksOnRoot'
  BY <1>19 DEF EditRootDocument
<1>20. CASE UNCHANGED vars
  BY <1>20 DEF vars
<1> QED
  BY <1>1, <1>2, <1>3, <1>4, <1>5, <1>6, <1>7, <1>8, <1>9, <1>10, <1>11, <1>12,
     <1>13, <1>14, <1>15, <1>16, <1>17, <1>18, <1>19, <1>20 DEF Next, JobStep

\* Loaded keys and their documents come and go together.
LEMMA DocumentsStep == LoadingInv /\ [Next]_vars => LoadedHasDocuments'
<1> SUFFICES ASSUME LoadingInv, [Next]_vars PROVE LoadedHasDocuments'
  OBVIOUS
<1> USE LoadingAssumption DEF LoadingInv, TypeOK, Goto, Return, session, jobVars, LoadedHasDocuments, WorksOnRoot,
   InFlight
<1>1. ASSUME NEW j \in Jobs, ReadPaths(j) PROVE LoadedHasDocuments'
  BY <1>1 DEF ReadPaths
<1>2. ASSUME NEW j \in Jobs, PlanLoads(j) PROVE LoadedHasDocuments'
  BY <1>2 DEF PlanLoads
<1>3. ASSUME NEW j \in Jobs, NEW p \in PathKeys, Reserve(j, p) PROVE LoadedHasDocuments'
  BY <1>3 DEF Reserve, CanReserve
<1>4. ASSUME NEW j \in Jobs, FinishPlan(j) PROVE LoadedHasDocuments'
  BY <1>4 DEF FinishPlan
<1>5. ASSUME NEW j \in Jobs, AcquireLane(j) PROVE LoadedHasDocuments'
  BY <1>5 DEF AcquireLane
<1>6. ASSUME NEW j \in Jobs, ParseOk(j) PROVE LoadedHasDocuments'
  BY <1>6 DEF ParseOk, ReleaseLane
<1>7. ASSUME NEW j \in Jobs, ParseErr(j) PROVE LoadedHasDocuments'
  BY <1>7 DEF ParseErr, ReleaseLane
<1>8. ASSUME NEW j \in Jobs, LoadFailure(j) PROVE LoadedHasDocuments'
  BY <1>8, CancelledType DEF LoadFailure
<1>9. ASSUME NEW j \in Jobs, Apply(j) PROVE LoadedHasDocuments'
  BY <1>9, CancelledType DEF Apply, GraphChanged
<1>10. ASSUME NEW j \in Jobs, ApplyStale(j) PROVE LoadedHasDocuments'
  BY <1>10, CancelledType DEF ApplyStale
<1>11. ASSUME NEW j \in Jobs, RefreshEpoch(j) PROVE LoadedHasDocuments'
  BY <1>11 DEF RefreshEpoch
<1>12. ASSUME NEW j \in Jobs, NEW p \in PathKeys, RefreshLive(j, p) PROVE LoadedHasDocuments'
  BY <1>12 DEF RefreshLive, GraphChanged
<1>13. ASSUME NEW j \in Jobs, RebuildApply(j) PROVE LoadedHasDocuments'
  BY <1>13 DEF RebuildApply, GraphChanged
<1>14. ASSUME NEW j \in Jobs, NEW next \in SUBSET PathKeys, ReloadStore(j, next) PROVE LoadedHasDocuments'
  BY <1>14 DEF ReloadStore
<1>15. ASSUME NEW j \in Jobs, ResetToOpenDocuments(j) PROVE LoadedHasDocuments'
  BY <1>15 DEF ResetToOpenDocuments, GraphChanged, RebuiltSession
<1>16. ASSUME NEW j \in Jobs, StartRebuild(j) PROVE LoadedHasDocuments'
  BY <1>16 DEF StartRebuild
<1>17. ASSUME NEW j \in Jobs, ReloadPrevious(j) PROVE LoadedHasDocuments'
  BY <1>17 DEF ReloadPrevious
<1>18. ASSUME NEW j \in Jobs, CancelRequest(j) PROVE LoadedHasDocuments'
  BY <1>18 DEF CancelRequest
<1>19. ASSUME NEW p \in PathKeys, EditRootDocument(p) PROVE LoadedHasDocuments'
  BY <1>19 DEF EditRootDocument
<1>20. CASE UNCHANGED vars
  BY <1>20 DEF vars
<1> QED
  BY <1>1, <1>2, <1>3, <1>4, <1>5, <1>6, <1>7, <1>8, <1>9, <1>10, <1>11, <1>12,
     <1>13, <1>14, <1>15, <1>16, <1>17, <1>18, <1>19, <1>20 DEF Next, JobStep

\* No step takes a current reservation from a job in flight.
LEMMA HeldStep == LoadingInv /\ [Next]_vars => ReservationHeld'
<1> SUFFICES ASSUME LoadingInv, [Next]_vars PROVE ReservationHeld'
  OBVIOUS
<1> USE LoadingAssumption DEF LoadingInv, TypeOK, Goto, Return, session, jobVars, ReservationHeld, SingleFlight,
   EpochsOrdered, WorksOnRoot, InFlight, LoaderPc, RebuildPc
<1>1. ASSUME NEW j \in Jobs, ReadPaths(j) PROVE ReservationHeld'
  BY <1>1 DEF ReadPaths
<1>2. ASSUME NEW j \in Jobs, PlanLoads(j) PROVE ReservationHeld'
  BY <1>2 DEF PlanLoads
<1>3. ASSUME NEW j \in Jobs, NEW p \in PathKeys, Reserve(j, p) PROVE ReservationHeld'
  BY <1>3 DEF Reserve, CanReserve
<1>4. ASSUME NEW j \in Jobs, FinishPlan(j) PROVE ReservationHeld'
  BY <1>4 DEF FinishPlan
<1>5. ASSUME NEW j \in Jobs, AcquireLane(j) PROVE ReservationHeld'
  BY <1>5 DEF AcquireLane
<1>6. ASSUME NEW j \in Jobs, ParseOk(j) PROVE ReservationHeld'
  BY <1>6 DEF ParseOk, ReleaseLane
<1>7. ASSUME NEW j \in Jobs, ParseErr(j) PROVE ReservationHeld'
  BY <1>7 DEF ParseErr, ReleaseLane
<1>8. ASSUME NEW j \in Jobs, LoadFailure(j) PROVE ReservationHeld'
  BY <1>8, CancelledType DEF LoadFailure
<1>9. ASSUME NEW j \in Jobs, Apply(j) PROVE ReservationHeld'
  BY <1>9, CancelledType DEF Apply, GraphChanged
<1>10. ASSUME NEW j \in Jobs, ApplyStale(j) PROVE ReservationHeld'
  BY <1>10, CancelledType DEF ApplyStale
<1>11. ASSUME NEW j \in Jobs, RefreshEpoch(j) PROVE ReservationHeld'
  BY <1>11 DEF RefreshEpoch
<1>12. ASSUME NEW j \in Jobs, NEW p \in PathKeys, RefreshLive(j, p) PROVE ReservationHeld'
  BY <1>12 DEF RefreshLive, GraphChanged
<1>13. ASSUME NEW j \in Jobs, RebuildApply(j) PROVE ReservationHeld'
  BY <1>13 DEF RebuildApply, GraphChanged
<1>14. ASSUME NEW j \in Jobs, NEW next \in SUBSET PathKeys, ReloadStore(j, next) PROVE ReservationHeld'
  BY <1>14 DEF ReloadStore
<1>15. ASSUME NEW j \in Jobs, ResetToOpenDocuments(j) PROVE ReservationHeld'
  BY <1>15 DEF ResetToOpenDocuments, GraphChanged, RebuiltSession
<1>16. ASSUME NEW j \in Jobs, StartRebuild(j) PROVE ReservationHeld'
  BY <1>16 DEF StartRebuild
<1>17. ASSUME NEW j \in Jobs, ReloadPrevious(j) PROVE ReservationHeld'
  BY <1>17 DEF ReloadPrevious
<1>18. ASSUME NEW j \in Jobs, CancelRequest(j) PROVE ReservationHeld'
  BY <1>18 DEF CancelRequest
<1>19. ASSUME NEW p \in PathKeys, EditRootDocument(p) PROVE ReservationHeld'
  BY <1>19 DEF EditRootDocument
<1>20. CASE UNCHANGED vars
  BY <1>20 DEF vars
<1> QED
  BY <1>1, <1>2, <1>3, <1>4, <1>5, <1>6, <1>7, <1>8, <1>9, <1>10, <1>11, <1>12,
     <1>13, <1>14, <1>15, <1>16, <1>17, <1>18, <1>19, <1>20 DEF Next, JobStep

\* A second reservation for the same root and epoch is refused.
LEMMA SingleStep == LoadingInv /\ [Next]_vars => SingleFlight'
<1> SUFFICES ASSUME LoadingInv, [Next]_vars PROVE SingleFlight'
  OBVIOUS
<1> USE LoadingAssumption DEF LoadingInv, TypeOK, Goto, Return, session, jobVars, ReservationHeld, SingleFlight,
   WorksOnRoot, InFlight, LoaderPc, RebuildPc
<1>1. ASSUME NEW j \in Jobs, ReadPaths(j) PROVE SingleFlight'
  BY <1>1 DEF ReadPaths
<1>2. ASSUME NEW j \in Jobs, PlanLoads(j) PROVE SingleFlight'
  BY <1>2 DEF PlanLoads
<1>3. ASSUME NEW j \in Jobs, NEW p \in PathKeys, Reserve(j, p) PROVE SingleFlight'
  BY <1>3 DEF Reserve, CanReserve
<1>4. ASSUME NEW j \in Jobs, FinishPlan(j) PROVE SingleFlight'
  BY <1>4 DEF FinishPlan
<1>5. ASSUME NEW j \in Jobs, AcquireLane(j) PROVE SingleFlight'
  BY <1>5 DEF AcquireLane
<1>6. ASSUME NEW j \in Jobs, ParseOk(j) PROVE SingleFlight'
  BY <1>6 DEF ParseOk, ReleaseLane
<1>7. ASSUME NEW j \in Jobs, ParseErr(j) PROVE SingleFlight'
  BY <1>7 DEF ParseErr, ReleaseLane
<1>8. ASSUME NEW j \in Jobs, LoadFailure(j) PROVE SingleFlight'
  BY <1>8, CancelledType DEF LoadFailure
<1>9. ASSUME NEW j \in Jobs, Apply(j) PROVE SingleFlight'
  BY <1>9, CancelledType DEF Apply, GraphChanged
<1>10. ASSUME NEW j \in Jobs, ApplyStale(j) PROVE SingleFlight'
  BY <1>10, CancelledType DEF ApplyStale
<1>11. ASSUME NEW j \in Jobs, RefreshEpoch(j) PROVE SingleFlight'
  BY <1>11 DEF RefreshEpoch
<1>12. ASSUME NEW j \in Jobs, NEW p \in PathKeys, RefreshLive(j, p) PROVE SingleFlight'
  BY <1>12 DEF RefreshLive, GraphChanged
<1>13. ASSUME NEW j \in Jobs, RebuildApply(j) PROVE SingleFlight'
  BY <1>13 DEF RebuildApply, GraphChanged
<1>14. ASSUME NEW j \in Jobs, NEW next \in SUBSET PathKeys, ReloadStore(j, next) PROVE SingleFlight'
  BY <1>14 DEF ReloadStore
<1>15. ASSUME NEW j \in Jobs, ResetToOpenDocuments(j) PROVE SingleFlight'
  BY <1>15 DEF ResetToOpenDocuments, GraphChanged, RebuiltSession
<1>16. ASSUME NEW j \in Jobs, StartRebuild(j) PROVE SingleFlight'
  BY <1>16 DEF StartRebuild
<1>17. ASSUME NEW j \in Jobs, ReloadPrevious(j) PROVE SingleFlight'
  BY <1>17 DEF ReloadPrevious
<1>18. ASSUME NEW j \in Jobs, CancelRequest(j) PROVE SingleFlight'
  BY <1>18 DEF CancelRequest
<1>19. ASSUME NEW p \in PathKeys, EditRootDocument(p) PROVE SingleFlight'
  BY <1>19 DEF EditRootDocument
<1>20. CASE UNCHANGED vars
  BY <1>20 DEF vars
<1> QED
  BY <1>1, <1>2, <1>3, <1>4, <1>5, <1>6, <1>7, <1>8, <1>9, <1>10, <1>11, <1>12,
     <1>13, <1>14, <1>15, <1>16, <1>17, <1>18, <1>19, <1>20 DEF Next, JobStep

\* Every behaviour keeps the invariant.
THEOREM LoadingInvariance == Spec => []LoadingInv
<1>1. LoadingInv /\ [Next]_vars => LoadingInv'
  BY TypeStep, EpochStep, RootStep, DocumentsStep, HeldStep, SingleStep DEF LoadingInv
<1> QED
  BY <1>1, InitLoadingInv, PTL DEF Spec

\* A job that loads a root at the current epoch holds its reservation: the
\* reservation protocol of reserve_source_root_load, cancel_source_root_load
\* and apply_parsed_source_root_if_current.
THEOREM ReservationHeldAlways == Spec => []ReservationHeld
BY LoadingInvariance, PTL DEF LoadingInv

\* No two jobs load the same root for the same epoch.
THEOREM SingleFlightAlways == Spec => []SingleFlight
BY LoadingInvariance, PTL DEF LoadingInv

-----------------------------------------------------------------------------
\* A step that records a root as loaded is an Apply.
LEMMA LoadedGrows ==
    ASSUME Next, NEW q \in loadedPathKeys' \ loadedPathKeys
    PROVE  \E j \in Jobs : Apply(j) /\ path[j] = q
<1> USE DEF session, jobVars
<1>1. ASSUME NEW j \in Jobs, Apply(j) PROVE path[j] = q
  BY <1>1 DEF Apply
<1>2. ASSUME NEW j \in Jobs, ResetToOpenDocuments(j) PROVE FALSE
  BY <1>2 DEF ResetToOpenDocuments, RebuiltSession
<1>3. ASSUME NEW j \in Jobs, JobStep(j), ~Apply(j), ~ResetToOpenDocuments(j)
      PROVE  loadedPathKeys' = loadedPathKeys
  BY <1>3 DEF JobStep, PlanLoads, Reserve, FinishPlan, AcquireLane, ParseOk, ParseErr, LoadFailure,
       ApplyStale, RefreshEpoch, RefreshLive, RebuildApply, ReloadStore
<1>4. ASSUME NEW j \in Jobs, ReadPaths(j) \/ StartRebuild(j) \/ ReloadPrevious(j) \/ CancelRequest(j)
      PROVE  loadedPathKeys' = loadedPathKeys
  BY <1>4 DEF ReadPaths, StartRebuild, ReloadPrevious, CancelRequest
<1>5. ASSUME NEW p \in PathKeys, EditRootDocument(p) PROVE loadedPathKeys' = loadedPathKeys
  BY <1>5 DEF EditRootDocument
<1> QED
  BY <1>1, <1>2, <1>3, <1>4, <1>5 DEF Next

\* Only a parse made at the current epoch is installed.
THEOREM InstalledParseIsCurrentAlways == Spec => InstalledParseIsCurrent
<1> DEFINE A == \A p \in loadedPathKeys' \ loadedPathKeys :
                    \E j \in Jobs : path[j] = p /\ pc[j] = "apply" /\ parsedAt[j] = stateEpoch
<1>1. LoadingInv /\ [Next]_vars => [A]_vars
  <2> SUFFICES ASSUME LoadingInv, Next, NEW q \in loadedPathKeys' \ loadedPathKeys
               PROVE  \E j \in Jobs : path[j] = q /\ pc[j] = "apply" /\ parsedAt[j] = stateEpoch
    OBVIOUS
  <2>1. PICK j \in Jobs : Apply(j) /\ path[j] = q
    BY LoadedGrows
  <2>2. parsedAt[j] = stateEpoch
    BY <2>1 DEF Apply, IsCurrent, LoadingInv, TypeOK, EpochsOrdered
  <2> QED
    BY <2>1, <2>2 DEF Apply
<1> QED
  BY <1>1, LoadingInvariance, PTL DEF Spec, InstalledParseIsCurrent

\* Every root recorded as loaded has its documents.
THEOREM LoadedHasDocumentsAlways == Spec => []LoadedHasDocuments
BY LoadingInvariance, PTL DEF LoadingInv

-----------------------------------------------------------------------------
\* Only the end of a load and a reset remove a reservation, and the end of a
\* load removes only one of its own root and epoch.
LEMMA ReservationRemoved ==
    ASSUME LoadingInv, Next, NEW p \in PathKeys,
           loadingPathKeys[p] # NoOwner, loadingPathKeys'[p] # loadingPathKeys[p]
    PROVE  \/ \E j \in Jobs : /\ LoadFailure(j) \/ Apply(j) \/ ApplyStale(j)
                              /\ path[j] = p /\ epoch[j] = loadingPathKeys[p]
           \/ \E j \in Jobs : ResetToOpenDocuments(j)
<1> USE DEF session, jobVars
<1>1. ASSUME NEW j \in Jobs, LoadFailure(j) \/ Apply(j) \/ ApplyStale(j)
      PROVE  path[j] = p /\ epoch[j] = loadingPathKeys[p]
  <2>1. path[j] \in PathKeys /\ epoch[j] \in Nat
    BY <1>1 DEF LoadingInv, TypeOK, WorksOnRoot, InFlight, LoadFailure, Apply, ApplyStale
  <2>2. loadingPathKeys' = Cancelled(path[j], epoch[j])
    BY <1>1 DEF LoadFailure, Apply, ApplyStale
  <2> QED
    BY <2>1, <2>2, CancelledType DEF LoadingInv
<1>2. ASSUME NEW j \in Jobs, NEW q \in PathKeys, Reserve(j, q) PROVE FALSE
  BY <1>2 DEF Reserve, CanReserve, LoadingInv, TypeOK
<1>3. ASSUME NEW j \in Jobs, JobStep(j), \A q \in PathKeys : ~Reserve(j, q),
             ~(LoadFailure(j) \/ Apply(j) \/ ApplyStale(j)), ~ResetToOpenDocuments(j)
      PROVE  FALSE
  BY <1>3 DEF JobStep, PlanLoads, FinishPlan, AcquireLane, ParseOk, ParseErr,
       RefreshEpoch, RefreshLive, RebuildApply, ReloadStore
<1>4. ASSUME NEW j \in Jobs, ReadPaths(j) \/ StartRebuild(j) \/ ReloadPrevious(j) \/ CancelRequest(j)
      PROVE  FALSE
  BY <1>4 DEF ReadPaths, StartRebuild, ReloadPrevious, CancelRequest
<1>5. ASSUME NEW q \in PathKeys, EditRootDocument(q) PROVE FALSE
  BY <1>5 DEF EditRootDocument
<1> QED
  BY <1>1, <1>2, <1>3, <1>4, <1>5 DEF Next

\* A reservation of the current epoch ends only by its owner or by a reset:
\* no late cancellation or apply of another job releases it.
THEOREM ReservationEndsByOwnerAlways == Spec => ReservationEndsByOwner
<1> DEFINE A == \A p \in PathKeys :
                    loadingPathKeys[p] = stateEpoch /\ loadingPathKeys'[p] # stateEpoch =>
                        \/ \E j \in Jobs : path[j] = p /\ epoch[j] = stateEpoch
                                           /\ pc[j] \in {"apply", "fail"} /\ pc'[j] \notin InFlight
                        \/ \E j \in Jobs : pc[j] = "reset" /\ pc'[j] = "plan"
<1>1. LoadingInv /\ [Next]_vars => [A]_vars
  <2> SUFFICES ASSUME LoadingInv, Next, NEW p \in PathKeys,
                      loadingPathKeys[p] = stateEpoch, loadingPathKeys'[p] # stateEpoch
               PROVE  \/ \E j \in Jobs : path[j] = p /\ epoch[j] = stateEpoch
                                         /\ pc[j] \in {"apply", "fail"} /\ pc'[j] \notin InFlight
                      \/ \E j \in Jobs : pc[j] = "reset" /\ pc'[j] = "plan"
    OBVIOUS
  <2>1. loadingPathKeys[p] # NoOwner
    BY LoadingAssumption DEF LoadingInv, TypeOK
  <2>2. ASSUME NEW j \in Jobs, LoadFailure(j) \/ Apply(j) \/ ApplyStale(j)
        PROVE  pc[j] \in {"apply", "fail"} /\ pc'[j] \notin InFlight
    BY <2>2 DEF LoadFailure, Apply, ApplyStale, Goto, InFlight, LoadingInv, TypeOK
  <2>3. ASSUME NEW j \in Jobs, ResetToOpenDocuments(j) PROVE pc[j] = "reset" /\ pc'[j] = "plan"
    BY <2>3 DEF ResetToOpenDocuments, Goto, LoadingInv, TypeOK
  <2> QED
    BY <2>1, <2>2, <2>3, ReservationRemoved
<1> QED
  BY <1>1, LoadingInvariance, PTL DEF Spec, ReservationEndsByOwner

-----------------------------------------------------------------------------
\* A job that has a reservation keeps it through every step but its end and
\* its cancellation.
LEMMA OwnerStays ==
    ASSUME LoadingInv, Next, NEW i \in Jobs, pc[i] \in InFlight,
           \A j \in Jobs : ~CancelRequest(j),
           ~(LoadFailure(i) \/ Apply(i) \/ ApplyStale(i))
    PROVE  pc'[i] \in InFlight /\ path'[i] = path[i] /\ epoch'[i] = epoch[i]
<1> USE DEF LoadingInv, TypeOK, Goto, Return, session, jobVars, InFlight
<1>1. ASSUME NEW j \in Jobs, LoadFailure(j) \/ Apply(j) \/ ApplyStale(j)
      PROVE  pc'[i] \in InFlight /\ path'[i] = path[i] /\ epoch'[i] = epoch[i]
  BY <1>1 DEF LoadFailure, Apply, ApplyStale
<1>2. ASSUME NEW j \in Jobs, PlanLoads(j) \/ FinishPlan(j) \/ AcquireLane(j) \/ ParseOk(j) \/ ParseErr(j)
                              \/ RefreshEpoch(j) \/ RebuildApply(j) \/ ResetToOpenDocuments(j)
      PROVE  pc'[i] \in InFlight /\ path'[i] = path[i] /\ epoch'[i] = epoch[i]
  BY <1>2 DEF PlanLoads, FinishPlan, AcquireLane, ParseOk, ParseErr, RefreshEpoch, RebuildApply,
       ResetToOpenDocuments
<1>3. ASSUME NEW j \in Jobs, NEW q \in PathKeys, Reserve(j, q) \/ RefreshLive(j, q)
      PROVE  pc'[i] \in InFlight /\ path'[i] = path[i] /\ epoch'[i] = epoch[i]
  BY <1>3 DEF Reserve, RefreshLive
<1>4. ASSUME NEW j \in Jobs, NEW next \in SUBSET PathKeys, ReloadStore(j, next)
      PROVE  pc'[i] \in InFlight /\ path'[i] = path[i] /\ epoch'[i] = epoch[i]
  BY <1>4 DEF ReloadStore
<1>5. ASSUME NEW j \in Jobs, ReadPaths(j) \/ StartRebuild(j) \/ ReloadPrevious(j)
      PROVE  pc'[i] \in InFlight /\ path'[i] = path[i] /\ epoch'[i] = epoch[i]
  BY <1>5 DEF ReadPaths, StartRebuild, ReloadPrevious
<1>6. ASSUME NEW q \in PathKeys, EditRootDocument(q)
      PROVE  pc'[i] \in InFlight /\ path'[i] = path[i] /\ epoch'[i] = epoch[i]
  BY <1>6 DEF EditRootDocument
<1> QED
  BY <1>1, <1>2, <1>3, <1>4, <1>5, <1>6 DEF Next, JobStep

\* A reservation is left behind by its job only when the client cancels the
\* request (load_source_root_if_current releases it on every other path).
THEOREM ReservationLeaksOnlyByCancelAlways == Spec => ReservationLeaksOnlyByCancel
<1> DEFINE A == \A p \in PathKeys :
                    HasOwner(p) /\ loadingPathKeys'[p] # NoOwner =>
                        HasOwner(p)' \/ \E j \in Jobs : CancelRequest(j)
<1>1. LoadingInv /\ [Next]_vars => [A]_vars
  <2> SUFFICES ASSUME LoadingInv, Next, NEW p \in PathKeys, HasOwner(p),
                      loadingPathKeys'[p] # NoOwner, \A j \in Jobs : ~CancelRequest(j)
               PROVE  HasOwner(p)'
    OBVIOUS
  <2>1. PICK i \in Jobs : pc[i] \in InFlight /\ path[i] = p /\ epoch[i] = loadingPathKeys[p]
    BY DEF HasOwner
  <2>2. loadingPathKeys[p] # NoOwner
    BY <2>1, LoadingAssumption DEF LoadingInv, TypeOK
  <2>3. loadingPathKeys'[p] = loadingPathKeys[p]
    <3>1. ASSUME NEW j \in Jobs, ResetToOpenDocuments(j) PROVE FALSE
      BY <3>1 DEF ResetToOpenDocuments, RebuiltSession
    <3>2. ASSUME NEW j \in Jobs, LoadFailure(j) \/ Apply(j) \/ ApplyStale(j),
                 path[j] = p, epoch[j] = loadingPathKeys[p]
          PROVE  FALSE
      BY <3>2 DEF LoadFailure, Apply, ApplyStale, Cancelled, LoadingInv, TypeOK
    <3> QED
      BY <2>2, <3>1, <3>2, ReservationRemoved
  <2>4. ~(LoadFailure(i) \/ Apply(i) \/ ApplyStale(i))
    BY <2>1, <2>2, <2>3 DEF LoadFailure, Apply, ApplyStale, Cancelled, LoadingInv, TypeOK
  <2>5. pc'[i] \in InFlight /\ path'[i] = path[i] /\ epoch'[i] = epoch[i]
    BY <2>1, <2>4, OwnerStays
  <2>6. \E j \in Jobs : pc'[j] \in InFlight /\ path'[j] = p /\ epoch'[j] = loadingPathKeys'[p]
    BY <2>1, <2>3, <2>5
  <2> QED
    BY <2>6 DEF HasOwner, InFlight
<1> QED
  BY <1>1, LoadingInvariance, PTL DEF Spec, ReservationLeaksOnlyByCancel

\* Every reachable state of the loading protocol is well typed, whichever jobs
\* plan, load, rebuild, reload or are cancelled.
THEOREM LoadingTypeCorrect == Spec => []TypeOK
BY LoadingInvariance, PTL DEF LoadingInv
=============================================================================
