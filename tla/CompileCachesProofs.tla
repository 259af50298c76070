------------------------- MODULE CompileCachesProofs -------------------------
(***************************************************************************)
(* Proofs about the caches of compiled models, for any number of requests   *)
(* and of handlers that change the session, and any capacity of the memo.   *)
(***************************************************************************)
EXTENDS CompileCaches, FiniteSetTheorems, FunctionTheorems, SequenceTheorems, TLAPS

\* Where a request of each kind can be.
Steps ==
    [simulate |-> {"token", "waitRevision", "waitEpoch", "waitGet", "waitRegister", "waitRecheck", "asleep", "waited",
                   "load", "loadClear", "refresh", "check", "lane", "rebuild", "live", "replace", "rebuildClear",
                   "sources", "base", "epoch", "lookup", "compile", "insert", "result", "answered", "done"},
     prepare |-> {"token", "load", "loadClear", "refresh", "check", "rebuild", "live", "replace", "rebuildClear",
                  "sources", "base", "recheck", "epoch", "lookup", "compile", "confirm", "insert", "answered",
                  "done"},
     hover |-> {"token", "precheck", "sources", "base", "epoch", "lookup", "lane", "check", "relookup", "compile",
                "insert", "result", "answered", "done"},
     config |-> {"waitRevision", "waitEpoch", "waitGet", "waitRegister", "waitRecheck", "asleep", "token",
                 "jobEpoch", "jobGet", "jobInsert", "done"}]

PcFitsKind == \A r \in Requests : pc[r] \in Steps[kind[r]]

\* Where a request can hold the strict lane.
LaneSteps ==
    [simulate |-> {"rebuild", "live", "replace", "rebuildClear", "sources", "base", "epoch", "lookup", "compile",
                   "insert", "result"},
     prepare |-> {}, hover |-> {"check", "relookup", "compile", "insert"}, config |-> {}]

LaneIsInUse == \A r \in Requests : lane = r => pc[r] \in LaneSteps[kind[r]]

CachesInv == TypeOK /\ PcFitsKind /\ LaneIsInUse

\* A request that waits has a job to wait for.
WaitersAwait ==
    \A r \in Requests : pc[r] \in {"waitRegister", "waitRecheck", "asleep"} => awaits[r] \in Requests

\* A queue and the entries it is for: no key is listed twice or has two entries.
Exact(order, cache) ==
    /\ {order[i] : i \in 1 .. Len(order)} = {e.key : e \in cache}
    /\ \A i, j \in 1 .. Len(order) : order[i] = order[j] => i = j
    /\ \A e, f \in cache : e.key = f.key => e = f

MemoIsExact == Len(hoverOrder) <= Capacity /\ Exact(hoverOrder, hoverCache)

\* What a simulation inserts is vouched for by nobody.
SimulationsAreNot == \A r \in Requests : kind[r] = "simulate" => ~vouched[r]

\* The models a vouched preparation can find: those in the cache and those it is
\* about to get, from preparations that have confirmed that their token is current.
OfferOf(r) == [key |-> KeyOf(r), roots |-> used[r], vouched |-> TRUE]

Offered ==
    {e \in simCache : e.vouched} \union
    {OfferOf(r) : r \in {q \in Requests : kind[q] = "prepare" /\ pc[q] = "insert" /\ vouched[q]}}

\* As long as no root is dirty, a model offered under the current epoch is
\* compiled from the current documents.
OffersAreCurrent ==
    \A e \in Offered : /\ e.key.epoch <= epoch /\ e.roots <= roots
                       /\ e.key.epoch = epoch /\ ~dirty => e.roots = roots

Fresh(r) == token[r].revision = revision
Prepares(r) == kind[r] = "prepare" /\ vouched[r]

\* What a preparation whose token is current knows of the session,
PreparesCurrent ==
    \A r \in Requests : Prepares(r) =>
        /\ Fresh(r) /\ pc[r] \in {"rebuildClear", "sources", "base", "recheck"} => ~dirty
        /\ Fresh(r) /\ pc[r] \in {"recheck", "epoch", "lookup", "compile", "confirm"} => context[r].roots = roots

\* and what it can be offered from then on.
NothingOlderOffered ==
    \A r \in Requests : Prepares(r) =>
        /\ pc[r] \in {"recheck", "epoch", "lookup", "compile", "confirm", "insert"} => context[r].roots <= roots
        /\ pc[r] \in {"lookup", "compile", "confirm", "insert"} => keyEpoch[r] <= epoch
        /\ pc[r] = "epoch" => \A e \in Offered : e.key.epoch = epoch => e.roots >= context[r].roots
        /\ pc[r] = "lookup" => \A e \in Offered : e.key.epoch = keyEpoch[r] => e.roots >= context[r].roots
        /\ pc[r] \in {"confirm", "insert"} => used[r] = context[r].roots

TokensArePast == \A r \in Requests : vouched[r] => token[r].revision <= revision
PreparedInv ==
    /\ CachesInv /\ TokensArePast /\ SimulationsAreNot
    /\ OffersAreCurrent /\ PreparesCurrent /\ NothingOlderOffered /\ PreparedHitIsNotOlder

-----------------------------------------------------------------------------
(* Where the requests are.                                                   *)

LEMMA FitStep == TypeOK /\ PcFitsKind /\ LaneIsInUse /\ [Next]_vars => PcFitsKind' /\ LaneIsInUse'
<1> SUFFICES ASSUME TypeOK, PcFitsKind, LaneIsInUse, [Next]_vars PROVE PcFitsKind' /\ LaneIsInUse'
  OBVIOUS
<1>1. /\ pc \in [Requests -> Pc] /\ kind \in [Requests -> Kind] /\ lane \in Requests \union {Free}
      /\ Free \notin Requests
  BY CachesAssumption DEF TypeOK
<1> USE DEF Goto, Steps, LaneSteps, Kind, PcFitsKind, LaneIsInUse, requestVars
<1>2. ASSUME NEW r \in Requests, TakeToken(r) PROVE PcFitsKind' /\ LaneIsInUse'
  BY <1>1, <1>2 DEF TakeToken, AfterToken
<1>3. ASSUME NEW r \in Requests, LoadRoots(r) PROVE PcFitsKind' /\ LaneIsInUse'
  BY <1>1, <1>3 DEF LoadRoots
<1>4. ASSUME NEW r \in Requests, RequestClear(r) PROVE PcFitsKind' /\ LaneIsInUse'
  BY <1>1, <1>4 DEF RequestClear, ClearCaches
<1>5. ASSUME NEW r \in Requests, RefreshToken(r) PROVE PcFitsKind' /\ LaneIsInUse'
  BY <1>1, <1>5 DEF RefreshToken
<1>6. ASSUME NEW r \in Requests, CheckStale(r) PROVE PcFitsKind' /\ LaneIsInUse'
  BY <1>1, <1>6 DEF CheckStale, Leave, AfterFresh, AfterCheck, Ended, LaneWithout
<1>7. ASSUME NEW r \in Requests, AcquireLane(r) PROVE PcFitsKind' /\ LaneIsInUse'
  BY <1>1, <1>7 DEF AcquireLane, AfterLane
<1>8. ASSUME NEW r \in Requests, ReadDirty(r) PROVE PcFitsKind' /\ LaneIsInUse'
  BY <1>1, <1>8 DEF ReadDirty
<1>28. ASSUME NEW r \in Requests, RefreshLive(r) PROVE PcFitsKind' /\ LaneIsInUse'
  BY <1>1, <1>28 DEF RefreshLive
<1>29. ASSUME NEW r \in Requests, ReplaceRoot(r) PROVE PcFitsKind' /\ LaneIsInUse'
  BY <1>1, <1>29 DEF ReplaceRoot, Leave, Ended, LaneWithout
<1>9. ASSUME NEW r \in Requests, ReadSources(r) PROVE PcFitsKind' /\ LaneIsInUse'
  BY <1>1, <1>9 DEF ReadSources
<1>10. ASSUME NEW r \in Requests, CloneBase(r) PROVE PcFitsKind' /\ LaneIsInUse'
  BY <1>1, <1>10 DEF CloneBase, AfterBase
<1>11. ASSUME NEW r \in Requests, ReadEpoch(r) PROVE PcFitsKind' /\ LaneIsInUse'
  BY <1>1, <1>11 DEF ReadEpoch
<1>12. ASSUME NEW r \in Requests, Lookup(r) PROVE PcFitsKind' /\ LaneIsInUse'
  BY <1>1, <1>12 DEF Lookup, Leave, AfterResult, AfterMiss, Ended, LaneAfterModel, LaneWithout
<1>13. ASSUME NEW r \in Requests, Compile(r) PROVE PcFitsKind' /\ LaneIsInUse'
  BY <1>1, <1>13 DEF Compile, Leave, AfterCompile, Ended, LaneWithout
<1>14. ASSUME NEW r \in Requests, Insert(r) PROVE PcFitsKind' /\ LaneIsInUse'
  BY <1>1, <1>14 DEF Insert, Leave, AfterResult, Ended, LaneAfterModel, LaneWithout
<1>15. ASSUME NEW r \in Requests, ReadStamp(r) PROVE PcFitsKind' /\ LaneIsInUse'
  BY <1>1, <1>15 DEF ReadStamp
<1>16. ASSUME NEW r \in Requests, WaitGet(r) PROVE PcFitsKind' /\ LaneIsInUse'
  BY <1>1, <1>16 DEF WaitGet, AfterNoWait
<1>17. ASSUME NEW r \in Requests, WaitRegister(r) PROVE PcFitsKind' /\ LaneIsInUse'
  BY <1>1, <1>17 DEF WaitRegister
<1>18. ASSUME NEW r \in Requests, WaitRecheck(r) PROVE PcFitsKind' /\ LaneIsInUse'
  BY <1>1, <1>18 DEF WaitRecheck, AfterWait
<1>19. ASSUME NEW r \in Requests, WaitWake(r) PROVE PcFitsKind' /\ LaneIsInUse'
  BY <1>1, <1>19 DEF WaitWake, AfterWait
<1>20. ASSUME NEW r \in Requests, JobGet(r) PROVE PcFitsKind' /\ LaneIsInUse'
  BY <1>1, <1>20 DEF JobGet, Leave, Ended
<1>21. ASSUME NEW r \in Requests, JobInsert(r) PROVE PcFitsKind' /\ LaneIsInUse'
  BY <1>1, <1>21 DEF JobInsert
<1>22. ASSUME NEW r \in Requests, JobNotify(r) PROVE PcFitsKind' /\ LaneIsInUse'
  BY <1>1, <1>22 DEF JobNotify
<1>23. ASSUME NEW r \in Requests, JobRemove(r) PROVE PcFitsKind' /\ LaneIsInUse'
  BY <1>1, <1>23 DEF JobRemove, RegisteredAfter
<1>24. ASSUME NEW c \in Changers, ApplyChange(c) PROVE PcFitsKind' /\ LaneIsInUse'
  BY <1>1, <1>24 DEF ApplyChange
<1>30. ASSUME NEW c \in Changers, ReloadConfig(c) PROVE PcFitsKind' /\ LaneIsInUse'
  BY <1>1, <1>30 DEF ReloadConfig
<1>31. ASSUME NEW c \in Changers, ResetSession(c) PROVE PcFitsKind' /\ LaneIsInUse'
  BY <1>1, <1>31 DEF ResetSession
<1>32. ASSUME NEW c \in Changers, LoadDurable(c) PROVE PcFitsKind' /\ LaneIsInUse'
  BY <1>1, <1>32 DEF LoadDurable
<1>25. ASSUME NEW c \in Changers, ChangeClear(c) PROVE PcFitsKind' /\ LaneIsInUse'
  BY <1>1, <1>25 DEF ChangeClear
<1>26. ASSUME NEW c \in Changers, ChangeBump(c) PROVE PcFitsKind' /\ LaneIsInUse'
  BY <1>1, <1>26 DEF ChangeBump
<1>27. CASE UNCHANGED vars
  BY <1>1, <1>27 DEF vars
<1> QED
  BY <1>2, <1>3, <1>4, <1>5, <1>6, <1>7, <1>8, <1>9, <1>10, <1>11, <1>12, <1>13, <1>14, <1>15,
     <1>16, <1>17, <1>18, <1>19, <1>20, <1>21, <1>22, <1>23, <1>24, <1>25, <1>26, <1>27,
     <1>28, <1>29, <1>30, <1>31, <1>32 DEF Next, RequestStep,
        ChangerStep


-----------------------------------------------------------------------------
(* What one step does to each part of the state.                             *)

LEMMA KindStep ==
    ASSUME kind \in [Requests -> Kind], [Next]_vars
    PROVE  kind' \in [Requests -> Kind]
<1>1. kind' = kind \/ \E r \in Requests : kind' = [kind EXCEPT ![r] = "prepare"]
  BY DEF Next, RequestStep, ChangerStep, vars, sessionVars, cacheVars, changerVars, jobVars, requestVars,
     TakeToken, LoadRoots, RequestClear, RefreshToken, CheckStale, AcquireLane, ReadDirty, RefreshLive,
     ReplaceRoot, ReadSources, CloneBase, ReadEpoch, Lookup, Compile, Insert, ReadStamp, WaitGet, WaitRegister,
     WaitRecheck, WaitWake, JobGet, JobInsert, JobNotify, JobRemove, ApplyChange, ReloadConfig, ResetSession,
     LoadDurable, ChangeClear, ChangeBump
<1> QED
  BY <1>1 DEF Kind

\* The session changes in a few actions only.
LEMMA WhoChangesSession ==
    ASSUME [Next]_vars
    PROVE  \/ UNCHANGED sessionVars
           \/ \E c \in Changers : ApplyChange(c) \/ ResetSession(c) \/ LoadDurable(c)
           \/ \E r \in Requests : LoadRoots(r) \/ RefreshLive(r) \/ ReplaceRoot(r)
  BY DEF Next, RequestStep, ChangerStep, vars, sessionVars, cacheVars, changerVars, jobVars, requestVars,
     TakeToken, LoadRoots, RequestClear, RefreshToken, CheckStale, AcquireLane, ReadDirty, RefreshLive,
     ReplaceRoot, ReadSources, CloneBase, ReadEpoch, Lookup, Compile, Insert, ReadStamp, WaitGet, WaitRegister,
     WaitRecheck, WaitWake, JobGet, JobInsert, JobNotify, JobRemove, ApplyChange, ReloadConfig, ResetSession,
     LoadDurable, ChangeClear, ChangeBump

LEMMA SessionStep ==
    ASSUME {local, roots, epoch, revision, mutationEpoch} \subseteq Nat, dirty \in BOOLEAN, [Next]_vars
    PROVE  {local, roots, epoch, revision, mutationEpoch}' \subseteq Nat /\ dirty' \in BOOLEAN
<1>1. mutationEpoch' \in {mutationEpoch, mutationEpoch + 1}
  BY DEF Next, RequestStep, ChangerStep, vars, sessionVars, cacheVars, changerVars, jobVars, requestVars,
     TakeToken, LoadRoots, RequestClear, RefreshToken, CheckStale, AcquireLane, ReadDirty, RefreshLive,
     ReplaceRoot, ReadSources, CloneBase, ReadEpoch, Lookup, Compile, Insert, ReadStamp, WaitGet, WaitRegister,
     WaitRecheck, WaitWake, JobGet, JobInsert, JobNotify, JobRemove, ApplyChange, ReloadConfig, ResetSession,
     LoadDurable, ChangeClear, ChangeBump
<1>2. local \in Nat /\ roots \in Nat /\ epoch \in Nat /\ revision \in Nat /\ mutationEpoch \in Nat
  OBVIOUS
<1>3. ASSUME NEW c \in Changers, ApplyChange(c) \/ ResetSession(c) \/ LoadDurable(c)
      PROVE  /\ local' \in {local, local + 1} /\ roots' \in {roots, roots + 1} /\ epoch' \in {epoch, epoch + 1}
             /\ revision' \in {revision, revision + 1, 0, 1} /\ dirty' \in {dirty, TRUE, FALSE}
  BY <1>3 DEF ApplyChange, ResetSession, LoadDurable, sessionVars
<1>4. ASSUME NEW r \in Requests, LoadRoots(r) \/ RefreshLive(r) \/ ReplaceRoot(r)
      PROVE  /\ local' = local /\ roots' \in {roots, roots + 1} /\ epoch' \in {epoch, epoch + 1}
             /\ revision' \in {revision, revision + 1} /\ dirty' \in {dirty, FALSE}
  BY <1>4 DEF LoadRoots, RefreshLive, ReplaceRoot, sessionVars
<1>5. /\ local' \in {local, local + 1} /\ roots' \in {roots, roots + 1} /\ epoch' \in {epoch, epoch + 1}
      /\ revision' \in {revision, revision + 1, 0, 1} /\ dirty' \in {dirty, TRUE, FALSE}
  BY <1>3, <1>4, WhoChangesSession DEF sessionVars
<1>6. /\ local' \in Nat /\ roots' \in Nat /\ epoch' \in Nat /\ revision' \in Nat /\ mutationEpoch' \in Nat
  BY <1>1, <1>2, <1>5
<1>7. dirty' \in BOOLEAN
  BY <1>5, Zenon
<1> QED
  BY <1>6, <1>7

LEMMA ChangerPcStep ==
    ASSUME cPc \in [Changers -> ChangerPc], [Next]_vars
    PROVE  cPc' \in [Changers -> ChangerPc]
<1>1. cPc' = cPc \/ \E c \in Changers : \E l \in ChangerPc : cPc' = [cPc EXCEPT ![c] = l]
  <2>1. ASSUME NEW c \in Changers, ChangerStep(c) PROVE \E l \in ChangerPc : cPc' = [cPc EXCEPT ![c] = l]
    BY <2>1 DEF ChangerStep, ApplyChange, ReloadConfig, ResetSession, LoadDurable, ChangeClear, ChangeBump,
       AfterReload, CGoto, ChangerPc
  <2>2. ASSUME NEW r \in Requests, RequestStep(r) PROVE cPc' = cPc
    BY <2>2 DEF RequestStep, TakeToken, LoadRoots, RequestClear, RefreshToken, CheckStale, AcquireLane, ReadDirty,
       RefreshLive, ReplaceRoot, ReadSources, CloneBase, ReadEpoch, Lookup, Compile, Insert, ReadStamp, WaitGet,
       WaitRegister, WaitRecheck, WaitWake, JobGet, JobInsert, JobNotify, JobRemove, changerVars
  <2> QED
    BY <2>1, <2>2 DEF Next, vars, changerVars
<1>2. CASE cPc' = cPc
  BY <1>2
<1>3. ASSUME NEW c \in Changers, NEW l \in ChangerPc, cPc' = [cPc EXCEPT ![c] = l]
      PROVE  cPc' \in [Changers -> ChangerPc]
  BY <1>3
<1> QED
  BY <1>1, <1>2, <1>3

LEMMA ChangeStep ==
    ASSUME [Next]_vars
    PROVE  change' = change
  BY DEF Next, RequestStep, ChangerStep, vars, sessionVars, cacheVars, changerVars, jobVars, requestVars, TakeToken,
     LoadRoots, RequestClear, RefreshToken, CheckStale, AcquireLane, ReadDirty, RefreshLive, ReplaceRoot, ReadSources,
     CloneBase, ReadEpoch, Lookup, Compile, Insert, ReadStamp, WaitGet, WaitRegister, WaitRecheck, WaitWake, JobGet,
     JobInsert, JobNotify, JobRemove, ApplyChange, ReloadConfig, ResetSession, LoadDurable, ChangeClear, ChangeBump

\* A request is vouched for when it reads the revision, and not if it simulates.
LEMMA VouchStep ==
    ASSUME vouched \in [Requests -> BOOLEAN], kind \in [Requests -> Kind], [Next]_vars
    PROVE  /\ vouched' \in [Requests -> BOOLEAN]
           /\ \A q \in Requests : vouched'[q] /\ ~vouched[q] =>
                 kind[q] \in {"prepare", "config"} /\ (TakeToken(q) \/ RefreshToken(q))
<1>1. \/ vouched' = vouched
      \/ \E r \in Requests : TakeToken(r) \/ RefreshToken(r)
      \/ \E r \in Requests : ReplaceRoot(r)
      \/ \E r \in Requests : Lookup(r)
      \/ \E c \in Changers : ResetSession(c)
  <2>1. ASSUME NEW c \in Changers, ChangerStep(c) PROVE vouched' = vouched \/ ResetSession(c)
    BY <2>1 DEF ChangerStep, ApplyChange, ReloadConfig, LoadDurable, ChangeClear, ChangeBump, requestVars
  <2>2. ASSUME NEW r \in Requests, RequestStep(r)
        PROVE  vouched' = vouched \/ TakeToken(r) \/ RefreshToken(r) \/ ReplaceRoot(r) \/ Lookup(r)
    BY <2>2 DEF RequestStep, LoadRoots, RequestClear, CheckStale, AcquireLane, ReadDirty, RefreshLive, ReadSources,
       CloneBase, ReadEpoch, Compile, Insert, ReadStamp, WaitGet, WaitRegister, WaitRecheck, WaitWake, JobGet,
       JobInsert, JobNotify, JobRemove
  <2> QED
    BY <2>1, <2>2 DEF Next, vars, requestVars
<1>2. ASSUME NEW r \in Requests, TakeToken(r) \/ RefreshToken(r)
      PROVE  /\ vouched' \in [Requests -> BOOLEAN]
             /\ \A q \in Requests : vouched'[q] /\ ~vouched[q] =>
                   kind[q] \in {"prepare", "config"} /\ (TakeToken(q) \/ RefreshToken(q))
  <2>1. vouched' = [vouched EXCEPT ![r] = kind[r] \in {"prepare", "config"}]
    BY <1>2 DEF TakeToken, RefreshToken, Vouch
  <2>2. vouched' \in [Requests -> BOOLEAN]
    BY <2>1
  <2>3. \A q \in Requests : q # r => vouched'[q] = vouched[q]
    BY <2>1
  <2>4. vouched'[r] => kind[r] \in {"prepare", "config"}
    BY <2>1
  <2> HIDE DEF Vouch
  <2> QED
    BY <1>2, <2>2, <2>3, <2>4
<1>3. ASSUME NEW r \in Requests, Lookup(r)
      PROVE  vouched' \in [Requests -> BOOLEAN] /\ \A q \in Requests : vouched'[q] => vouched[q]
  <2>1. CASE vouched' = vouched
    BY <2>1
  <2>2. ASSUME NEW e, vouched' = [vouched EXCEPT ![r] = vouched[r] /\ e.vouched]
        PROVE  vouched' \in [Requests -> BOOLEAN] /\ \A q \in Requests : vouched'[q] => vouched[q]
    BY <2>2
  <2> QED
    BY <1>3, <2>1, <2>2 DEF Lookup
<1>4. ASSUME NEW r \in Requests, ReplaceRoot(r)
      PROVE  vouched' \in [Requests -> BOOLEAN] /\ \A q \in Requests : vouched'[q] => vouched[q]
  BY <1>4 DEF ReplaceRoot
<1>5. ASSUME NEW c \in Changers, ResetSession(c)
      PROVE  vouched' \in [Requests -> BOOLEAN] /\ \A q \in Requests : ~vouched'[q]
  BY <1>5 DEF ResetSession
<1> QED
  BY <1>1, <1>2, <1>3, <1>4, <1>5

LEMMA LaneStep ==
    ASSUME lane \in Requests \union {Free}, [Next]_vars
    PROVE  lane' \in Requests \union {Free}
<1>1. lane' \in {lane, Free} \/ \E r \in Requests : lane' = r
  BY DEF LaneAfterModel, LaneWithout, Next, RequestStep, ChangerStep, vars, sessionVars, cacheVars, changerVars,
     jobVars, requestVars, TakeToken, LoadRoots, RequestClear, RefreshToken, CheckStale, AcquireLane, ReadDirty,
     RefreshLive, ReplaceRoot, ReadSources, CloneBase, ReadEpoch, Lookup, Compile, Insert, ReadStamp, WaitGet,
     WaitRegister, WaitRecheck, WaitWake, JobGet, JobInsert, JobNotify, JobRemove, ApplyChange, ReloadConfig,
     ResetSession, LoadDurable, ChangeClear, ChangeBump
<1> QED
  BY <1>1

LEMMA JobStep ==
    ASSUME job \in [Requests -> {"none", "running", "done"}], registered \in Requests \union {Free}, [Next]_vars
    PROVE  job' \in [Requests -> {"none", "running", "done"}] /\ registered' \in Requests \union {Free}
<1>1. job' = job \/ \E r \in Requests : \E v \in {"none", "running", "done"} : job' = [job EXCEPT ![r] = v]
  BY DEF Next, RequestStep, ChangerStep, vars, sessionVars, cacheVars, changerVars, jobVars, requestVars,
     TakeToken, LoadRoots, RequestClear, RefreshToken, CheckStale, AcquireLane, ReadDirty, RefreshLive,
     ReplaceRoot, ReadSources, CloneBase, ReadEpoch, Lookup, Compile, Insert, ReadStamp, WaitGet, WaitRegister,
     WaitRecheck, WaitWake, JobGet, JobInsert, JobNotify, JobRemove, ApplyChange, ReloadConfig, ResetSession,
     LoadDurable, ChangeClear, ChangeBump
<1>2. registered' \in {registered, Free} \/ \E r \in Requests : registered' = r
  <2>1. ASSUME NEW c \in Changers, ChangerStep(c) PROVE registered' \in {registered, Free}
    BY <2>1 DEF ChangerStep, ApplyChange, ReloadConfig, ResetSession, LoadDurable, ChangeClear, ChangeBump,
       ClearCaches, cacheVars
  <2>2. ASSUME NEW r \in Requests, RequestStep(r) PROVE registered' \in {registered, Free, r}
    BY <2>2 DEF RequestStep, TakeToken, LoadRoots, RequestClear, RefreshToken, CheckStale, AcquireLane, ReadDirty,
       RefreshLive, ReplaceRoot, ReadSources, CloneBase, ReadEpoch, Lookup, Compile, Insert, ReadStamp, WaitGet,
       WaitRegister, WaitRecheck, WaitWake, JobGet, JobInsert, JobNotify, JobRemove, RegisteredAfter, InsertPreview,
       ClearCaches, cacheVars
  <2> QED
    BY <2>1, <2>2 DEF Next, vars, cacheVars
<1> QED
  BY <1>1, <1>2

LEMMA AwaitsStep ==
    ASSUME awaits \in [Requests -> Requests \union {Free}], notified \in [Requests -> BOOLEAN],
           registered \in Requests \union {Free}, [Next]_vars
    PROVE  awaits' \in [Requests -> Requests \union {Free}] /\ notified' \in [Requests -> BOOLEAN]
<1>1. awaits' = awaits \/ \E r \in Requests : awaits' = [awaits EXCEPT ![r] = registered]
  BY DEF Next, RequestStep, ChangerStep, vars, sessionVars, cacheVars, changerVars, jobVars, requestVars,
     TakeToken, LoadRoots, RequestClear, RefreshToken, CheckStale, AcquireLane, ReadDirty, RefreshLive,
     ReplaceRoot, ReadSources, CloneBase, ReadEpoch, Lookup, Compile, Insert, ReadStamp, WaitGet, WaitRegister,
     WaitRecheck, WaitWake, JobGet, JobInsert, JobNotify, JobRemove, ApplyChange, ReloadConfig, ResetSession,
     LoadDurable, ChangeClear, ChangeBump
<1>2. notified' = notified \/ \E r \in Requests : JobNotify(r)
  <2>1. ASSUME NEW c \in Changers, ChangerStep(c) PROVE notified' = notified
    BY <2>1 DEF ChangerStep, ApplyChange, ReloadConfig, ResetSession, LoadDurable, ChangeClear, ChangeBump,
       requestVars, jobVars
  <2>2. ASSUME NEW r \in Requests, RequestStep(r) PROVE notified' = notified \/ JobNotify(r)
    BY <2>2 DEF RequestStep, TakeToken, LoadRoots, RequestClear, RefreshToken, CheckStale, AcquireLane, ReadDirty,
       RefreshLive, ReplaceRoot, ReadSources, CloneBase, ReadEpoch, Lookup, Compile, Insert, ReadStamp, WaitGet,
       WaitRegister, WaitRecheck, WaitWake, JobGet, JobInsert, JobRemove, jobVars
  <2> QED
    BY <2>1, <2>2 DEF Next, vars, requestVars, jobVars
<1> QED
  BY <1>1, <1>2 DEF JobNotify

LEMMA UsedStep ==
    ASSUME TypeOK, [Next]_vars
    PROVE  used' \in [Requests -> Nat]
<1>1. \/ used' = used \/ (\E r \in Requests : Compile(r)) \/ (\E r \in Requests : Lookup(r))
      \/ \E r \in Requests : used' = [used EXCEPT ![r] = 0]
  BY DEF Next, RequestStep, ChangerStep, vars, sessionVars, cacheVars, changerVars, jobVars, requestVars,
     TakeToken, LoadRoots, RequestClear, RefreshToken, CheckStale, AcquireLane, ReadDirty, RefreshLive,
     ReplaceRoot, ReadSources, CloneBase, ReadEpoch, Lookup, Compile, Insert, ReadStamp, WaitGet, WaitRegister,
     WaitRecheck, WaitWake, JobGet, JobInsert, JobNotify, JobRemove, ApplyChange, ReloadConfig, ResetSession,
     LoadDurable, ChangeClear, ChangeBump
<1>2. ASSUME NEW r \in Requests, Lookup(r) PROVE used' \in [Requests -> Nat]
  <2>1. used \in [Requests -> Nat] /\ simCache \subseteq Entry /\ hoverCache \subseteq Entry
    BY DEF TypeOK
  <2> QED
    BY <1>2, <2>1 DEF Lookup, Hits, Cache, Entry
<1>3. ASSUME NEW r \in Requests, Compile(r) PROVE used' \in [Requests -> Nat]
  <2>1. used \in [Requests -> Nat] /\ context \in [Requests -> [local : Nat, roots : Nat]]
    BY DEF TypeOK
  <2> QED
    BY <1>3, <2>1 DEF Compile
<1>4. used \in [Requests -> Nat]
  BY DEF TypeOK
<1> QED
  BY <1>1, <1>2, <1>3, <1>4

\* What a step may do to the token, the key and the context of a request.
TokenMove ==
    \/ token' = token
    \/ \E r \in Requests : \/ token' = [token EXCEPT ![r] = NoToken]
                           \/ token' = [token EXCEPT ![r] = [epoch |-> mutationEpoch, revision |-> revision]]
                           \/ token' = [token EXCEPT ![r].revision = revision]

KeyMove ==
    \/ keyEpoch' = keyEpoch
    \/ \E r \in Requests : keyEpoch' = [keyEpoch EXCEPT ![r] = 0] \/ keyEpoch' = [keyEpoch EXCEPT ![r] = epoch]

ContextMove ==
    \/ context' = context
    \/ \E r \in Requests : \/ context' = [context EXCEPT ![r] = NoContext]
                           \/ context' = [context EXCEPT ![r].local = local]
                           \/ context' = [context EXCEPT ![r].roots = roots]

LEMMA RequestFieldsMove ==
    ASSUME [Next]_vars
    PROVE  TokenMove /\ KeyMove /\ ContextMove
<1>1. ASSUME NEW r \in Requests, NEW label, Leave(r, label) PROVE TokenMove /\ KeyMove /\ ContextMove
  BY <1>1 DEF Leave, TokenMove, KeyMove, ContextMove
<1>2. ASSUME NEW r \in Requests, TakeToken(r) \/ RefreshToken(r) PROVE TokenMove /\ KeyMove /\ ContextMove
  BY <1>2 DEF TakeToken, RefreshToken, TokenMove, KeyMove, ContextMove
<1>3. ASSUME NEW r \in Requests, ReadSources(r) \/ CloneBase(r) \/ ReadEpoch(r)
      PROVE  TokenMove /\ KeyMove /\ ContextMove
  BY <1>3 DEF ReadSources, CloneBase, ReadEpoch, TokenMove, KeyMove, ContextMove
<1>4. ASSUME UNCHANGED <<token, keyEpoch, context>> PROVE TokenMove /\ KeyMove /\ ContextMove
  BY <1>4 DEF TokenMove, KeyMove, ContextMove
<1>5. \/ UNCHANGED <<token, keyEpoch, context>>
      \/ \E r \in Requests : \/ \E label : Leave(r, label)
                             \/ TakeToken(r) \/ RefreshToken(r) \/ ReadSources(r) \/ CloneBase(r) \/ ReadEpoch(r)
  BY DEF Next, RequestStep, ChangerStep, vars, sessionVars, cacheVars, changerVars, jobVars, requestVars,
     LoadRoots, RequestClear, CheckStale, AcquireLane, ReadDirty, RefreshLive, ReplaceRoot, Lookup, Compile,
     Insert, ReadStamp, WaitGet, WaitRegister, WaitRecheck, WaitWake, JobGet, JobInsert, JobNotify, JobRemove,
     ApplyChange, ReloadConfig, ResetSession, LoadDurable, ChangeClear, ChangeBump
<1> QED
  BY <1>1, <1>2, <1>3, <1>4, <1>5

LEMMA TokenStep ==
    ASSUME TypeOK, [Next]_vars
    PROVE  token' \in [Requests -> [epoch : Nat, revision : Nat]] /\ keyEpoch' \in [Requests -> Nat]
<1>1. \/ token' = token
      \/ \E r \in Requests : \/ token' = [token EXCEPT ![r] = NoToken]
                             \/ token' = [token EXCEPT ![r] = [epoch |-> mutationEpoch, revision |-> revision]]
                             \/ token' = [token EXCEPT ![r].revision = revision]
  BY RequestFieldsMove DEF TokenMove
<1>2. \/ keyEpoch' = keyEpoch
      \/ \E r \in Requests : keyEpoch' = [keyEpoch EXCEPT ![r] = 0] \/ keyEpoch' = [keyEpoch EXCEPT ![r] = epoch]
  BY RequestFieldsMove DEF KeyMove
<1>3. token' \in [Requests -> [epoch : Nat, revision : Nat]]
  <2>1. /\ token \in [Requests -> [epoch : Nat, revision : Nat]]
        /\ NoToken \in [epoch : Nat, revision : Nat]
        /\ [epoch |-> mutationEpoch, revision |-> revision] \in [epoch : Nat, revision : Nat]
        /\ revision \in Nat
    BY DEF TypeOK, NoToken
  <2> QED
    BY <1>1, <2>1
<1>4. keyEpoch' \in [Requests -> Nat]
  <2>1. keyEpoch \in [Requests -> Nat] /\ epoch \in Nat /\ 0 \in Nat
    BY DEF TypeOK
  <2> QED
    BY <1>2, <2>1
<1> QED
  BY <1>3, <1>4

LEMMA ContextStep ==
    ASSUME TypeOK, [Next]_vars
    PROVE  context' \in [Requests -> [local : Nat, roots : Nat]]
<1>1. \/ context' = context
      \/ \E r \in Requests : \/ context' = [context EXCEPT ![r] = NoContext]
                             \/ context' = [context EXCEPT ![r].local = local]
                             \/ context' = [context EXCEPT ![r].roots = roots]
  BY RequestFieldsMove DEF ContextMove
<1>2. /\ context \in [Requests -> [local : Nat, roots : Nat]]
      /\ NoContext \in [local : Nat, roots : Nat] /\ local \in Nat /\ roots \in Nat
  BY DEF TypeOK, NoContext
<1> QED
  BY <1>1, <1>2

LEMMA StampStep ==
    ASSUME TypeOK, [Next]_vars
    PROVE  stamp' \in [Requests -> [revision : Nat, epoch : Nat]]
<1>1. \/ stamp' = stamp
      \/ \E r \in Requests : \/ stamp' = [stamp EXCEPT ![r] = NoStamp]
                             \/ stamp' = [stamp EXCEPT ![r].revision = revision]
                             \/ stamp' = [stamp EXCEPT ![r].epoch = epoch]
                             \/ stamp' = [stamp EXCEPT ![r] = [revision |-> token[r].revision, epoch |-> epoch]]
  BY DEF Next, RequestStep, ChangerStep, vars, sessionVars, cacheVars, changerVars, jobVars, requestVars,
     TakeToken, LoadRoots, RequestClear, RefreshToken, CheckStale, AcquireLane, ReadDirty, RefreshLive,
     ReplaceRoot, ReadSources, CloneBase, ReadEpoch, Lookup, Compile, Insert, ReadStamp, WaitGet, WaitRegister,
     WaitRecheck, WaitWake, JobGet, JobInsert, JobNotify, JobRemove, ApplyChange, ReloadConfig, ResetSession,
     LoadDurable, ChangeClear, ChangeBump
<1>2. /\ stamp \in [Requests -> [revision : Nat, epoch : Nat]]
      /\ NoStamp \in [revision : Nat, epoch : Nat] /\ revision \in Nat /\ epoch \in Nat
      /\ \A r \in Requests : [revision |-> token[r].revision, epoch |-> epoch] \in [revision : Nat, epoch : Nat]
  BY DEF TypeOK, NoStamp
<1> QED
  BY <1>1, <1>2

\* The caches: cleared, given one model, or vouched for no longer.
LEMMA CachesStep ==
    ASSUME [Next]_vars
    PROVE  \/ UNCHANGED <<simCache, hoverCache, hoverOrder>>
           \/ simCache' = {} /\ hoverCache' = {} /\ hoverOrder' = <<>>
           \/ \E r \in Requests : Insert(r)
           \/ simCache' = {[e EXCEPT !.vouched = FALSE] : e \in simCache} /\ UNCHANGED <<hoverCache, hoverOrder>>
  BY DEF ClearCaches, Next, RequestStep, ChangerStep, vars, sessionVars, cacheVars, changerVars, jobVars,
     requestVars, TakeToken, LoadRoots, RequestClear, RefreshToken, CheckStale, AcquireLane, ReadDirty,
     RefreshLive, ReplaceRoot, ReadSources, CloneBase, ReadEpoch, Lookup, Compile, Insert, ReadStamp, WaitGet,
     WaitRegister, WaitRecheck, WaitWake, JobGet, JobInsert, JobNotify, JobRemove, ApplyChange, ReloadConfig,
     ResetSession, LoadDurable, ChangeClear, ChangeBump

LEMMA KeysAreKeys ==
    ASSUME TypeOK, NEW r \in Requests
    PROVE  /\ KeyOf(r) \in Key /\ used[r] \in Nat
           /\ \A v \in BOOLEAN : [key |-> KeyOf(r), roots |-> used[r], vouched |-> v] \in Entry
<1>1. context[r] \in [local : Nat, roots : Nat] /\ keyEpoch[r] \in Nat /\ used[r] \in Nat
  BY DEF TypeOK
<1>2. KeyOf(r) \in Key
  BY <1>1 DEF KeyOf, Key
<1> QED
  BY <1>1, <1>2 DEF Entry

\* The queue of the memo without its oldest keys.
LEMMA QueueType ==
    ASSUME TypeOK, NEW k \in Key
    PROVE  /\ OrderAfter(k) \in Seq(Key)
           /\ \A n \in 0 .. Len(OrderAfter(k)) : 
                 SubSeq(OrderAfter(k), n + 1, Len(OrderAfter(k))) \in Seq(Key)
<1>1. OrderAfter(k) \in Seq(Key)
  BY DEF TypeOK, OrderAfter
<1>2. ASSUME NEW s \in Seq(Key), NEW n \in 0 .. Len(s) PROVE SubSeq(s, n + 1, Len(s)) \in Seq(Key)
  BY <1>2, SubSeqProperties
<1> QED
  BY <1>1, <1>2

LEMMA CacheTypeStep ==
    ASSUME TypeOK, [Next]_vars
    PROVE  simCache' \subseteq Entry /\ hoverCache' \subseteq Entry /\ hoverOrder' \in Seq(Key)
<1>1. ASSUME NEW r \in Requests, Insert(r)
      PROVE  simCache' \subseteq Entry /\ hoverCache' \subseteq Entry /\ hoverOrder' \in Seq(Key)
  <2>1. KeyOf(r) \in Key /\ [key |-> KeyOf(r), roots |-> used[r], vouched |-> vouched[r]] \in Entry
    <3>1. vouched[r] \in BOOLEAN
      BY DEF TypeOK
    <3> QED
      BY <3>1, KeysAreKeys
  <2>2. simCache \subseteq Entry /\ hoverCache \subseteq Entry /\ hoverOrder \in Seq(Key)
    BY DEF TypeOK
  <2>3. simCache' \subseteq Entry /\ hoverCache' \subseteq Entry
    BY <1>1, <2>1, <2>2 DEF Insert, InsertPreview, Inserted
  <2>4. CASE kind[r] = "hover"
    <3> DEFINE order == OrderAfter(KeyOf(r))
               excess == IF Len(order) > Capacity THEN Len(order) - Capacity ELSE 0
    <3>1. hoverOrder' = SubSeq(order, excess + 1, Len(order))
      BY <1>1, <2>4 DEF Insert, InsertPreview
    <3>2. order \in Seq(Key)
      BY <2>1, QueueType
    <3>3. excess \in 0 .. Len(order)
      <4>1. Len(order) \in Nat /\ Capacity \in Nat
        BY <3>2, CachesAssumption, LenProperties
      <4> HIDE DEF order
      <4> QED
        BY <4>1
    <3> QED
      BY <2>1, <2>3, <3>1, <3>3, QueueType
  <2>5. CASE kind[r] # "hover"
    BY <1>1, <2>2, <2>3, <2>5 DEF Insert
  <2> QED
    BY <2>4, <2>5
<1>2. simCache \subseteq Entry /\ hoverCache \subseteq Entry /\ hoverOrder \in Seq(Key)
  BY DEF TypeOK
<1>3. <<>> \in Seq(Key)
  OBVIOUS
<1>4. {[e EXCEPT !.vouched = FALSE] : e \in simCache} \subseteq Entry
  BY <1>2 DEF Entry
<1> QED
  BY <1>1, <1>2, <1>3, <1>4, CachesStep

\* Where the requests are.
LEMMA PcStep ==
    ASSUME CachesInv, [Next]_vars
    PROVE  pc' \in [Requests -> Pc]
<1>1. pc \in [Requests -> Pc] /\ kind' \in [Requests -> Kind]
  BY KindStep DEF CachesInv, TypeOK
<1> DEFINE Moved == pc' = [r \in Requests |-> pc'[r]]
<1>2. Moved
  <2>1. (pc' = pc => Moved) /\ \A r \in Requests : \A label : Goto(r, label) \/ Leave(r, label) => Moved
    BY <1>1 DEF Goto, Leave
  <2> HIDE DEF Moved
  <2> QED
    BY <2>1 DEF Next, RequestStep, ChangerStep, vars, sessionVars, cacheVars, changerVars, jobVars, requestVars,
       TakeToken, LoadRoots, RequestClear, RefreshToken, CheckStale, AcquireLane, ReadDirty, RefreshLive,
       ReplaceRoot, ReadSources, CloneBase, ReadEpoch, Lookup, Compile, Insert, ReadStamp, WaitGet, WaitRegister,
       WaitRecheck, WaitWake, JobGet, JobInsert, JobNotify, JobRemove, ApplyChange, ReloadConfig, ResetSession,
       LoadDurable, ChangeClear, ChangeBump
<1>3. \A r \in Requests : kind'[r] \in Kind /\ pc'[r] \in Steps[kind'[r]]
  BY <1>1, FitStep DEF CachesInv, PcFitsKind
<1>4. \A k \in Kind : Steps[k] \subseteq Pc
  BY DEF Kind, Steps, Pc
<1> QED
  BY <1>2, <1>3, <1>4

LEMMA CachesInvStep == CachesInv /\ [Next]_vars => CachesInv'
<1> SUFFICES ASSUME CachesInv, [Next]_vars PROVE CachesInv'
  OBVIOUS
<1>1. TypeOK /\ PcFitsKind' /\ LaneIsInUse'
  BY FitStep DEF CachesInv
<1>2. kind' \in [Requests -> Kind] /\ lane' \in Requests \union {Free}
  BY <1>1, KindStep, LaneStep DEF TypeOK
<1>3. \A r \in Requests : lane' = r => pc'[r] \notin {"answered", "done"}
  <2>1. \A k \in Kind : LaneSteps[k] \cap {"answered", "done"} = {}
    BY DEF Kind, LaneSteps
  <2>2. \A r \in Requests : kind'[r] \in Kind
    BY <1>2
  <2> QED
    BY <1>1, <2>1, <2>2 DEF LaneIsInUse
<1>4. {local, roots, epoch, revision, mutationEpoch}' \subseteq Nat /\ dirty' \in BOOLEAN
  BY <1>1, SessionStep DEF TypeOK
<1>5. cPc' \in [Changers -> ChangerPc]
  BY <1>1, ChangerPcStep DEF TypeOK
<1>6. job' \in [Requests -> {"none", "running", "done"}] /\ registered' \in Requests \union {Free}
  BY <1>1, JobStep DEF TypeOK
<1>7. awaits' \in [Requests -> Requests \union {Free}] /\ notified' \in [Requests -> BOOLEAN]
  BY <1>1, AwaitsStep DEF TypeOK
<1>8. TypeOK'
  <2>1. change' \in [Changers -> Change] /\ vouched' \in [Requests -> BOOLEAN]
    BY <1>1, ChangeStep, VouchStep DEF TypeOK
  <2> QED
    BY <1>1, <1>2, <1>3, <1>4, <1>5, <1>6, <1>7, <2>1, PcStep, UsedStep, TokenStep, ContextStep, StampStep,
       CacheTypeStep DEF TypeOK
<1> QED
  BY <1>1, <1>8 DEF CachesInv

LEMMA CachesInvInit == Init => CachesInv
<1> SUFFICES ASSUME Init PROVE CachesInv
  OBVIOUS
<1>1. kind \in [Requests -> Kind]
  BY CachesAssumption DEF Init
<1>2. \A k \in Kind : FirstStep[k] \in Steps[k] /\ Steps[k] \subseteq Pc
  BY DEF FirstStep, Steps, Kind, Pc
<1>3. pc \in [Requests -> Pc] /\ PcFitsKind
  BY <1>1, <1>2 DEF Init, PcFitsKind
<1>4. LaneIsInUse /\ \A r \in Requests : lane = r => pc[r] \notin {"answered", "done"}
  BY CachesAssumption DEF Init, LaneIsInUse
<1>5. token \in [Requests -> [epoch : Nat, revision : Nat]] /\ context \in [Requests -> [local : Nat, roots : Nat]]
      /\ stamp \in [Requests -> [revision : Nat, epoch : Nat]]
  BY DEF Init, NoToken, NoContext, NoStamp
<1>6. /\ {local, roots, epoch, revision, mutationEpoch} \subseteq Nat
      /\ hoverOrder \in Seq(Key) /\ simCache \subseteq Entry /\ hoverCache \subseteq Entry
  BY DEF Init
<1>7. cPc \in [Changers -> ChangerPc] /\ change \in [Changers -> Change]
  BY CachesAssumption DEF Init, ChangerPc
<1>8. TypeOK
  BY <1>1, <1>3, <1>4, <1>5, <1>6, <1>7 DEF Init, TypeOK
<1> QED
  BY <1>3, <1>4, <1>8 DEF CachesInv

\* The variables keep their types: what goes into a cache is a model under a
\* key, and no request that has returned holds the strict lane.
THEOREM TypeCorrect == Spec => []TypeOK
<1> QED
  BY CachesInvInit, CachesInvStep, PTL DEF Spec, CachesInv

-----------------------------------------------------------------------------
(* The prewarm jobs.                                                         *)

LEMMA WaitStep == CachesInv /\ WaitersAwait /\ SleeperHasJob /\ [Next]_vars => WaitersAwait' /\ SleeperHasJob'
<1> SUFFICES ASSUME CachesInv, WaitersAwait, SleeperHasJob, [Next]_vars PROVE WaitersAwait' /\ SleeperHasJob'
  OBVIOUS
<1>1. /\ pc \in [Requests -> Pc] /\ kind \in [Requests -> Kind] /\ job \in [Requests -> {"none", "running", "done"}]
      /\ awaits \in [Requests -> Requests \union {Free}] /\ notified \in [Requests -> BOOLEAN]
      /\ registered \in Requests \union {Free} /\ Free \notin Requests
      /\ PcFitsKind
  BY CachesAssumption DEF CachesInv, TypeOK
<1> USE DEF Goto, Steps, Kind, PcFitsKind, WaitersAwait, SleeperHasJob, jobVars, requestVars
<1>2. ASSUME NEW r \in Requests, TakeToken(r) PROVE WaitersAwait' /\ SleeperHasJob'
  BY <1>1, <1>2 DEF TakeToken, AfterToken
<1>3. ASSUME NEW r \in Requests, LoadRoots(r) PROVE WaitersAwait' /\ SleeperHasJob'
  BY <1>1, <1>3 DEF LoadRoots
<1>4. ASSUME NEW r \in Requests, RequestClear(r) PROVE WaitersAwait' /\ SleeperHasJob'
  BY <1>1, <1>4 DEF RequestClear, ClearCaches
<1>5. ASSUME NEW r \in Requests, RefreshToken(r) PROVE WaitersAwait' /\ SleeperHasJob'
  BY <1>1, <1>5 DEF RefreshToken
<1>6. ASSUME NEW r \in Requests, CheckStale(r) PROVE WaitersAwait' /\ SleeperHasJob'
  BY <1>1, <1>6 DEF CheckStale, Leave, AfterFresh, AfterCheck, Ended, LaneWithout
<1>7. ASSUME NEW r \in Requests, AcquireLane(r) PROVE WaitersAwait' /\ SleeperHasJob'
  BY <1>1, <1>7 DEF AcquireLane, AfterLane
<1>8. ASSUME NEW r \in Requests, ReadDirty(r) PROVE WaitersAwait' /\ SleeperHasJob'
  BY <1>1, <1>8 DEF ReadDirty
<1>28. ASSUME NEW r \in Requests, RefreshLive(r) PROVE WaitersAwait' /\ SleeperHasJob'
  BY <1>1, <1>28 DEF RefreshLive
<1>29. ASSUME NEW r \in Requests, ReplaceRoot(r) PROVE WaitersAwait' /\ SleeperHasJob'
  BY <1>1, <1>29 DEF ReplaceRoot, Leave, Ended, LaneWithout
<1>9. ASSUME NEW r \in Requests, ReadSources(r) PROVE WaitersAwait' /\ SleeperHasJob'
  BY <1>1, <1>9 DEF ReadSources
<1>10. ASSUME NEW r \in Requests, CloneBase(r) PROVE WaitersAwait' /\ SleeperHasJob'
  BY <1>1, <1>10 DEF CloneBase, AfterBase
<1>11. ASSUME NEW r \in Requests, ReadEpoch(r) PROVE WaitersAwait' /\ SleeperHasJob'
  BY <1>1, <1>11 DEF ReadEpoch
<1>12. ASSUME NEW r \in Requests, Lookup(r) PROVE WaitersAwait' /\ SleeperHasJob'
  BY <1>1, <1>12 DEF Lookup, Leave, AfterResult, AfterMiss, Ended, LaneAfterModel, LaneWithout
<1>13. ASSUME NEW r \in Requests, Compile(r) PROVE WaitersAwait' /\ SleeperHasJob'
  BY <1>1, <1>13 DEF Compile, Leave, AfterCompile, Ended, LaneWithout
<1>14. ASSUME NEW r \in Requests, Insert(r) PROVE WaitersAwait' /\ SleeperHasJob'
  BY <1>1, <1>14 DEF Insert, Leave, AfterResult, Ended, LaneAfterModel, LaneWithout
<1>15. ASSUME NEW r \in Requests, ReadStamp(r) PROVE WaitersAwait' /\ SleeperHasJob'
  BY <1>1, <1>15 DEF ReadStamp
<1>16. ASSUME NEW r \in Requests, WaitGet(r) PROVE WaitersAwait' /\ SleeperHasJob'
  BY <1>1, <1>16 DEF WaitGet, AfterNoWait, HasCurrentJob
<1>17. ASSUME NEW r \in Requests, WaitRegister(r) PROVE WaitersAwait' /\ SleeperHasJob'
  BY <1>1, <1>17 DEF WaitRegister
<1>18. ASSUME NEW r \in Requests, WaitRecheck(r) PROVE WaitersAwait' /\ SleeperHasJob'
  BY <1>1, <1>18 DEF WaitRecheck, AfterWait
<1>19. ASSUME NEW r \in Requests, WaitWake(r) PROVE WaitersAwait' /\ SleeperHasJob'
  BY <1>1, <1>19 DEF WaitWake, AfterWait
<1>20. ASSUME NEW r \in Requests, JobGet(r) PROVE WaitersAwait' /\ SleeperHasJob'
  BY <1>1, <1>20 DEF JobGet, Leave, Ended, HasCurrentJob
<1>21. ASSUME NEW r \in Requests, JobInsert(r) PROVE WaitersAwait' /\ SleeperHasJob'
  BY <1>1, <1>21 DEF JobInsert
<1>22. ASSUME NEW r \in Requests, JobNotify(r) PROVE WaitersAwait' /\ SleeperHasJob'
  BY <1>1, <1>22 DEF JobNotify, Ended
<1>23. ASSUME NEW r \in Requests, JobRemove(r) PROVE WaitersAwait' /\ SleeperHasJob'
  BY <1>1, <1>23 DEF JobRemove, RegisteredAfter
<1>24. ASSUME NEW c \in Changers, ApplyChange(c) PROVE WaitersAwait' /\ SleeperHasJob'
  BY <1>1, <1>24 DEF ApplyChange
<1>30. ASSUME NEW c \in Changers, ReloadConfig(c) PROVE WaitersAwait' /\ SleeperHasJob'
  BY <1>1, <1>30 DEF ReloadConfig
<1>31. ASSUME NEW c \in Changers, ResetSession(c) PROVE WaitersAwait' /\ SleeperHasJob'
  BY <1>1, <1>31 DEF ResetSession
<1>32. ASSUME NEW c \in Changers, LoadDurable(c) PROVE WaitersAwait' /\ SleeperHasJob'
  BY <1>1, <1>32 DEF LoadDurable
<1>25. ASSUME NEW c \in Changers, ChangeClear(c) PROVE WaitersAwait' /\ SleeperHasJob'
  BY <1>1, <1>25 DEF ChangeClear
<1>26. ASSUME NEW c \in Changers, ChangeBump(c) PROVE WaitersAwait' /\ SleeperHasJob'
  BY <1>1, <1>26 DEF ChangeBump
<1>27. CASE UNCHANGED vars
  BY <1>1, <1>27 DEF vars
<1> QED
  BY <1>2, <1>3, <1>4, <1>5, <1>6, <1>7, <1>8, <1>9, <1>10, <1>11, <1>12, <1>13, <1>14, <1>15,
     <1>16, <1>17, <1>18, <1>19, <1>20, <1>21, <1>22, <1>23, <1>24, <1>25, <1>26, <1>27,
     <1>28, <1>29, <1>30, <1>31, <1>32 DEF Next, RequestStep,
        ChangerStep

\* A request that waits for a job's notification has it ahead of it.
THEOREM SleepersAreWoken == Spec => []SleeperHasJob
<1>1. Init => WaitersAwait /\ SleeperHasJob
  <2> SUFFICES ASSUME Init PROVE WaitersAwait /\ SleeperHasJob
    OBVIOUS
  <2>1. \A r \in Requests : pc[r] = FirstStep[kind[r]] /\ kind[r] \in Kind
    BY CachesAssumption DEF Init
  <2> QED
    BY <2>1 DEF WaitersAwait, SleeperHasJob, FirstStep, Kind
<1> QED
  BY <1>1, CachesInvInit, CachesInvStep, WaitStep, PTL DEF Spec

\* What frees the entry of a job that runs is a clear of the caches: a job
\* that ends frees its own entry, and it no longer runs then.
THEOREM JobsStayRegistered == Spec => JobStaysRegistered
<1>1. ASSUME CachesInv, [Next]_vars, NEW r \in Requests, registered = r, job[r] = "running", registered' = Free
      PROVE  Clearing
  <2>1. /\ pc \in [Requests -> Pc] /\ cPc \in [Changers -> ChangerPc]
        /\ Free \notin Requests
    BY <1>1, CachesAssumption DEF CachesInv, TypeOK
  <2>2. \/ \E c \in Changers : ChangeClear(c) \/ (cPc[c] = "reload" /\ CGoto(c, "reset"))
        \/ \E q \in Requests : RequestClear(q) \/ JobRemove(q)
    <3>1. registered' # registered
      BY <1>1, <2>1
    <3>2. ASSUME NEW c \in Changers, ChangerStep(c)
          PROVE  ChangeClear(c) \/ (cPc[c] = "reload" /\ CGoto(c, "reset"))
      BY <3>1, <3>2 DEF ChangerStep, ApplyChange, ReloadConfig, ResetSession, LoadDurable, ChangeBump, cacheVars
    <3>3. ASSUME NEW q \in Requests, RequestStep(q) PROVE RequestClear(q) \/ JobInsert(q) \/ JobRemove(q)
      BY <3>1, <3>3 DEF RequestStep, TakeToken, LoadRoots, RefreshToken, CheckStale, AcquireLane, ReadDirty,
         RefreshLive, ReplaceRoot, ReadSources, CloneBase, ReadEpoch, Lookup, Compile, Insert, InsertPreview,
         ReadStamp, WaitGet, WaitRegister, WaitRecheck, WaitWake, JobGet, JobNotify, cacheVars
    <3>4. \A q \in Requests : ~JobInsert(q)
      BY <1>1, <2>1 DEF JobInsert
    <3> QED
      BY <1>1, <3>1, <3>2, <3>3, <3>4 DEF Next, vars, cacheVars
  <2>3. ASSUME NEW c \in Changers, ChangeClear(c) PROVE Clearing
    BY <2>1, <2>3 DEF ChangeClear, CGoto, AfterReload, Clearing
  <2>4. ASSUME NEW q \in Requests, RequestClear(q) PROVE Clearing
    BY <2>1, <2>4 DEF RequestClear, Goto, Clearing
  <2>5. ASSUME NEW q \in Requests, JobRemove(q) PROVE FALSE
    BY <1>1, <2>1, <2>5 DEF JobRemove, RegisteredAfter
  <2>6. ASSUME NEW c \in Changers, cPc[c] = "reload", CGoto(c, "reset") PROVE Clearing
    BY <2>1, <2>6 DEF CGoto, Clearing
  <2> QED
    BY <2>2, <2>3, <2>4, <2>5, <2>6
<1>2. CachesInv /\ [Next]_vars =>
        [\A r \in Requests : registered = r /\ job[r] = "running" /\ registered' = Free => Clearing]_vars
  BY <1>1
<1> QED
  BY <1>2, CachesInvInit, CachesInvStep, PTL DEF Spec, JobStaysRegistered

-----------------------------------------------------------------------------
(* The memo of hover previews.                                               *)

\* A new key at the end of the queue, or another model under a key of the queue.
LEMMA InsertedIsExact ==
    ASSUME TypeOK, Exact(hoverOrder, hoverCache), NEW r \in Requests
    PROVE  /\ OrderAfter(KeyOf(r)) \in Seq(Key)
           /\ Len(OrderAfter(KeyOf(r))) \in Nat
           /\ Exact(OrderAfter(KeyOf(r)), Inserted(hoverCache, r))
<1>1. hoverOrder \in Seq(Key) /\ Len(hoverOrder) \in Nat
  BY DEF TypeOK
<1> DEFINE k == KeyOf(r)
           new == [key |-> k, roots |-> used[r], vouched |-> vouched[r]]
           cache == Inserted(hoverCache, r)
<1>0. k \in Key /\ cache = {e \in hoverCache : e.key # k} \union {new}
  BY KeysAreKeys DEF Inserted
<1>2. new.key = k
  OBVIOUS
<1> HIDE DEF k, new, cache
<1>3. {e.key : e \in cache} = {e.key : e \in hoverCache} \union {k}
  BY <1>0, <1>2
<1>4. \A e, f \in cache : e.key = f.key => e = f
  BY <1>0, <1>2 DEF Exact
<1>5. CASE \E e \in hoverCache : e.key = k
  <2>1. OrderAfter(k) = hoverOrder
    BY <1>5 DEF OrderAfter
  <2>2. {e.key : e \in hoverCache} \union {k} = {e.key : e \in hoverCache}
    BY <1>5
  <2>3. {hoverOrder[i] : i \in 1 .. Len(hoverOrder)} = {e.key : e \in hoverCache}
    BY DEF Exact
  <2>4. {hoverOrder[i] : i \in 1 .. Len(hoverOrder)} = {e.key : e \in cache}
    BY <1>3, <2>2, <2>3
  <2>5. Exact(hoverOrder, cache)
    BY <1>4, <2>4 DEF Exact
  <2> QED
    BY <1>1, <2>1, <2>5 DEF k, cache
<1>6. CASE ~ \E e \in hoverCache : e.key = k
  <2> DEFINE order == Append(hoverOrder, k)
             n == Len(hoverOrder)
  <2>1. OrderAfter(k) = order
    BY <1>6 DEF OrderAfter
  <2>2. /\ order \in Seq(Key) /\ Len(order) = n + 1 /\ n \in Nat
        /\ \A i \in 1 .. n : order[i] = hoverOrder[i]
        /\ order[n + 1] = k
    <3>1. k \in Key /\ hoverOrder \in Seq(Key) /\ n \in Nat
      BY <1>0, <1>1
    <3>2. order \in Seq(Key)
      BY <3>1, AppendProperties
    <3>3. Len(order) = n + 1 /\ order[n + 1] = k
      BY <3>1, AppendProperties
    <3>4. \A i \in 1 .. n : order[i] = hoverOrder[i]
      BY <3>1, AppendProperties
    <3> QED
      BY <3>1, <3>2, <3>3, <3>4
  <2>3. ASSUME NEW i \in 1 .. n PROVE hoverOrder[i] # k
    <3>1. hoverOrder[i] \in {e.key : e \in hoverCache}
      BY DEF Exact
    <3> QED
      BY <1>6, <3>1
  <2> HIDE DEF order, n
  <2>4. {order[i] : i \in 1 .. n + 1} = {order[i] : i \in 1 .. n} \union {k}
    BY <2>2
  <2>5. {order[i] : i \in 1 .. n} = {hoverOrder[i] : i \in 1 .. n}
    BY <2>2
  <2>6. \A i, j \in 1 .. n + 1 : order[i] = order[j] => i = j
    <3> SUFFICES ASSUME NEW i \in 1 .. n + 1, NEW j \in 1 .. n + 1, order[i] = order[j] PROVE i = j
      OBVIOUS
    <3>1. \A a, b \in 1 .. n : hoverOrder[a] = hoverOrder[b] => a = b
      BY DEF Exact, n
    <3> QED
      BY <2>2, <2>3, <3>1
  <2>7. {hoverOrder[i] : i \in 1 .. n} = {e.key : e \in hoverCache}
    BY DEF Exact, n
  <2>8. {order[i] : i \in 1 .. n + 1} = {e.key : e \in cache}
    BY <1>3, <2>4, <2>5, <2>7
  <2>9. Exact(order, cache)
    BY <1>4, <2>2, <2>6, <2>8 DEF Exact
  <2> QED
    BY <2>1, <2>2, <2>9 DEF k, cache
<1> QED
  BY <1>5, <1>6

\* The oldest keys and their entries leave together.
LEMMA EvictedIsExact ==
    ASSUME NEW order \in Seq(Key), NEW cache, Exact(order, cache), NEW x \in 0 .. Len(order)
    PROVE  LET rest == SubSeq(order, x + 1, Len(order))
           IN  /\ Len(rest) = Len(order) - x
               /\ Exact(rest, {e \in cache : e.key \notin {order[i] : i \in 1 .. x}})
<1> DEFINE n == Len(order)
           rest == SubSeq(order, x + 1, n)
           left == {e \in cache : e.key \notin {order[i] : i \in 1 .. x}}
<1>1. n \in Nat /\ x \in Nat /\ x <= n /\ \A i \in 1 .. n : order[i] \in Key
  OBVIOUS
<1>2. Len(rest) = n - x /\ \A i \in 1 .. n - x : rest[i] = order[x + i]
  <2>1. Len(rest) = IF x + 1 <= n THEN n - (x + 1) + 1 ELSE 0
    BY <1>1, SubSeqProperties
  <2>2. \A i \in 1 .. n - (x + 1) + 1 : rest[i] = order[(x + 1) + i - 1]
    BY <1>1, SubSeqProperties
  <2> HIDE DEF rest, n
  <2> QED
    BY <1>1, <2>1, <2>2
<1> HIDE DEF rest, n
<1>3. \A i, j \in 1 .. n : order[i] = order[j] => i = j
  BY DEF Exact, n
<1>4. \A i, j \in 1 .. n - x : rest[i] = rest[j] => i = j
  BY <1>1, <1>2, <1>3
<1>5. ASSUME NEW e \in cache PROVE \E i \in 1 .. n : order[i] = e.key
  <2>1. e.key \in {order[i] : i \in 1 .. n}
    BY DEF Exact, n
  <2> QED
    BY <2>1
<1>6. ASSUME NEW i \in 1 .. n PROVE \E e \in cache : order[i] = e.key
  <2>1. order[i] \in {e.key : e \in cache}
    BY DEF Exact, n
  <2> QED
    BY <2>1
<1>7. ASSUME NEW i \in 1 .. n - x PROVE rest[i] \in {e.key : e \in left}
  <2>1. PICK e \in cache : order[x + i] = e.key
    BY <1>1, <1>6
  <2>2. e.key \notin {order[j] : j \in 1 .. x}
    BY <1>1, <1>3, <2>1
  <2> QED
    BY <1>2, <2>1, <2>2
<1>8. ASSUME NEW e \in left PROVE e.key \in {rest[i] : i \in 1 .. n - x}
  <2>1. PICK j \in 1 .. n : order[j] = e.key
    BY <1>5
  <2>2. j \notin 1 .. x
    BY <2>1
  <2>3. j - x \in 1 .. n - x /\ x + (j - x) = j
    BY <1>1, <2>2
  <2>4. rest[j - x] = e.key
    BY <1>2, <2>1, <2>3
  <2> QED
    BY <2>3, <2>4
<1>9. {rest[i] : i \in 1 .. Len(rest)} = {e.key : e \in left}
  BY <1>2, <1>7, <1>8
<1>10. \A e, f \in left : e.key = f.key => e = f
  BY DEF Exact
<1> QED
  BY <1>2, <1>4, <1>9, <1>10 DEF Exact, rest, n

LEMMA MemoStep == CachesInv /\ MemoIsExact /\ [Next]_vars => MemoIsExact'
<1> SUFFICES ASSUME CachesInv, MemoIsExact, [Next]_vars PROVE MemoIsExact'
  OBVIOUS
<1>1. TypeOK /\ Exact(hoverOrder, hoverCache) /\ Len(hoverOrder) <= Capacity /\ Capacity \in Nat
  BY CachesAssumption DEF CachesInv, MemoIsExact, Exact
<1>2. CASE UNCHANGED <<hoverCache, hoverOrder>>
  BY <1>2 DEF MemoIsExact, Exact
<1>3. CASE hoverCache' = {} /\ hoverOrder' = <<>>
  BY <1>1, <1>3 DEF MemoIsExact, Exact
<1>4. ASSUME NEW r \in Requests, Insert(r), kind[r] = "hover" PROVE MemoIsExact'
  <2> DEFINE k == KeyOf(r)
             cache == Inserted(hoverCache, r)
             order == OrderAfter(k)
             excess == IF Len(order) > Capacity THEN Len(order) - Capacity ELSE 0
  <2>1. k \in Key /\ used[r] \in Nat
    BY <1>1, KeysAreKeys
  <2>2. order \in Seq(Key) /\ Len(order) \in Nat /\ Exact(order, cache)
    BY <1>1, <2>1, InsertedIsExact
  <2>3. /\ hoverOrder' = SubSeq(order, excess + 1, Len(order))
        /\ hoverCache' = {e \in cache : e.key \notin {order[i] : i \in 1 .. excess}}
    BY <1>4 DEF Insert, InsertPreview
  <2> HIDE DEF order, cache, k
  <2>4. excess \in 0 .. Len(order) /\ Len(order) - excess <= Capacity
    BY <1>1, <2>2
  <2> HIDE DEF excess
  <2>5. Len(hoverOrder') = Len(order) - excess /\ Exact(hoverOrder', hoverCache')
    BY <2>2, <2>3, <2>4, EvictedIsExact
  <2> QED
    BY <2>4, <2>5 DEF MemoIsExact, Exact
<1> QED
  BY <1>2, <1>3, <1>4, CachesStep DEF Insert

\* As many entries as keys: the queue counts them.
LEMMA MemoIsCounted == CachesInv /\ MemoIsExact => HoverMemoConsistent
<1> SUFFICES ASSUME CachesInv, MemoIsExact PROVE HoverMemoConsistent
  OBVIOUS
<1> DEFINE n == Len(hoverOrder)
           F == [i \in 1 .. n |-> CHOOSE e \in hoverCache : e.key = hoverOrder[i]]
<1>1. n \in Nat
  BY DEF CachesInv, TypeOK
<1>2. \A i \in 1 .. n : F[i] \in hoverCache /\ F[i].key = hoverOrder[i]
  BY DEF MemoIsExact, Exact
<1>3. F \in [1 .. n -> hoverCache]
  BY <1>2
<1>4. \A i, j \in 1 .. n : F[i] = F[j] => i = j
  <2>1. \A i, j \in 1 .. n : hoverOrder[i] = hoverOrder[j] => i = j
    BY DEF MemoIsExact, Exact
  <2> QED
    BY <1>2, <2>1
<1>5. \A e \in hoverCache : \E i \in 1 .. n : F[i] = e
  <2> SUFFICES ASSUME NEW e \in hoverCache PROVE \E i \in 1 .. n : F[i] = e
    OBVIOUS
  <2>1. PICK i \in 1 .. n : hoverOrder[i] = e.key
    BY DEF MemoIsExact, Exact
  <2> QED
    BY <1>2, <2>1 DEF MemoIsExact, Exact
<1> HIDE DEF F, n
<1>6. F \in Bijection(1 .. n, hoverCache)
  BY <1>3, <1>4, <1>5, Fun_IsBij
<1>7. ExistsBijection(1 .. n, hoverCache)
  BY <1>6, Fun_ExistsBij
<1>8. Cardinality(hoverCache) = n
  BY <1>1, <1>7, FS_CountingElements
<1> QED
  BY <1>8 DEF MemoIsExact, Exact, HoverMemoConsistent, n

\* The memo never outgrows its capacity, and its queue names its entries.
THEOREM HoverMemoIsExact == Spec => []HoverMemoConsistent
<1>1. Init => MemoIsExact
  <2> SUFFICES ASSUME Init PROVE MemoIsExact
    OBVIOUS
  <2>1. hoverOrder = <<>> /\ hoverCache = {} /\ Len(hoverOrder) = 0 /\ Capacity \in Nat
    BY CachesAssumption DEF Init
  <2> QED
    BY <2>1 DEF MemoIsExact, Exact
<1> QED
  BY <1>1, CachesInvInit, CachesInvStep, MemoStep, MemoIsCounted, PTL DEF Spec

-----------------------------------------------------------------------------
(* Models prepared in the background.                                        *)

\* A rebuild that changes nothing leaves nothing that is vouched for.
LEMMA QuietRebuild ==
    ASSUME CachesInv, NEW r \in Requests, ReplaceRoot(r), epoch' = epoch, dirty' # dirty
    PROVE  Offered' = {}
<1>1. /\ pc[r] = "replace" /\ UNCHANGED <<kind, used>>
      /\ simCache' = {[e EXCEPT !.vouched = FALSE] : e \in simCache}
      /\ vouched' = [q \in Requests |-> vouched[q] /\ ~HasClone(q)]
      /\ pc' = [pc EXCEPT ![r] = "rebuildClear"]
  <2>1. epoch \in Nat
    BY DEF CachesInv, TypeOK
  <2>2. epoch + 1 # epoch
    BY <2>1
  <2> QED
    BY <2>2, Zenon DEF ReplaceRoot, Leave, Goto, sessionVars
<1>2. pc \in [Requests -> Pc] /\ simCache \subseteq Entry
  BY DEF CachesInv, TypeOK
<1>3. \A e \in simCache' : ~e.vouched
  BY <1>1, <1>2 DEF Entry
<1>4. \A q \in Requests : ~(pc'[q] = "insert" /\ vouched'[q])
  BY <1>1, <1>2 DEF HasClone
<1> QED
  BY <1>3, <1>4 DEF Offered

\* What a step does to the session: an epoch stands for documents as long as
\* no root is dirty, a revision for all of it until a reset.
LEMMA SessionMoves ==
    ASSUME CachesInv, [Next]_vars
    PROVE  /\ roots <= roots' /\ epoch <= epoch'
           /\ roots' \in Nat /\ epoch' \in Nat /\ revision' \in Nat
           /\ \/ \A q \in Requests : ~vouched'[q]
              \/ revision <= revision' /\ (revision' = revision => roots' = roots /\ (dirty' => dirty))
           /\ epoch' = epoch => dirty' \/ Offered' = {} \/ (roots' = roots /\ ~dirty)
<1>1. roots \in Nat /\ epoch \in Nat /\ revision \in Nat /\ dirty \in BOOLEAN
  BY DEF CachesInv, TypeOK
<1>2. \/ UNCHANGED sessionVars
      \/ \E c \in Changers : ApplyChange(c) \/ ResetSession(c) \/ LoadDurable(c)
      \/ \E r \in Requests : LoadRoots(r) \/ RefreshLive(r) \/ ReplaceRoot(r)
  BY WhoChangesSession
<1>3. CASE UNCHANGED sessionVars
  BY <1>1, <1>3 DEF sessionVars
<1>4. ASSUME NEW c \in Changers, ApplyChange(c) \/ LoadDurable(c)
      PROVE  /\ roots <= roots' /\ epoch <= epoch' /\ revision <= revision'
             /\ roots' \in Nat /\ epoch' \in Nat /\ revision' \in Nat
             /\ revision' = revision => roots' = roots /\ (dirty' => dirty)
             /\ epoch' = epoch => dirty' \/ (roots' = roots /\ ~dirty)
  BY <1>1, <1>4 DEF ApplyChange, LoadDurable, sessionVars
<1>5. ASSUME NEW c \in Changers, ResetSession(c)
      PROVE  /\ roots' = roots + 1 /\ epoch' = epoch + 1 /\ revision' \in Nat
             /\ \A q \in Requests : ~vouched'[q]
  BY <1>5 DEF ResetSession
<1>6. ASSUME NEW r \in Requests, LoadRoots(r) \/ RefreshLive(r) \/ ReplaceRoot(r)
      PROVE  /\ roots <= roots' /\ epoch <= epoch' /\ revision <= revision'
             /\ roots' \in Nat /\ epoch' \in Nat /\ revision' \in Nat
             /\ revision' = revision => roots' = roots /\ (dirty' => dirty)
             /\ epoch' = epoch => dirty' \/ Offered' = {} \/ (roots' = roots /\ ~dirty)
  <2>1. /\ roots <= roots' /\ epoch <= epoch' /\ revision <= revision'
        /\ roots' \in Nat /\ epoch' \in Nat /\ revision' \in Nat
        /\ revision' = revision => roots' = roots /\ (dirty' => dirty)
        /\ epoch' = epoch => roots' = roots
    BY <1>1, <1>6 DEF LoadRoots, RefreshLive, ReplaceRoot, sessionVars
  <2>2. ASSUME epoch' = epoch, ~dirty', dirty PROVE Offered' = {}
    <3>1. dirty' # dirty
      BY <2>2, Zenon
    <3>2. epoch' # epoch + 1
      BY <1>1, <2>2
    <3>3. ReplaceRoot(r)
      BY <1>6, <3>1, <3>2, Zenon DEF LoadRoots, RefreshLive, sessionVars
    <3> QED
      BY <2>2, <3>1, <3>3, QuietRebuild
  <2> QED
    BY <2>1, <2>2
<1> QED
  BY <1>1, <1>2, <1>3, <1>4, <1>5, <1>6

LEMMA TokensStep == CachesInv /\ TokensArePast /\ [Next]_vars => TokensArePast'
<1> SUFFICES ASSUME CachesInv, TokensArePast, [Next]_vars, NEW q \in Requests, vouched'[q]
             PROVE  token'[q].revision <= revision'
  BY DEF TokensArePast
<1>1. /\ token \in [Requests -> [epoch : Nat, revision : Nat]]
      /\ vouched \in [Requests -> BOOLEAN] /\ kind \in [Requests -> Kind]
      /\ revision \in Nat /\ revision' \in Nat /\ revision <= revision'
  BY SessionMoves, Zenon DEF CachesInv, TypeOK
<1>2. \/ token' = token
      \/ \E r \in Requests : \/ token' = [token EXCEPT ![r] = NoToken]
                             \/ token' = [token EXCEPT ![r] = [epoch |-> mutationEpoch, revision |-> revision]]
                             \/ token' = [token EXCEPT ![r].revision = revision]
  BY RequestFieldsMove DEF TokenMove
<1>3. token'[q] = token[q] \/ token'[q].revision \in {0, revision}
  BY <1>1, <1>2 DEF NoToken
<1>4. CASE vouched[q]
  <2>1. token[q].revision \in Nat /\ token[q].revision <= revision
    BY <1>1, <1>4 DEF TokensArePast
  <2> QED
    BY <1>1, <1>3, <2>1
<1>5. CASE ~vouched[q]
  <2>1. TakeToken(q) \/ RefreshToken(q)
    BY <1>1, <1>5, VouchStep
  <2>2. token'[q].revision = revision
    BY <1>1, <2>1 DEF TakeToken, RefreshToken
  <2> QED
    BY <1>1, <2>2
<1> QED
  BY <1>4, <1>5

LEMMA SimulationsStep == CachesInv /\ SimulationsAreNot /\ [Next]_vars => SimulationsAreNot'
<1> SUFFICES ASSUME CachesInv, SimulationsAreNot, [Next]_vars, NEW q \in Requests, kind'[q] = "simulate"
             PROVE  ~vouched'[q]
  BY DEF SimulationsAreNot
<1>1. kind \in [Requests -> Kind] /\ vouched \in [Requests -> BOOLEAN]
  BY DEF CachesInv, TypeOK
<1>2. kind' = kind \/ \E r \in Requests : kind' = [kind EXCEPT ![r] = "prepare"]
  BY DEF Next, RequestStep, ChangerStep, vars, sessionVars, cacheVars, changerVars, jobVars, requestVars, TakeToken,
     LoadRoots, RequestClear, RefreshToken, CheckStale, AcquireLane, ReadDirty, RefreshLive, ReplaceRoot, ReadSources,
     CloneBase, ReadEpoch, Lookup, Compile, Insert, ReadStamp, WaitGet, WaitRegister, WaitRecheck, WaitWake, JobGet,
     JobInsert, JobNotify, JobRemove, ApplyChange, ReloadConfig, ResetSession, LoadDurable, ChangeClear, ChangeBump
<1>3. kind[q] = "simulate"
  BY <1>1, <1>2
<1> QED
  BY <1>1, <1>3, VouchStep DEF SimulationsAreNot

Early == {"load", "loadClear", "refresh", "check", "rebuild", "live", "replace", "done"}

Same(q) ==
    /\ pc'[q] = pc[q] /\ kind'[q] = kind[q] /\ vouched[q] /\ token'[q] = token[q]
    /\ context'[q] = context[q] /\ keyEpoch'[q] = keyEpoch[q] /\ used'[q] = used[q]

\* How a preparation moves on, from the session it has rebuilt to its model.
Advance(q) ==
    \/ pc[q] = "rebuild" /\ ~dirty /\ pc'[q] = "sources"
    \/ /\ token'[q] = token[q]
       /\ \/ pc[q] \in {"rebuildClear", "sources"} /\ pc'[q] \in {"sources", "base"}
          \/ pc[q] = "base" /\ pc'[q] = "recheck" /\ context'[q].roots = roots
          \/ /\ context'[q] = context[q]
             /\ \/ pc[q] = "recheck" /\ pc'[q] = "epoch" /\ Fresh(q)
                \/ pc[q] = "epoch" /\ pc'[q] = "lookup" /\ keyEpoch'[q] = epoch
                \/ /\ keyEpoch'[q] = keyEpoch[q]
                   /\ \/ pc[q] = "lookup" /\ pc'[q] = "compile"
                      \/ pc[q] = "compile" /\ pc'[q] = "confirm" /\ used'[q] = context[q].roots
                      \/ pc[q] = "confirm" /\ pc'[q] = "insert" /\ Fresh(q) /\ used'[q] = used[q]
    \/ /\ pc'[q] = "answered" /\ context'[q] = context[q]
       /\ \/ pc[q] = "lookup" /\ \E e \in simCache : e.vouched /\ e.key = KeyOf(q) /\ used'[q] = e.roots
          \/ pc[q] = "insert" /\ used'[q] = used[q]

Moves(q) ==
    \/ Same(q)
    \/ pc'[q] \in Early
    \/ pc'[q] = "rebuildClear" /\ ~dirty'
    \/ Prepares(q) /\ UNCHANGED sessionVars /\ Advance(q)

\* What a preparation never does: wait for a job, or start one.
PreparedPc ==
    {"token", "load", "loadClear", "refresh", "check", "rebuild", "live", "replace", "rebuildClear", "sources",
     "base", "recheck", "epoch", "lookup", "compile", "confirm", "insert", "answered", "done"}

LEMMA PreparationPc ==
    ASSUME PcFitsKind, NEW q \in Requests, kind[q] = "prepare"
    PROVE  pc[q] \in PreparedPc
BY DEF PcFitsKind, Steps, PreparedPc

WaitsOrAsks(r) == ReadStamp(r) \/ WaitGet(r) \/ WaitRegister(r) \/ WaitRecheck(r) \/ WaitWake(r) \/ JobGet(r)

LEMMA WaitersAreOthers ==
    ASSUME TypeOK, PcFitsKind, NEW q \in Requests, NEW r \in Requests, WaitsOrAsks(r), Prepares(q)'
    PROVE  Same(q)
<1>1. /\ pc \in [Requests -> Pc] /\ token \in [Requests -> [epoch : Nat, revision : Nat]]
      /\ context \in [Requests -> [local : Nat, roots : Nat]] /\ keyEpoch \in [Requests -> Nat]
  BY DEF TypeOK
<1>2. pc[r] \notin PreparedPc /\ kind' = kind /\ used' = used /\ vouched' = vouched
  BY DEF WaitsOrAsks, ReadStamp, WaitGet, WaitRegister, WaitRecheck, WaitWake, JobGet, PreparedPc
<1>3. q # r /\ vouched[q]
  BY <1>2, PreparationPc DEF Prepares
<1>4. CASE JobGet(r)
  BY <1>1, <1>2, <1>3, <1>4 DEF JobGet, Leave, Goto, Same
<1>5. CASE ~JobGet(r)
  <2>1. (\E l : pc' = [pc EXCEPT ![r] = l]) /\ UNCHANGED <<token, context, keyEpoch>>
    BY <1>5 DEF WaitsOrAsks, ReadStamp, WaitGet, WaitRegister, WaitRecheck, WaitWake, Goto, jobVars
  <2>2. pc'[q] = pc[q]
    BY <1>1, <1>3, <2>1
  <2> QED
    BY <1>2, <1>3, <2>1, <2>2 DEF Same
<1> QED
  BY <1>4, <1>5

LEMMA PrepareMoves ==
    ASSUME CachesInv, [Next]_vars, NEW q \in Requests, Prepares(q)'
    PROVE  Moves(q)
<1>1. /\ pc \in [Requests -> Pc] /\ kind \in [Requests -> Kind]
      /\ token \in [Requests -> [epoch : Nat, revision : Nat]]
      /\ context \in [Requests -> [local : Nat, roots : Nat]]
      /\ keyEpoch \in [Requests -> Nat] /\ used \in [Requests -> Nat]
      /\ vouched \in [Requests -> BOOLEAN]
      /\ pc[q] \in Steps[kind[q]]
  BY DEF CachesInv, TypeOK, PcFitsKind
<1>0. PcFitsKind
  BY DEF CachesInv
<1> USE DEF Goto, Moves, Same, Advance, Early, Fresh, Prepares, Vouch, requestVars, jobVars
<1>2. ASSUME NEW r \in Requests, TakeToken(r) PROVE Moves(q)
  BY <1>1, <1>2 DEF TakeToken, AfterToken
<1>3. ASSUME NEW r \in Requests, LoadRoots(r) PROVE Moves(q)
  BY <1>1, <1>3 DEF LoadRoots
<1>4. ASSUME NEW r \in Requests, RequestClear(r) PROVE Moves(q)
  BY <1>1, <1>4 DEF RequestClear, ClearCaches
<1>5. ASSUME NEW r \in Requests, RefreshToken(r) PROVE Moves(q)
  BY <1>1, <1>5 DEF RefreshToken
<1>6. ASSUME NEW r \in Requests, CheckStale(r) PROVE Moves(q)
  <2>1. /\ kind' = kind /\ vouched' = vouched /\ UNCHANGED sessionVars
        /\ q # r \/ ~IsStale(q) => used'[q] = used[q]
    BY <1>1, <1>6 DEF CheckStale, AfterFresh, AfterCheck
  <2>2. CASE q # r
    BY <1>1, <1>6, <2>1, <2>2 DEF CheckStale, Leave
  <2>3. CASE q = r
    <3>1. pc[q] \in {"check", "recheck", "confirm"} /\ kind[q] = "prepare"
      <4>1. kind[q] = "prepare" /\ pc[q] \in {"precheck", "check", "recheck", "confirm", "result"}
        BY <1>6, <2>1, <2>3 DEF CheckStale
      <4> QED
        BY <1>0, <4>1, PreparationPc DEF PreparedPc
    <3>2. AfterFresh(q) \in {"rebuild", "epoch", "insert"}
      BY <3>1 DEF AfterFresh, AfterCheck
    <3>3. CASE IsStale(q)
      <4>1. pc'[q] = "done"
        BY <1>1, <1>6, <2>3, <3>3 DEF CheckStale, Leave
      <4> QED
        BY <4>1
    <3>4. CASE ~IsStale(q)
      <4>1. Leave(q, AfterFresh(q))
        BY <1>6, <2>3, <3>4 DEF CheckStale
      <4>2. pc'[q] = AfterFresh(q) /\ token' = token /\ context' = context /\ keyEpoch' = keyEpoch
        BY <1>1, <3>2, <4>1 DEF Leave, Ended
      <4>3. Fresh(q)
        BY <3>4 DEF IsStale
      <4> QED
        BY <2>1, <2>3, <3>1, <3>4, <4>2, <4>3 DEF AfterFresh, AfterCheck
    <3> QED
      BY <3>3, <3>4
  <2> QED
    BY <2>2, <2>3
<1>7. ASSUME NEW r \in Requests, AcquireLane(r) PROVE Moves(q)
  BY <1>1, <1>7 DEF AcquireLane, AfterLane
<1>8. ASSUME NEW r \in Requests, ReadDirty(r) PROVE Moves(q)
  BY <1>1, <1>8 DEF ReadDirty, sessionVars
<1>28. ASSUME NEW r \in Requests, RefreshLive(r) PROVE Moves(q)
  BY <1>1, <1>28 DEF RefreshLive, sessionVars
<1>29. ASSUME NEW r \in Requests, ReplaceRoot(r) PROVE Moves(q)
  BY <1>1, <1>29 DEF ReplaceRoot, sessionVars, Leave, Ended, LaneWithout
<1>9. ASSUME NEW r \in Requests, ReadSources(r) PROVE Moves(q)
  BY <1>1, <1>9 DEF ReadSources
<1>10. ASSUME NEW r \in Requests, CloneBase(r) PROVE Moves(q)
  BY <1>1, <1>10 DEF CloneBase, AfterBase
<1>11. ASSUME NEW r \in Requests, ReadEpoch(r) PROVE Moves(q)
  BY <1>1, <1>11 DEF ReadEpoch
<1>12. ASSUME NEW r \in Requests, Lookup(r) PROVE Moves(q)
  <2>1. kind' = kind /\ UNCHANGED sessionVars
    BY <1>12 DEF Lookup
  <2>2. CASE q # r
    BY <1>1, <1>12, <2>1, <2>2 DEF Lookup, Leave
  <2>3. CASE q = r
    <3>1. pc[q] = "lookup" /\ kind[q] = "prepare" /\ Hits(q) = {e \in simCache : e.key = KeyOf(q)}
      <4>1. kind[q] = "prepare" /\ pc[q] \in {"lookup", "relookup"}
        BY <1>12, <2>1, <2>3 DEF Lookup
      <4> QED
        BY <1>0, <4>1, PreparationPc DEF PreparedPc, Hits, Cache
    <3>2. ASSUME NEW e \in Hits(q), used' = [used EXCEPT ![q] = e.roots], Leave(q, "answered"),
                 vouched' = [vouched EXCEPT ![q] = vouched[q] /\ e.vouched]
          PROVE  Moves(q)
      <4>1. pc'[q] = "answered" /\ context' = context /\ used'[q] = e.roots
        BY <1>1, <3>2 DEF Leave
      <4>2. vouched[q] /\ e.vouched
        BY <1>1, <3>2
      <4> QED
        BY <2>1, <3>1, <4>1, <4>2
    <3>3. ASSUME Leave(q, "compile"), vouched' = vouched PROVE Moves(q)
      <4>1. pc'[q] = "compile" /\ context' = context /\ token' = token /\ keyEpoch' = keyEpoch
        BY <1>1, <3>3 DEF Leave, Ended
      <4> QED
        BY <2>1, <3>1, <3>3, <4>1
    <3> HIDE DEF Moves
    <3> QED
      BY <1>12, <2>3, <3>1, <3>2, <3>3 DEF Lookup, AfterResult, AfterMiss
  <2> QED
    BY <2>2, <2>3
<1>13. ASSUME NEW r \in Requests, Compile(r) PROVE Moves(q)
  BY <1>1, <1>13 DEF Compile, Leave, AfterCompile, Ended, LaneWithout
<1>14. ASSUME NEW r \in Requests, Insert(r) PROVE Moves(q)
  BY <1>1, <1>14 DEF Insert, Leave, AfterResult, Ended, LaneAfterModel, LaneWithout
<1>15. ASSUME NEW r \in Requests, WaitsOrAsks(r) PROVE Moves(q)
  <2> HIDE DEF Same
  <2>1. Same(q)
    BY <1>15, WaitersAreOthers DEF CachesInv
  <2> QED
    BY <2>1
<1>21. ASSUME NEW r \in Requests, JobInsert(r) PROVE Moves(q)
  BY <1>1, <1>21 DEF JobInsert
<1>22. ASSUME NEW r \in Requests, JobNotify(r) PROVE Moves(q)
  BY <1>1, <1>22 DEF JobNotify
<1>23. ASSUME NEW r \in Requests, JobRemove(r) PROVE Moves(q)
  BY <1>1, <1>23 DEF JobRemove, RegisteredAfter
<1>24. ASSUME NEW c \in Changers, ApplyChange(c) PROVE Moves(q)
  BY <1>1, <1>24 DEF ApplyChange
<1>30. ASSUME NEW c \in Changers, ReloadConfig(c) PROVE Moves(q)
  BY <1>1, <1>30 DEF ReloadConfig
<1>31. ASSUME NEW c \in Changers, ResetSession(c) PROVE Moves(q)
  BY <1>1, <1>31 DEF ResetSession
<1>32. ASSUME NEW c \in Changers, LoadDurable(c) PROVE Moves(q)
  BY <1>1, <1>32 DEF LoadDurable
<1>25. ASSUME NEW c \in Changers, ChangeClear(c) PROVE Moves(q)
  BY <1>1, <1>25 DEF ChangeClear
<1>26. ASSUME NEW c \in Changers, ChangeBump(c) PROVE Moves(q)
  BY <1>1, <1>26 DEF ChangeBump
<1>27. CASE UNCHANGED vars
  BY <1>1, <1>27 DEF vars
<1> QED
  BY <1>2, <1>3, <1>4, <1>5, <1>6, <1>7, <1>8, <1>9, <1>10, <1>11, <1>12, <1>13, <1>14, <1>15,
     <1>21, <1>22, <1>23, <1>24, <1>25, <1>26, <1>27,
     <1>28, <1>29, <1>30, <1>31, <1>32 DEF Next, RequestStep, ChangerStep, WaitsOrAsks

\* A model is offered by a preparation that has just found its token current.
LEMMA OfferedMoves ==
    ASSUME PreparedInv, [Next]_vars, NEW e \in Offered'
    PROVE  \/ e \in Offered
           \/ \E q \in Requests : /\ Prepares(q) /\ pc[q] = "confirm" /\ Fresh(q)
                                  /\ e.key.epoch = keyEpoch[q] /\ e.roots = used[q]
                                  /\ UNCHANGED sessionVars
<1>1. CachesInv /\ TypeOK /\ SimulationsAreNot
  BY DEF PreparedInv, CachesInv
<1>2. CASE e \in simCache' /\ e.vouched
  <2>1. CASE e \in simCache
    BY <1>2, <2>1 DEF Offered
  <2>2. ASSUME NEW r \in Requests, Insert(r), e \notin simCache PROVE e \in Offered
    <3>1. /\ pc[r] = "insert" /\ kind[r] # "hover"
          /\ e = [key |-> KeyOf(r), roots |-> used[r], vouched |-> vouched[r]]
      BY <1>2, <2>2 DEF Insert, InsertPreview, Inserted
    <3>2. vouched[r] /\ e = OfferOf(r)
      BY <1>1, <1>2, <3>1 DEF TypeOK, OfferOf
    <3>3. kind[r] \in Kind /\ pc[r] \in Steps[kind[r]] /\ kind[r] # "simulate"
      BY <1>1, <3>2 DEF CachesInv, TypeOK, PcFitsKind, SimulationsAreNot
    <3>4. kind[r] = "prepare"
      BY <3>1, <3>3 DEF Kind, Steps
    <3> QED
      BY <3>1, <3>2, <3>4 DEF Offered
  <2>3. ASSUME simCache' = {[d EXCEPT !.vouched = FALSE] : d \in simCache} PROVE FALSE
    <3>1. PICK d \in simCache : e = [d EXCEPT !.vouched = FALSE]
      BY <1>2, <2>3
    <3>2. d \in Entry
      BY <1>1 DEF TypeOK
    <3> QED
      BY <1>2, <3>1, <3>2 DEF Entry
  <2> QED
    BY <1>2, <2>1, <2>2, <2>3, CachesStep
<1>3. CASE ~(e \in simCache' /\ e.vouched)
  <2>1. PICK q \in Requests : kind'[q] = "prepare" /\ pc'[q] = "insert" /\ vouched'[q] /\ e = OfferOf(q)'
    BY <1>3 DEF Offered
  <2>2. Moves(q)
    BY <1>1, <2>1, PrepareMoves DEF Prepares
  <2>3. CASE Same(q)
    BY <2>1, <2>3 DEF Same, Offered, OfferOf, KeyOf
  <2>4. CASE ~Same(q)
    <3>1. /\ Prepares(q) /\ pc[q] = "confirm" /\ Fresh(q) /\ UNCHANGED sessionVars
          /\ keyEpoch'[q] = keyEpoch[q] /\ used'[q] = used[q]
      BY <2>1, <2>2, <2>4 DEF Moves, Early, Advance
    <3>2. e.key.epoch = keyEpoch'[q] /\ e.roots = used'[q]
      BY <2>1 DEF OfferOf, KeyOf
    <3> QED
      BY <3>1, <3>2
  <2> QED
    BY <2>3, <2>4
<1> QED
  BY <1>2, <1>3

\* The numbers of what is offered.
LEMMA OfferedTypes ==
    ASSUME TypeOK, NEW e \in Offered
    PROVE  e.key.epoch \in Nat /\ e.roots \in Nat
<1>1. e \in Entry
  <2>1. e \in simCache \/ \E r \in Requests : e = OfferOf(r)
    BY DEF Offered
  <2>2. simCache \subseteq Entry
    BY DEF TypeOK
  <2>3. \A r \in Requests : OfferOf(r) \in Entry
    BY KeysAreKeys DEF OfferOf
  <2> QED
    BY <2>1, <2>2, <2>3
<1> QED
  BY <1>1 DEF Entry, Key

LEMMA RequestTypes ==
    ASSUME TypeOK, NEW r \in Requests
    PROVE  context[r].roots \in Nat /\ keyEpoch[r] \in Nat /\ used[r] \in Nat /\ token[r].revision \in Nat
  BY DEF TypeOK

\* What a step adds to what is offered is compiled from the documents of the session.
LEMMA NewOffers ==
    ASSUME PreparedInv, [Next]_vars, NEW e \in Offered', e \notin Offered
    PROVE  e.roots = roots /\ e.key.epoch <= epoch /\ UNCHANGED sessionVars
<1>1. PICK q \in Requests : /\ Prepares(q) /\ pc[q] = "confirm" /\ Fresh(q)
                            /\ e.key.epoch = keyEpoch[q] /\ e.roots = used[q]
                            /\ UNCHANGED sessionVars
  BY OfferedMoves
<1>2. context[q].roots = roots
  BY <1>1 DEF PreparedInv, PreparesCurrent
<1>3. used[q] = context[q].roots /\ keyEpoch[q] <= epoch
  BY <1>1 DEF PreparedInv, NothingOlderOffered
<1> QED
  BY <1>1, <1>2, <1>3

LEMMA OffersStep == PreparedInv /\ [Next]_vars => OffersAreCurrent'
<1> SUFFICES ASSUME PreparedInv, [Next]_vars, NEW e \in Offered'
             PROVE  /\ e.key.epoch <= epoch' /\ e.roots <= roots'
                    /\ e.key.epoch = epoch' /\ ~dirty' => e.roots = roots'
  BY DEF OffersAreCurrent
<1>1. CachesInv /\ TypeOK /\ roots \in Nat /\ epoch \in Nat
  BY DEF PreparedInv, CachesInv, TypeOK
<1>2. CASE e \in Offered
  <2>1. /\ e.key.epoch <= epoch /\ e.roots <= roots
        /\ e.key.epoch = epoch /\ ~dirty => e.roots = roots
    BY <1>2 DEF PreparedInv, OffersAreCurrent
  <2>2. e.key.epoch \in Nat /\ e.roots \in Nat
    BY <1>1, <1>2, OfferedTypes
  <2>3. /\ roots <= roots' /\ epoch <= epoch' /\ roots' \in Nat /\ epoch' \in Nat
        /\ epoch' = epoch => dirty' \/ (roots' = roots /\ ~dirty)
    BY <1>1, SessionMoves
  <2> QED
    BY <1>1, <2>1, <2>2, <2>3
<1>3. CASE e \notin Offered
  <2>1. e.roots = roots /\ e.key.epoch <= epoch /\ roots' = roots /\ epoch' = epoch
    BY <1>3, NewOffers DEF sessionVars
  <2> QED
    BY <1>1, <2>1
<1> QED
  BY <1>2, <1>3

LEMMA CurrentStep == PreparedInv /\ [Next]_vars => PreparesCurrent'
<1> SUFFICES ASSUME PreparedInv, [Next]_vars, NEW q \in Requests, Prepares(q)', token'[q].revision = revision'
             PROVE  /\ pc'[q] \in {"rebuildClear", "sources", "base", "recheck"} => ~dirty'
                    /\ pc'[q] \in {"recheck", "epoch", "lookup", "compile", "confirm"} => context'[q].roots = roots'
  BY DEF PreparesCurrent, Fresh
<1>1. CachesInv /\ TypeOK /\ Moves(q)
  BY PrepareMoves DEF PreparedInv, CachesInv
<1>2. /\ revision \in Nat /\ revision' \in Nat /\ revision <= revision'
      /\ revision' = revision => roots' = roots /\ (dirty' => dirty)
  <2>1. vouched'[q]
    BY DEF Prepares
  <2> QED
    BY <1>1, <2>1, SessionMoves DEF TypeOK
<1>3. Prepares(q) /\ Fresh(q) =>
        /\ pc[q] \in {"rebuildClear", "sources", "base", "recheck"} => ~dirty
        /\ pc[q] \in {"recheck", "epoch", "lookup", "compile", "confirm"} => context[q].roots = roots
  BY DEF PreparedInv, PreparesCurrent
<1>4. CASE Same(q)
  <2>1. Prepares(q) /\ token[q].revision = revision'
    BY <1>4 DEF Same, Prepares
  <2>2. token[q].revision <= revision /\ token[q].revision \in Nat
    BY <1>1, <2>1, RequestTypes DEF PreparedInv, TokensArePast, Prepares
  <2>3. Fresh(q) /\ revision' = revision
    BY <1>2, <2>1, <2>2 DEF Fresh
  <2> QED
    BY <1>2, <1>3, <1>4, <2>1, <2>3 DEF Same
<1>5. CASE pc'[q] \in Early
  BY <1>5 DEF Early
<1>6. CASE pc'[q] = "rebuildClear" /\ ~dirty'
  BY <1>6
<1>7. CASE Prepares(q) /\ UNCHANGED sessionVars /\ Advance(q)
  BY <1>3, <1>7 DEF Advance, Fresh, sessionVars
<1> QED
  BY <1>1, <1>4, <1>5, <1>6, <1>7 DEF Moves

LEMMA OlderStep == PreparedInv /\ [Next]_vars => NothingOlderOffered' /\ PreparedHitIsNotOlder'
<1> SUFFICES ASSUME PreparedInv, [Next]_vars, NEW q \in Requests, Prepares(q)'
             PROVE  /\ pc'[q] \in {"recheck", "epoch", "lookup", "compile", "confirm", "insert"}
                          => context'[q].roots <= roots'
                    /\ pc'[q] \in {"lookup", "compile", "confirm", "insert"} => keyEpoch'[q] <= epoch'
                    /\ pc'[q] = "epoch" => \A e \in Offered' : e.key.epoch = epoch' => e.roots >= context'[q].roots
                    /\ pc'[q] = "lookup" => \A e \in Offered' :
                          e.key.epoch = keyEpoch'[q] => e.roots >= context'[q].roots
                    /\ pc'[q] \in {"confirm", "insert"} => used'[q] = context'[q].roots
                    /\ pc'[q] = "answered" => used'[q] >= context'[q].roots
  BY DEF NothingOlderOffered, PreparedHitIsNotOlder, Prepares
<1>1. CachesInv /\ TypeOK /\ Moves(q)
  BY PrepareMoves DEF PreparedInv, CachesInv
<1>2. /\ roots \in Nat /\ epoch \in Nat /\ roots' \in Nat /\ epoch' \in Nat
      /\ roots <= roots' /\ epoch <= epoch'
      /\ context[q].roots \in Nat /\ keyEpoch[q] \in Nat /\ used[q] \in Nat
  BY <1>1, SessionMoves, RequestTypes DEF TypeOK
<1>3. Prepares(q) =>
        /\ pc[q] \in {"recheck", "epoch", "lookup", "compile", "confirm", "insert"} => context[q].roots <= roots
        /\ pc[q] \in {"lookup", "compile", "confirm", "insert"} => keyEpoch[q] <= epoch
        /\ pc[q] = "epoch" => \A e \in Offered : e.key.epoch = epoch => e.roots >= context[q].roots
        /\ pc[q] = "lookup" => \A e \in Offered : e.key.epoch = keyEpoch[q] => e.roots >= context[q].roots
        /\ pc[q] \in {"confirm", "insert"} => used[q] = context[q].roots
        /\ pc[q] = "answered" => used[q] >= context[q].roots
  BY DEF PreparedInv, NothingOlderOffered, PreparedHitIsNotOlder, Prepares
\* What is offered stays at or behind the session, and what is new is at it.
<1>4. ASSUME NEW e \in Offered'
      PROVE  \/ e \in Offered /\ e.key.epoch \in Nat /\ e.key.epoch <= epoch
             \/ e.roots = roots /\ roots' = roots /\ epoch' = epoch
  BY <1>1, NewOffers, OfferedTypes DEF PreparedInv, OffersAreCurrent, sessionVars
<1>5. CASE Same(q)
  <2>1. Prepares(q)
    BY <1>5 DEF Same, Prepares
  <2>2. pc'[q] = "epoch" => \A e \in Offered' : e.key.epoch = epoch' => e.roots >= context'[q].roots
    BY <1>2, <1>3, <1>4, <1>5, <2>1 DEF Same
  <2>3. pc'[q] = "lookup" => \A e \in Offered' : e.key.epoch = keyEpoch'[q] => e.roots >= context'[q].roots
    BY <1>2, <1>3, <1>4, <1>5, <2>1 DEF Same
  <2> QED
    BY <1>2, <1>3, <1>5, <2>1, <2>2, <2>3 DEF Same
<1>6. CASE pc'[q] \in Early \/ pc'[q] = "rebuildClear"
  BY <1>6 DEF Early
<1>7. CASE Prepares(q) /\ UNCHANGED sessionVars /\ Advance(q)
  <2>1. roots' = roots /\ epoch' = epoch
    BY <1>7 DEF sessionVars
  <2>2. /\ pc'[q] \in {"recheck", "epoch", "lookup", "compile", "confirm", "insert"}
                          => context'[q].roots <= roots'
        /\ pc'[q] \in {"lookup", "compile", "confirm", "insert"} => keyEpoch'[q] <= epoch'
        /\ pc'[q] \in {"confirm", "insert"} => used'[q] = context'[q].roots
    BY <1>2, <1>3, <1>7, <2>1 DEF Advance
  <2>3. ASSUME pc'[q] = "epoch", NEW e \in Offered', e.key.epoch = epoch' PROVE e.roots >= context'[q].roots
    <3>1. pc[q] = "recheck" /\ Fresh(q) /\ context'[q] = context[q]
      BY <1>7, <2>3 DEF Advance
    <3>2. ~dirty /\ context[q].roots = roots
      BY <1>7, <3>1 DEF PreparedInv, PreparesCurrent
    <3>3. e \in Offered => e.roots = roots
      BY <2>1, <2>3, <3>2 DEF PreparedInv, OffersAreCurrent
    <3> QED
      BY <1>2, <1>4, <2>3, <3>1, <3>2, <3>3
  <2>4. ASSUME pc'[q] = "lookup", NEW e \in Offered', e.key.epoch = keyEpoch'[q] PROVE e.roots >= context'[q].roots
    <3>1. pc[q] = "epoch" /\ keyEpoch'[q] = epoch /\ context'[q] = context[q]
      BY <1>7, <2>4 DEF Advance
    <3>2. context[q].roots <= roots /\ (e \in Offered => e.roots >= context[q].roots)
      BY <1>3, <1>7, <2>4, <3>1
    <3> QED
      BY <1>2, <1>4, <2>4, <3>1, <3>2
  <2>5. ASSUME pc'[q] = "answered" PROVE used'[q] >= context'[q].roots
    <3>1. CASE pc[q] = "lookup"
      <4>1. PICK e \in simCache : e.vouched /\ e.key = KeyOf(q) /\ used'[q] = e.roots
        BY <1>7, <2>5, <3>1 DEF Advance
      <4>2. e \in Offered /\ e.key.epoch = keyEpoch[q] /\ context'[q] = context[q]
        BY <1>7, <2>5, <3>1, <4>1 DEF Advance, Offered, KeyOf
      <4> QED
        BY <1>3, <1>7, <3>1, <4>1, <4>2
    <3>2. CASE pc[q] # "lookup"
      BY <1>2, <1>3, <1>7, <2>5, <3>2 DEF Advance
    <3> QED
      BY <3>1, <3>2
  <2> QED
    BY <2>2, <2>3, <2>4, <2>5
<1> QED
  BY <1>1, <1>5, <1>6, <1>7 DEF Moves

LEMMA PreparedInvStep == PreparedInv /\ [Next]_vars => PreparedInv'
<1> SUFFICES ASSUME PreparedInv, [Next]_vars PROVE PreparedInv'
  OBVIOUS
<1>1. CachesInv' /\ TokensArePast' /\ SimulationsAreNot'
  BY CachesInvStep, TokensStep, SimulationsStep DEF PreparedInv
<1> QED
  BY <1>1, OffersStep, CurrentStep, OlderStep DEF PreparedInv

LEMMA PreparedInvInit == Init => PreparedInv
<1> SUFFICES ASSUME Init PROVE PreparedInv
  OBVIOUS
<1>1. CachesInv /\ \A r \in Requests : ~vouched[r]
  BY CachesInvInit DEF Init
<1>2. Offered = {}
  BY <1>1 DEF Init, Offered
<1> QED
  BY <1>1, <1>2
     DEF PreparedInv, TokensArePast, SimulationsAreNot, OffersAreCurrent, PreparesCurrent, NothingOlderOffered,
         PreparedHitIsNotOlder, Prepares

\* As many requests, edits, loads and reloads as there may be, a preparation
\* never ends with a model older than the documents it has cloned, whether it
\* compiled the model or found it: the token it tests between the clone and the
\* insert, and the epoch it reads under that token, are enough.  Vouched for are
\* preparations whose revision no reset has restarted and which no rebuild that
\* changed nothing met; simulations run among them, but what they insert is not.
THEOREM PreparationsAreCurrent == Spec => []PreparedHitIsNotOlder
<1>1. PreparedInv => PreparedHitIsNotOlder
  BY DEF PreparedInv
<1> QED
  BY <1>1, PreparedInvInit, PreparedInvStep, PTL DEF Spec

=============================================================================
