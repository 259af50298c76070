-------------------------- MODULE ModelWorkersProofs --------------------------
(***************************************************************************)
(* Proofs about the worker pool, for any number of queue threads, any list  *)
(* of models, any token budget and any number of faults.                    *)
(***************************************************************************)
EXTENDS ModelWorkers, FiniteSetTheorems, TLAPS

\* The places where a thread has a model in hand.
Serving == {"permit", "spawn", "ready", "readyExit", "prepare", "send",
            "poll", "recv", "exit", "finish"}
Waiting == {"poll", "recv", "exit"}

\* The threads that have found the list empty.
Ended == {q \in Queues : pc[q] \in {"shutdown", "join", "done"}}

\* The counter passes the end of the list once for each of them.
ClaimsCounted == next <= ModelCount + 1 + Cardinality(Ended)

\* A thread has a model in hand exactly while it serves one, and claimed it.
ModelIsClaimed ==
    \A q \in Queues : model[q] < next /\ (model[q] # 0 <=> pc[q] \in Serving)

ClaimsDiffer ==
    \A q, r \in Queues : q # r /\ model[q] = model[r] => model[q] = 0

\* A thread asks for its permit once and keeps it as long as it serves.
PermitFollowsPc ==
    \A q \in Queues : /\ pc[q] = "permit" => ~permit[q]
                      /\ pc[q] \in Serving \ {"permit"} => permit[q]

NoResult(s) == \A i \in 1 .. Len(s) : s[i].kind # "result"

\* There is one result at most, and it is for model m.
OneResult(s, m) ==
    \A i \in 1 .. Len(s) : s[i].kind = "result" =>
        s[i].of = m /\ \A j \in 1 .. Len(s) : s[j].kind = "result" => j = i

\* The daemon has nothing to do and no result of it is on its way.
AtRest(q) ==
    /\ job[q] = 0 /\ inbox[q] \in {0, Shutdown} /\ child[q] \notin Busy
    /\ NoResult(received[q]) /\ NoResult(pipe[q])

\* The daemon has the request in its inbox, works on it, has answered it or
\* has exited, and has answered at most once.
Asked(q) ==
    /\ job[q] \in {0, model[q]} /\ inbox[q] \in {0, model[q]}
    /\ child[q] \in Busy => job[q] = model[q] /\ inbox[q] = 0
    /\ OneResult(received[q], model[q]) /\ OneResult(pipe[q], model[q])
    /\ NoResult(received[q]) \/ NoResult(pipe[q])
    /\ ~NoResult(received[q]) \/ ~NoResult(pipe[q])
          => job[q] = 0 /\ inbox[q] = 0 /\ child[q] \notin Busy

\* What a thread may find of its daemon depends on where it is.
InStep(q) ==
    /\ pc[q] \notin Waiting \union {"finish"} => AtRest(q)
    /\ pc[q] \in Waiting => Asked(q)
    /\ pc[q] = "finish" => outcome[q].of = model[q] /\ (outcome[q].kind = "answer" => AtRest(q))

DaemonFollowsRequest == \A q \in Queues : InStep(q)

\* The files of an older run are gone once the request is prepared.
FilesAreNew ==
    \A q \in Queues : pc[q] \in Waiting \union {"send", "finish"} => partial[model[q]] # "old"

ClaimInv == TypeOK /\ ClaimsCounted /\ ModelIsClaimed /\ ClaimsDiffer

-----------------------------------------------------------------------------
(* Types and claims.                                                         *)

LEMMA EndedFinite ==
    /\ IsFiniteSet(Ended) /\ Cardinality(Ended) \in Nat /\ Cardinality(Ended) <= Cardinality(Queues)
    /\ Cardinality(Queues) \in Nat
BY FS_Subset, FS_CardinalityType, WorkersAssumption DEF Ended

LEMMA InitClaimInv == Init => ClaimInv
<1> SUFFICES ASSUME Init PROVE ClaimInv
  OBVIOUS
<1>1. TypeOK
  BY EndedFinite, WorkersAssumption DEF Init, TypeOK, Pc, Phase, Stage, Codes, Run, Outcome
<1>2. ClaimsCounted
  BY EndedFinite, WorkersAssumption DEF Init, ClaimsCounted
<1>3. ModelIsClaimed /\ ClaimsDiffer
  BY DEF Init, ModelIsClaimed, ClaimsDiffer, Serving
<1> QED
  BY <1>1, <1>2, <1>3 DEF ClaimInv

\* A step changes the counter only by a claim, and the threads that have ended
\* only by a claim past the end of the list.
LEMMA CountStep == ClaimInv /\ [Next]_vars => ClaimsCounted'
<1> SUFFICES ASSUME ClaimInv, [Next]_vars PROVE ClaimsCounted'
  OBVIOUS
<1> USE DEF ClaimInv, TypeOK, Goto
<1>1. IsFiniteSet(Ended') /\ Cardinality(Ended') \in Nat
  BY FS_Subset, FS_CardinalityType, WorkersAssumption DEF Ended
<1>2. ASSUME NEW q \in Queues, Claim(q) PROVE ClaimsCounted'
  <2>1. CASE next \in Models
    BY <1>1, <1>2, <2>1, WorkersAssumption DEF Claim, ClaimsCounted, Models
  <2>2. CASE next \notin Models
    <3>1. Ended' = Ended \union {q} /\ q \notin Ended
      BY <1>2, <2>2 DEF Claim, AfterLast, Ended
    <3>2. Cardinality(Ended') = Cardinality(Ended) + 1
      BY <3>1, EndedFinite, FS_AddElement
    <3> QED
      BY <1>2, <3>2, EndedFinite, WorkersAssumption, SMTT(20) DEF Claim, ClaimsCounted
  <2> QED
    BY <2>1, <2>2
<1>3. SUFFICES ASSUME \A q \in Queues : ~Claim(q) PROVE next' = next /\ Ended' = Ended
  BY <1>2 DEF ClaimsCounted
<1>4. ASSUME NEW q \in Queues, AcquirePermit(q) PROVE next' = next /\ Ended' = Ended
  BY <1>4 DEF AcquirePermit, Ended, listVars
<1>5. ASSUME NEW q \in Queues, Spawn(q) PROVE next' = next /\ Ended' = Ended
  BY <1>5 DEF Spawn, SendRow, FailureRow, Fail, Ended, listVars
<1>6. ASSUME NEW q \in Queues, ReadyRecv(q) PROVE next' = next /\ Ended' = Ended
  BY <1>6 DEF ReadyRecv, SpawnFailed, DropWorker, SendRow, FailureRow, Ended, listVars
<1>7. ASSUME NEW q \in Queues, ReadyExit(q) PROVE next' = next /\ Ended' = Ended
  BY <1>7 DEF ReadyExit, SpawnFailed, DropWorker, SendRow, FailureRow, Ended, listVars
<1>8. ASSUME NEW q \in Queues, Prepare(q) PROVE next' = next /\ Ended' = Ended
  BY <1>8 DEF Prepare, Cleared, SendRow, FailureRow, Fail, Ended, listVars
<1>9. ASSUME NEW q \in Queues, SendRun(q) PROVE next' = next /\ Ended' = Ended
  BY <1>9 DEF SendRun, EndRequest, Alive, Ended, listVars
<1>10. ASSUME NEW q \in Queues, Poll(q) PROVE next' = next /\ Ended' = Ended
  BY <1>10 DEF Poll, EndRequest, ActivePhase, Alive, Ended, listVars
<1>11. ASSUME NEW q \in Queues, Recv(q) PROVE next' = next /\ Ended' = Ended
  BY <1>11 DEF Recv, NothingReceived, EndRequest, Ended, listVars
<1>12. ASSUME NEW q \in Queues, ExitStatus(q) PROVE next' = next /\ Ended' = Ended
  BY <1>12 DEF ExitStatus, EndRequest, Ended, listVars
<1>13. ASSUME NEW q \in Queues, Finish(q) PROVE next' = next /\ Ended' = Ended
  BY <1>13 DEF Finish, SendRow, DropWorker, PartialResult, Ended, listVars
<1>14. ASSUME NEW q \in Queues, SendShutdown(q) PROVE next' = next /\ Ended' = Ended
  BY <1>14 DEF SendShutdown, Alive, Ended, listVars
<1>15. ASSUME NEW q \in Queues, Return(q) PROVE next' = next /\ Ended' = Ended
  BY <1>15 DEF Return, DropWorker, Alive, Ended, listVars
<1>16. ASSUME NEW q \in Queues, Expire(q) PROVE next' = next /\ Ended' = Ended
  BY <1>16 DEF Expire, Ended, listVars
<1>17. ASSUME NEW q \in Queues, Forward(q) PROVE next' = next /\ Ended' = Ended
  BY <1>17 DEF Forward, Ended, listVars
<1>18. ASSUME NEW q \in Queues, Load(q) PROVE next' = next /\ Ended' = Ended
  BY <1>18 DEF Load, Ended, listVars
<1>19. ASSUME NEW q \in Queues, Receive(q) PROVE next' = next /\ Ended' = Ended
  BY <1>19 DEF Receive, Ended, listVars
<1>20. ASSUME NEW q \in Queues, Advance(q) PROVE next' = next /\ Ended' = Ended
  BY <1>20 DEF Advance, NextStages, Ended, listVars
<1>21. ASSUME NEW q \in Queues, Answer(q) PROVE next' = next /\ Ended' = Ended
  BY <1>21 DEF Answer, Ended, listVars
<1>22. ASSUME NEW q \in Queues, Hang(q) PROVE next' = next /\ Ended' = Ended
  BY <1>22 DEF Hang, Fail, Ended, listVars
<1>23. ASSUME NEW q \in Queues, PrintLine(q) PROVE next' = next /\ Ended' = Ended
  BY <1>23 DEF PrintLine, Fail, Ended, listVars
<1>24. ASSUME NEW q \in Queues, NEW c \in {1, 70, 72}, Stop(q, c) PROVE next' = next /\ Ended' = Ended
  BY <1>24 DEF Stop, Ended, listVars
<1>25. CASE UNCHANGED vars
  BY <1>25 DEF vars, listVars, Ended
<1> QED
  BY <1>3, <1>4, <1>5, <1>6, <1>7, <1>8, <1>9, <1>10, <1>11, <1>12, <1>13, <1>14, <1>15, <1>16, <1>17, <1>18,
     <1>19, <1>20, <1>21, <1>22, <1>23, <1>24, <1>25 DEF Next, QueueStep, DaemonStep, Fault

\* The members of the types, so that the types need not be expanded below.
LEMMA PcMembers ==
    /\ "claim" \in Pc /\ "permit" \in Pc /\ "spawn" \in Pc /\ "ready" \in Pc /\ "readyExit" \in Pc
    /\ "prepare" \in Pc /\ "send" \in Pc /\ "poll" \in Pc /\ "recv" \in Pc /\ "exit" \in Pc
    /\ "finish" \in Pc /\ "shutdown" \in Pc /\ "join" \in Pc /\ "done" \in Pc
BY DEF Pc

LEMMA StageMembers ==
    /\ "none" \in Stage /\ "loading" \in Stage /\ "idle" \in Stage /\ "exited" \in Stage /\ "received" \in Stage
    /\ \A step \in NextStages : step[2] \in Stage /\ step[3] \in Phase
    /\ 0 \in Codes /\ 9 \in Codes /\ \A c \in {1, 70, 72} : c \in Codes
    /\ "none" \in Run /\ "new" \in Run
    /\ "none" \in Phase \ {"quiet"} /\ \A p \in Phase : ActivePhase(p) \in Phase \ {"quiet"}
BY DEF Stage, Busy, NextStages, Codes, Run, Phase, ActivePhase

LEMMA RecordMembers ==
    ASSUME NEW m \in 0 .. ModelCount
    PROVE  /\ [kind |-> "failed", of |-> m] \in Outcome
           /\ [kind |-> "timeout", of |-> m] \in Outcome
           /\ [kind |-> "memory", of |-> m] \in Outcome
           /\ [kind |-> "answer", of |-> m] \in Outcome
           /\ [kind |-> "failed", of |-> m, partial |-> "none"] \in Row
           /\ [kind |-> "result", of |-> m] \in Message
           /\ [kind |-> "ready", of |-> 0] \in Message
           /\ [kind |-> "other", of |-> 0] \in Message
BY WorkersAssumption DEF Outcome, Row, Run, Message

LEMMA AcquiredType == Acquired \in 1 .. Capacity
BY WorkersAssumption DEF Acquired

\* What the actions share keeps the types of what it changes.
LEMMA SendRowType ==
    ASSUME TypeOK, NEW q \in Queues, model[q] \in Models, NEW row \in Row, SendRow(q, row)
    PROVE  /\ rows' \in [Models -> Seq(Row)] /\ next' = next
           /\ pc' \in [Queues -> Pc] /\ model' \in [Queues -> 0 .. ModelCount]
           /\ lastPhase' \in [Queues -> Phase \ {"quiet"}] /\ expired' \in [Queues -> BOOLEAN]
           /\ outcome' \in [Queues -> Outcome]
<1>1. [kind |-> "failed", of |-> 0] \in Outcome /\ 0 \in 0 .. ModelCount
  BY WorkersAssumption DEF Outcome
<1>2. Append(rows[model[q]], row) \in Seq(Row)
  BY DEF TypeOK
<1> QED
  BY <1>1, <1>2, PcMembers, StageMembers DEF TypeOK, SendRow, Goto

LEMMA DropWorkerType ==
    ASSUME TypeOK, NEW q \in Queues, DropWorker(q)
    PROVE  /\ child' \in [Queues -> Stage] /\ code' \in [Queues -> Codes] /\ hung' \in [Queues -> BOOLEAN]
           /\ job' \in [Queues -> 0 .. ModelCount] /\ inbox' \in [Queues -> 0 .. ModelCount + 1]
           /\ pipe' \in [Queues -> Seq(Message)] /\ received' \in [Queues -> Seq(Message)]
<1>1. 0 \in 0 .. ModelCount /\ 0 \in 0 .. ModelCount + 1 /\ <<>> \in Seq(Message)
  BY WorkersAssumption
<1> QED
  BY <1>1, StageMembers DEF TypeOK, DropWorker

LEMMA EndRequestType ==
    ASSUME TypeOK, NEW q \in Queues, NEW result \in Outcome, EndRequest(q, result)
    PROVE  outcome' \in [Queues -> Outcome] /\ pc' \in [Queues -> Pc]
BY PcMembers DEF TypeOK, EndRequest, Goto

LEMMA FailureRowType ==
    ASSUME TypeOK, NEW q \in Queues
    PROVE  FailureRow(q) \in Row
BY DEF TypeOK, FailureRow, Row, Run


\* Each action keeps the types; the bound of the counter is that of CountStep.
LEMMA TypeStep == ClaimInv /\ [Next]_vars => TypeOK'
<1> SUFFICES ASSUME ClaimInv, [Next]_vars PROVE TypeOK'
  OBVIOUS
<1> DEFINE Bound == ModelCount + 1 + Cardinality(Queues)
<1>1. next' \in Nat \ {0} => next' \in 1 .. Bound
  <2>1. ClaimsCounted'
    BY CountStep
  <2>2. Cardinality(Ended') \in Nat /\ Cardinality(Ended') <= Cardinality(Queues) /\ Cardinality(Queues) \in Nat
    BY FS_Subset, FS_CardinalityType, WorkersAssumption DEF Ended
  <2> QED
    BY <2>1, <2>2, WorkersAssumption DEF ClaimsCounted
<1>2. TypeOK /\ next \in 1 .. Bound /\ next \in Nat \ {0}
  BY EndedFinite, WorkersAssumption DEF ClaimInv, TypeOK
<1>3. \A q \in Queues : pc[q] \in Serving => model[q] \in Models
  BY <1>2, WorkersAssumption DEF ClaimInv, ModelIsClaimed, TypeOK, Models
<1>4. \A q \in Queues : model[q] \in 0 .. ModelCount /\ job[q] \in 0 .. ModelCount
  BY <1>2 DEF TypeOK
<1>5. 0 \in 0 .. ModelCount /\ \A m \in 0 .. ModelCount : m \in 0 .. ModelCount + 1
  BY WorkersAssumption
<1>6. MaxFaults \in Nat
  BY WorkersAssumption
<1> USE DEF listVars, tokenVars, requestVars, childVars, fileVars
<1>10. ASSUME NEW q \in Queues, Claim(q) PROVE TypeOK'
  <2>1. next' \in 1 .. Bound
    BY <1>1, <1>2, <1>10 DEF Claim
  <2>2. pc' \in [Queues -> Pc]
    <3>1. \E l \in Pc : pc' = [pc EXCEPT ![q] = l]
      <4>1. CASE next \in Models
        BY <1>10, <4>1, PcMembers DEF Claim, Goto
      <4>2. CASE next \notin Models
        BY <1>10, <4>2, PcMembers DEF Claim, AfterLast, Goto
      <4> QED
        BY <4>1, <4>2
    <3>2. pc \in [Queues -> Pc]
      BY <1>2 DEF TypeOK
    <3> QED
      BY <3>1, <3>2
  <2>3. model' \in [Queues -> 0 .. ModelCount]
    <3>1. next \in Models => next \in 0 .. ModelCount
      BY WorkersAssumption DEF Models
    <3>2. model \in [Queues -> 0 .. ModelCount]
      BY <1>2 DEF TypeOK
    <3> QED
      BY <1>10, <3>1, <3>2 DEF Claim
  <2> QED
    BY <1>2, <1>10, <2>1, <2>2, <2>3 DEF Claim, TypeOK
<1>11. ASSUME NEW q \in Queues, AcquirePermit(q) PROVE TypeOK'
  BY <1>2, <1>11, PcMembers, AcquiredType, WorkersAssumption DEF AcquirePermit, Goto, TypeOK
<1>12. ASSUME NEW q \in Queues, Spawn(q) PROVE TypeOK'
  <2>1. CASE UNCHANGED <<listVars, faults>> /\ child' = [child EXCEPT ![q] = "loading"]
             /\ expired' = [expired EXCEPT ![q] = FALSE] /\ Goto(q, "ready")
             /\ UNCHANGED <<model, lastPhase, outcome, code, hung, job, inbox, pipe, received>>
    BY <1>2, <1>12, <2>1, PcMembers, StageMembers DEF Spawn, Goto, TypeOK
  <2>2. CASE Fail /\ SendRow(q, FailureRow(q)) /\ UNCHANGED childVars
    <3>1. model[q] \in Models
      BY <1>3, <1>12 DEF Spawn, Serving
    <3>2. faults' \in 0 .. MaxFaults
      BY <1>2, <2>2, WorkersAssumption DEF Fail, TypeOK
    <3> QED
      BY <1>2, <1>12, <2>2, <3>1, <3>2, SendRowType, FailureRowType DEF Spawn, TypeOK
  <2> QED
    BY <1>12, <2>1, <2>2 DEF Spawn
<1>13. ASSUME NEW q \in Queues, SpawnFailed(q), pc[q] \in Serving, UNCHANGED <<tokenVars, fileVars, faults>>
       PROVE  TypeOK'
  BY <1>2, <1>3, <1>13, SendRowType, DropWorkerType, FailureRowType DEF SpawnFailed, TypeOK
<1>14. ASSUME NEW q \in Queues, ReadyRecv(q) PROVE TypeOK'
  <2>1. CASE received[q] = <<>>
    BY <1>2, <1>14, <2>1, PcMembers DEF ReadyRecv, Goto, TypeOK
  <2>2. CASE received[q] # <<>> /\ Head(received[q]).kind = "ready"
    <3>1. Tail(received[q]) \in Seq(Message)
      BY <1>2, <2>2 DEF TypeOK
    <3>2. received' \in [Queues -> Seq(Message)] /\ pc' \in [Queues -> Pc]
      <4>1. received' = [received EXCEPT ![q] = Tail(received[q])] /\ pc' = [pc EXCEPT ![q] = "prepare"]
        BY <1>14, <2>2 DEF ReadyRecv, Goto
      <4>2. received \in [Queues -> Seq(Message)] /\ pc \in [Queues -> Pc]
        BY <1>2 DEF TypeOK
      <4> QED
        BY <3>1, <4>1, <4>2, PcMembers
    <3> QED
      BY <1>2, <1>14, <2>2, <3>2 DEF ReadyRecv, TypeOK
  <2>3. CASE received[q] # <<>> /\ Head(received[q]).kind # "ready"
    BY <1>13, <1>14, <2>3 DEF ReadyRecv, Serving
  <2> QED
    BY <2>1, <2>2, <2>3
<1>15. ASSUME NEW q \in Queues, ReadyExit(q) PROVE TypeOK'
  <2>1. CASE child[q] = "exited" \/ expired[q]
    BY <1>13, <1>15, <2>1 DEF ReadyExit, Serving
  <2>2. CASE child[q] # "exited" /\ ~expired[q]
    BY <1>2, <1>15, <2>2, PcMembers DEF ReadyExit, Goto, TypeOK
  <2> QED
    BY <2>1, <2>2
<1>16. ASSUME NEW q \in Queues, Prepare(q) PROVE TypeOK'
  <2>1. CASE Cleared(q) /\ Goto(q, "send") /\ UNCHANGED <<listVars, requestVars, faults>>
    BY <1>2, <1>16, <2>1, PcMembers, StageMembers DEF Prepare, Cleared, Goto, TypeOK
  <2>2. CASE Fail /\ SendRow(q, FailureRow(q)) /\ UNCHANGED fileVars
    <3>1. model[q] \in Models
      BY <1>3, <1>16 DEF Prepare, Serving
    <3>2. faults' \in 0 .. MaxFaults
      BY <1>2, <2>2, WorkersAssumption DEF Fail, TypeOK
    <3> QED
      BY <1>2, <1>16, <2>2, <3>1, <3>2, SendRowType, FailureRowType DEF Prepare, TypeOK
  <2> QED
    BY <1>16, <2>1, <2>2 DEF Prepare
<1>17. ASSUME NEW q \in Queues, SendRun(q) PROVE TypeOK'
  <2>1. CASE Alive(q)
    <3>1. model[q] \in 0 .. ModelCount + 1
      BY <1>4, <1>5
    <3>2. "none" \in Phase \ {"quiet"}
      BY StageMembers
    <3>3. inbox' \in [Queues -> 0 .. ModelCount + 1] /\ pc' \in [Queues -> Pc]
      <4>1. inbox \in [Queues -> 0 .. ModelCount + 1] /\ pc \in [Queues -> Pc]
        BY <1>2 DEF TypeOK
      <4>2. inbox' = [inbox EXCEPT ![q] = model[q]] /\ pc' = [pc EXCEPT ![q] = "poll"]
        BY <1>17, <2>1 DEF SendRun, Goto
      <4> QED
        BY <3>1, <4>1, <4>2, PcMembers
    <3>4. lastPhase' \in [Queues -> Phase \ {"quiet"}] /\ expired' \in [Queues -> BOOLEAN]
      <4>1. lastPhase' = [lastPhase EXCEPT ![q] = "none"] /\ expired' = [expired EXCEPT ![q] = FALSE]
        BY <1>17, <2>1 DEF SendRun
      <4>2. lastPhase \in [Queues -> Phase \ {"quiet"}] /\ expired \in [Queues -> BOOLEAN]
        BY <1>2 DEF TypeOK
      <4>3. lastPhase' \in [Queues -> Phase \ {"quiet"}]
        BY <3>2, <4>1, <4>2
      <4>4. expired' \in [Queues -> BOOLEAN]
        BY <4>1, <4>2
      <4> QED
        BY <4>3, <4>4
    <3> QED
      BY <1>2, <1>17, <2>1, <3>3, <3>4 DEF SendRun, TypeOK
  <2>2. CASE ~Alive(q)
    <3>1. [kind |-> "failed", of |-> model[q]] \in Outcome
      BY <1>4, RecordMembers
    <3> QED
      BY <1>2, <1>17, <2>2, <3>1, EndRequestType DEF SendRun, TypeOK
  <2> QED
    BY <2>1, <2>2
<1>18. ASSUME NEW q \in Queues, Poll(q) PROVE TypeOK'
  <2> DEFINE p == progress[model[q]]
  <2>1. model[q] \in Models
    BY <1>3, <1>18 DEF Poll, Serving
  <2>2. ActivePhase(p) \in Phase \ {"quiet"}
    BY <1>2, <2>1, StageMembers DEF TypeOK
  <2>3. lastPhase' \in [Queues -> Phase \ {"quiet"}]
    BY <1>2, <1>18, <2>2 DEF Poll, TypeOK
  <2>4. expired' \in [Queues -> BOOLEAN]
    BY <1>2, <1>18 DEF Poll, TypeOK
  <2>5. [kind |-> "timeout", of |-> model[q]] \in Outcome
    BY <1>4, RecordMembers
  <2>6. \/ EndRequest(q, [kind |-> "timeout", of |-> model[q]])
           /\ child' = [child EXCEPT ![q] = "exited"]
           /\ code' = IF Alive(q) THEN [code EXCEPT ![q] = 9] ELSE code
        \/ Goto(q, "recv") /\ UNCHANGED <<outcome, child, code>>
    BY <1>18 DEF Poll
  <2>7. outcome' \in [Queues -> Outcome] /\ pc' \in [Queues -> Pc]
    BY <1>2, <2>5, <2>6, EndRequestType, PcMembers DEF Goto, TypeOK
  <2>8. child' \in [Queues -> Stage] /\ code' \in [Queues -> Codes]
    <3>1. "exited" \in Stage /\ 9 \in Codes
      BY StageMembers
    <3>2. child \in [Queues -> Stage] /\ code \in [Queues -> Codes]
      BY <1>2 DEF TypeOK
    <3> QED
      BY <2>6, <3>1, <3>2
  <2> QED
    BY <1>2, <1>18, <2>3, <2>4, <2>7, <2>8 DEF Poll, TypeOK
<1>19. ASSUME NEW q \in Queues, Recv(q) PROVE TypeOK'
  <2>1. CASE received[q] = <<>>
    BY <1>2, <1>19, <2>1, PcMembers DEF Recv, NothingReceived, Goto, TypeOK
  <2>2. CASE received[q] # <<>>
    <3> DEFINE message == Head(received[q])
    <3>1. message \in Message /\ Tail(received[q]) \in Seq(Message)
      BY <1>2, <2>2 DEF TypeOK
    <3>2. message.of \in 0 .. ModelCount
      BY <3>1 DEF Message
    <3>3. [kind |-> "answer", of |-> message.of] \in Outcome /\ [kind |-> "failed", of |-> model[q]] \in Outcome
      BY <1>4, <3>2, RecordMembers
    <3>4. received' = [received EXCEPT ![q] = Tail(@)]
      BY <1>19, <2>2 DEF Recv
    <3>5. \/ EndRequest(q, [kind |-> "answer", of |-> message.of])
          \/ EndRequest(q, [kind |-> "failed", of |-> model[q]])
          \/ Goto(q, "exit") /\ UNCHANGED outcome
      BY <1>19, <2>2 DEF Recv
    <3>6. outcome' \in [Queues -> Outcome] /\ pc' \in [Queues -> Pc]
      BY <1>2, <3>3, <3>5, EndRequestType, PcMembers DEF Goto, TypeOK
    <3>7. received' \in [Queues -> Seq(Message)]
      BY <1>2, <3>1, <3>4 DEF TypeOK
    <3> QED
      BY <1>2, <1>19, <3>6, <3>7 DEF Recv, TypeOK
  <2> QED
    BY <2>1, <2>2
<1>20. ASSUME NEW q \in Queues, ExitStatus(q) PROVE TypeOK'
  <2>1. CASE child[q] = "exited"
    <3>1. [kind |-> IF code[q] = 70 THEN "memory" ELSE "failed", of |-> model[q]] \in Outcome
      BY <1>4, RecordMembers
    <3> QED
      BY <1>2, <1>20, <2>1, <3>1, EndRequestType DEF ExitStatus, TypeOK
  <2>2. CASE child[q] # "exited"
    BY <1>2, <1>20, <2>2, PcMembers DEF ExitStatus, Goto, TypeOK
  <2> QED
    BY <2>1, <2>2
<1>21. ASSUME NEW q \in Queues, Finish(q) PROVE TypeOK'
  <2> DEFINE row == [kind |-> outcome[q].kind, of |-> outcome[q].of, partial |-> PartialResult(q)]
  <2>1. model[q] \in Models
    BY <1>3, <1>21 DEF Finish, Serving
  <2>2. PartialResult(q) \in Run
    BY <1>2, <2>1 DEF PartialResult, TypeOK, Run
  <2>3. outcome[q] \in Outcome
    BY <1>2 DEF TypeOK
  <2>4. row \in Row
    BY <2>2, <2>3 DEF Row, Outcome
  <2>5. SendRow(q, row) /\ (UNCHANGED childVars \/ DropWorker(q)) /\ UNCHANGED <<tokenVars, fileVars, faults>>
    BY <1>21 DEF Finish
  <2> HIDE DEF row
  <2> QED
    BY <1>2, <2>1, <2>4, <2>5, SendRowType, DropWorkerType DEF TypeOK
<1>22. ASSUME NEW q \in Queues, SendShutdown(q) PROVE TypeOK'
  <2>1. Shutdown \in 0 .. ModelCount + 1
    BY WorkersAssumption DEF Shutdown
  <2> QED
    BY <1>2, <1>22, <2>1, PcMembers DEF SendShutdown, Goto, TypeOK
<1>23. ASSUME NEW q \in Queues, Return(q) PROVE TypeOK'
  <2>1. available' \in 0 .. Capacity /\ permit' \in [Queues -> BOOLEAN]
    BY <1>2, <1>23, AcquiredType, WorkersAssumption DEF Return, TypeOK
  <2> QED
    BY <1>2, <1>23, <2>1, DropWorkerType, PcMembers DEF Return, Goto, TypeOK
<1>24. ASSUME NEW q \in Queues, Expire(q) PROVE TypeOK'
  BY <1>2, <1>24 DEF Expire, TypeOK
<1>25. ASSUME NEW q \in Queues, Forward(q) PROVE TypeOK'
  <2>1. Append(received[q], Head(pipe[q])) \in Seq(Message) /\ Tail(pipe[q]) \in Seq(Message)
    BY <1>2, <1>25 DEF Forward, TypeOK
  <2> QED
    BY <1>2, <1>25, <2>1 DEF Forward, TypeOK
<1>26. ASSUME NEW q \in Queues, NEW m \in Message PROVE Append(pipe[q], m) \in Seq(Message)
  BY <1>2 DEF TypeOK
<1>27. ASSUME NEW q \in Queues, Load(q) PROVE TypeOK'
  <2>1. Append(pipe[q], [kind |-> "ready", of |-> 0]) \in Seq(Message)
    BY <1>5, <1>26, RecordMembers
  <2> QED
    BY <1>2, <1>27, <2>1, StageMembers DEF Load, TypeOK
<1>28. ASSUME NEW q \in Queues, Receive(q) PROVE TypeOK'
  <2>1. inbox' \in [Queues -> 0 .. ModelCount + 1]
    BY <1>2, <1>5, <1>28 DEF Receive, TypeOK
  <2>2. CASE inbox[q] = Shutdown
    <3>1. "exited" \in Stage /\ 0 \in Codes
      BY StageMembers
    <3> QED
      <4>1. /\ child' = [child EXCEPT ![q] = "exited"] /\ code' = [code EXCEPT ![q] = 0]
            /\ job' = job /\ UNCHANGED fileVars
        BY <1>28, <2>2 DEF Receive
      <4>2. child' \in [Queues -> Stage] /\ code' \in [Queues -> Codes]
        <5>1. child \in [Queues -> Stage] /\ code \in [Queues -> Codes]
          BY <1>2 DEF TypeOK
        <5> QED
          BY <3>1, <4>1, <5>1
      <4> QED
        BY <1>2, <1>28, <2>1, <4>1, <4>2 DEF Receive, TypeOK
  <2>3. CASE inbox[q] # Shutdown
    <3>1. inbox[q] \in 0 .. ModelCount
      BY <1>2, <2>3, WorkersAssumption DEF TypeOK, Shutdown
    <3>2. "received" \in Stage /\ "none" \in Phase /\ "none" \in Run
      BY StageMembers
    <3>3. /\ child \in [Queues -> Stage] /\ job \in [Queues -> 0 .. ModelCount]
          /\ progress \in [Models -> Phase] /\ partial \in [Models -> Run]
      BY <1>2 DEF TypeOK
    <3>4. /\ child' = [child EXCEPT ![q] = "received"]
          /\ job' = [job EXCEPT ![q] = inbox[q]]
          /\ progress' = [progress EXCEPT ![inbox[q]] = "none"]
          /\ partial' = [partial EXCEPT ![inbox[q]] = "none"]
          /\ code' = code
      BY <1>28, <2>3 DEF Receive
    <3>5. child' \in [Queues -> Stage] /\ job' \in [Queues -> 0 .. ModelCount] /\ code' = code
      BY <3>1, <3>2, <3>3, <3>4
    <3>6. progress' \in [Models -> Phase] /\ partial' \in [Models -> Run]
      BY <3>2, <3>3, <3>4
    <3> QED
      BY <1>2, <1>28, <2>1, <3>5, <3>6 DEF Receive, TypeOK
  <2> QED
    BY <2>2, <2>3
<1>29. ASSUME NEW q \in Queues, Advance(q) PROVE TypeOK'
  <2>1. PICK step \in NextStages :
           /\ child' = [child EXCEPT ![q] = step[2]]
           /\ progress' = [progress EXCEPT ![job[q]] = step[3]]
           /\ partial' = IF step[2] = "artifact" THEN [partial EXCEPT ![job[q]] = "new"] ELSE partial
    BY <1>29 DEF Advance
  <2>2. step[2] \in Stage /\ step[3] \in Phase
    BY StageMembers
  <2> QED
    BY <1>2, <1>29, <2>1, <2>2, StageMembers DEF Advance, TypeOK
<1>30. ASSUME NEW q \in Queues, Answer(q) PROVE TypeOK'
  <2>1. Append(pipe[q], [kind |-> "result", of |-> job[q]]) \in Seq(Message)
    BY <1>4, <1>26, RecordMembers
  <2> QED
    BY <1>2, <1>5, <1>30, <2>1, StageMembers DEF Answer, TypeOK
<1>31. ASSUME NEW q \in Queues, Hang(q) PROVE TypeOK'
  BY <1>2, <1>6, <1>31 DEF Hang, Fail, TypeOK
<1>32. ASSUME NEW q \in Queues, PrintLine(q) PROVE TypeOK'
  <2>1. Append(pipe[q], [kind |-> "other", of |-> 0]) \in Seq(Message)
    BY <1>5, <1>26, RecordMembers
  <2> QED
    BY <1>2, <1>6, <1>32, <2>1 DEF PrintLine, Fail, TypeOK
<1>33. ASSUME NEW q \in Queues, NEW c \in {1, 70, 72}, Stop(q, c) PROVE TypeOK'
  BY <1>2, <1>6, <1>33, StageMembers DEF Stop, Fail, TypeOK
<1>34. CASE UNCHANGED vars
  BY <1>2, <1>34 DEF vars, TypeOK
<1> QED
  BY <1>10, <1>11, <1>12, <1>14, <1>15, <1>16, <1>17, <1>18, <1>19, <1>20, <1>21, <1>22, <1>23, <1>24, <1>25,
     <1>27, <1>28, <1>29, <1>30, <1>31, <1>32, <1>33, <1>34 DEF Next, QueueStep, DaemonStep, Fault

\* What a step does to the list: a thread claims the next model, reports the
\* one it has in hand, or the list is left alone.
Claims(q) ==
    /\ pc[q] = "claim" /\ next \in Models /\ next' = next + 1
    /\ model' = [model EXCEPT ![q] = next]
    /\ \E label \in Serving : Goto(q, label)
    /\ rows' = rows

FinishRow(q) == [kind |-> outcome[q].kind, of |-> outcome[q].of, partial |-> PartialResult(q)]

Reports(q) ==
    /\ pc[q] \in Serving
    /\ \E row \in Row : /\ row = FailureRow(q) \/ (pc[q] = "finish" /\ row = FinishRow(q))
                        /\ SendRow(q, row)

LeavesList ==
    /\ model' = model /\ rows' = rows /\ next' \in Nat /\ next' >= next
    /\ next' # next => next \notin Models
    /\ \A r \in Queues : pc'[r] \in Serving <=> pc[r] \in Serving

LEMMA ListStep ==
    ASSUME ClaimInv, [Next]_vars
    PROVE  LeavesList \/ \E q \in Queues : Claims(q) \/ Reports(q)
<1>1. TypeOK /\ next \in Nat /\ pc \in [Queues -> Pc]
  BY WorkersAssumption, EndedFinite DEF ClaimInv, TypeOK
<1>2. \A q \in Queues : FailureRow(q) \in Row
  BY <1>1, FailureRowType
<1>3. ASSUME NEW q \in Queues, pc[q] \in Serving, SendRow(q, FailureRow(q)) PROVE Reports(q)
  <2>1. \E row \in Row : (row = FailureRow(q) \/ (pc[q] = "finish" /\ row = FinishRow(q))) /\ SendRow(q, row)
    <3> FailureRow(q) \in Row
      BY <1>2
    <3> WITNESS FailureRow(q) \in Row
    <3> QED
      BY <1>3
  <2> QED
    BY <1>3, <2>1 DEF Reports
<1> USE DEF listVars, requestVars
<1>4. ASSUME NEW q \in Queues, Claim(q) PROVE LeavesList \/ Claims(q) \/ Reports(q)
  <2>1. CASE next \in Models
    <3>1. \E label \in Serving : Goto(q, label)
      BY <1>4, <2>1 DEF Claim, Serving
    <3> QED
      BY <1>4, <2>1, <3>1 DEF Claim, Claims
  <2>2. CASE next \notin Models
    BY <1>1, <1>4, <2>2 DEF Claim, AfterLast, Goto, Serving, LeavesList
  <2> QED
    BY <2>1, <2>2
<1>5. ASSUME NEW q \in Queues, Spawn(q) PROVE LeavesList \/ Claims(q) \/ Reports(q)
  <2>1. CASE SendRow(q, FailureRow(q))
    BY <1>3, <1>5, <2>1 DEF Spawn, Serving
  <2>2. CASE ~SendRow(q, FailureRow(q))
    BY <1>1, <1>5, <2>2 DEF Spawn, Goto, Serving, LeavesList
  <2> QED
    BY <2>1, <2>2
<1>6. ASSUME NEW q \in Queues, ReadyRecv(q) PROVE LeavesList \/ Claims(q) \/ Reports(q)
  <2>1. CASE SendRow(q, FailureRow(q))
    BY <1>3, <1>6, <2>1 DEF ReadyRecv, Serving
  <2>2. CASE ~SendRow(q, FailureRow(q))
    BY <1>1, <1>6, <2>2 DEF ReadyRecv, SpawnFailed, Goto, Serving, LeavesList
  <2> QED
    BY <2>1, <2>2
<1>7. ASSUME NEW q \in Queues, ReadyExit(q) PROVE LeavesList \/ Claims(q) \/ Reports(q)
  <2>1. CASE SendRow(q, FailureRow(q))
    BY <1>3, <1>7, <2>1 DEF ReadyExit, Serving
  <2>2. CASE ~SendRow(q, FailureRow(q))
    BY <1>1, <1>7, <2>2 DEF ReadyExit, SpawnFailed, Goto, Serving, LeavesList
  <2> QED
    BY <2>1, <2>2
<1>8. ASSUME NEW q \in Queues, Prepare(q) PROVE LeavesList \/ Claims(q) \/ Reports(q)
  <2>1. CASE SendRow(q, FailureRow(q))
    BY <1>3, <1>8, <2>1 DEF Prepare, Serving
  <2>2. CASE ~SendRow(q, FailureRow(q))
    BY <1>1, <1>8, <2>2 DEF Prepare, Goto, Serving, LeavesList
  <2> QED
    BY <2>1, <2>2
<1>9. ASSUME NEW q \in Queues, Finish(q) PROVE LeavesList \/ Claims(q) \/ Reports(q)
  <2>1. model[q] \in Models
    BY <1>9, WorkersAssumption DEF Finish, ClaimInv, ModelIsClaimed, TypeOK, Models, Serving
  <2>2. PartialResult(q) \in Run
    BY <1>1, <2>1 DEF PartialResult, TypeOK, Run
  <2>3. outcome[q] \in Outcome
    BY <1>1 DEF TypeOK
  <2>4. FinishRow(q) \in Row
    BY <2>2, <2>3 DEF Row, Outcome, FinishRow
  <2> QED
    BY <1>9, <2>4 DEF Finish, FinishRow, Serving, Reports
<1>10. ASSUME NEW q \in Queues, AcquirePermit(q) PROVE LeavesList \/ Claims(q) \/ Reports(q)
  BY <1>1, <1>10 DEF AcquirePermit, Goto, Serving, LeavesList
<1>11. ASSUME NEW q \in Queues, SendRun(q) PROVE LeavesList \/ Claims(q) \/ Reports(q)
  BY <1>1, <1>11 DEF SendRun, EndRequest, Alive, Goto, Serving, LeavesList
<1>12. ASSUME NEW q \in Queues, Poll(q) PROVE LeavesList \/ Claims(q) \/ Reports(q)
  BY <1>1, <1>12 DEF Poll, EndRequest, ActivePhase, Alive, Goto, Serving, LeavesList
<1>13. ASSUME NEW q \in Queues, Recv(q) PROVE LeavesList \/ Claims(q) \/ Reports(q)
  BY <1>1, <1>13 DEF Recv, NothingReceived, EndRequest, Goto, Serving, LeavesList
<1>14. ASSUME NEW q \in Queues, ExitStatus(q) PROVE LeavesList \/ Claims(q) \/ Reports(q)
  BY <1>1, <1>14 DEF ExitStatus, EndRequest, Goto, Serving, LeavesList
<1>15. ASSUME NEW q \in Queues, SendShutdown(q) PROVE LeavesList \/ Claims(q) \/ Reports(q)
  BY <1>1, <1>15 DEF SendShutdown, Alive, Goto, Serving, LeavesList
<1>16. ASSUME NEW q \in Queues, Return(q) PROVE LeavesList \/ Claims(q) \/ Reports(q)
  BY <1>1, <1>16 DEF Return, DropWorker, Alive, Goto, Serving, LeavesList
<1>17. ASSUME NEW q \in Queues, Expire(q) PROVE LeavesList \/ Claims(q) \/ Reports(q)
  BY <1>1, <1>17 DEF Expire, Goto, Serving, LeavesList
<1>18. ASSUME NEW q \in Queues, Forward(q) PROVE LeavesList \/ Claims(q) \/ Reports(q)
  BY <1>1, <1>18 DEF Forward, Goto, Serving, LeavesList
<1>19. ASSUME NEW q \in Queues, Load(q) PROVE LeavesList \/ Claims(q) \/ Reports(q)
  BY <1>1, <1>19 DEF Load, Goto, Serving, LeavesList
<1>20. ASSUME NEW q \in Queues, Receive(q) PROVE LeavesList \/ Claims(q) \/ Reports(q)
  BY <1>1, <1>20 DEF Receive, Goto, Serving, LeavesList
<1>21. ASSUME NEW q \in Queues, Advance(q) PROVE LeavesList \/ Claims(q) \/ Reports(q)
  BY <1>1, <1>21 DEF Advance, NextStages, Goto, Serving, LeavesList
<1>22. ASSUME NEW q \in Queues, Answer(q) PROVE LeavesList \/ Claims(q) \/ Reports(q)
  BY <1>1, <1>22 DEF Answer, Goto, Serving, LeavesList
<1>23. ASSUME NEW q \in Queues, Hang(q) PROVE LeavesList \/ Claims(q) \/ Reports(q)
  BY <1>1, <1>23 DEF Hang, Fail, Goto, Serving, LeavesList
<1>24. ASSUME NEW q \in Queues, PrintLine(q) PROVE LeavesList \/ Claims(q) \/ Reports(q)
  BY <1>1, <1>24 DEF PrintLine, Fail, Goto, Serving, LeavesList
<1>25. ASSUME NEW q \in Queues, NEW c \in {1, 70, 72}, Stop(q, c) PROVE LeavesList
  BY <1>1, <1>25 DEF Stop, LeavesList
<1>26. CASE UNCHANGED vars
  BY <1>1, <1>26 DEF vars, LeavesList
<1> QED
  BY <1>4, <1>5, <1>6, <1>7, <1>8, <1>9, <1>10, <1>11, <1>12, <1>13, <1>14, <1>15, <1>16, <1>17, <1>18, <1>19,
     <1>20, <1>21, <1>22, <1>23, <1>24, <1>25, <1>26 DEF Next, QueueStep, DaemonStep, Fault

LEMMA ClaimStep == ClaimInv /\ [Next]_vars => ClaimInv'
<1> SUFFICES ASSUME ClaimInv, [Next]_vars PROVE ClaimInv'
  OBVIOUS
<1>1. TypeOK' /\ ClaimsCounted'
  BY TypeStep, CountStep
<1>2. ModelIsClaimed' /\ ClaimsDiffer'
  <2>1. CASE LeavesList
    BY <1>1, <2>1, SMTT(20) DEF LeavesList, ClaimInv, TypeOK, ModelIsClaimed, ClaimsDiffer
  <2>2. ASSUME NEW q \in Queues, Claims(q) PROVE ModelIsClaimed' /\ ClaimsDiffer'
    <3>1. /\ pc[q] = "claim" /\ next \in Nat \ {0} /\ next' = next + 1
          /\ model' = [model EXCEPT ![q] = next] /\ pc'[q] \in Serving
          /\ \A r \in Queues \ {q} : pc'[r] = pc[r]
      BY <2>2, WorkersAssumption DEF Claims, Goto, ClaimInv, TypeOK, Models
    <3>2. \A r \in Queues : model[r] \in Nat /\ model[r] < next
      BY WorkersAssumption DEF ClaimInv, ModelIsClaimed, TypeOK
    <3>3. model \in [Queues -> 0 .. ModelCount]
      BY DEF ClaimInv, TypeOK
    <3> QED
      BY <3>1, <3>2, <3>3 DEF ClaimInv, ModelIsClaimed, ClaimsDiffer
  <2>3. ASSUME NEW q \in Queues, Reports(q) PROVE ModelIsClaimed' /\ ClaimsDiffer'
    <3>1. /\ next' = next /\ next \in Nat \ {0}
          /\ model' = [model EXCEPT ![q] = 0] /\ pc'[q] \notin Serving
          /\ \A r \in Queues \ {q} : pc'[r] = pc[r]
      BY <2>3, WorkersAssumption, EndedFinite DEF Reports, SendRow, Goto, ClaimInv, TypeOK, Serving
    <3>2. model \in [Queues -> 0 .. ModelCount]
      BY DEF ClaimInv, TypeOK
    <3> QED
      BY <3>1, <3>2 DEF ClaimInv, ModelIsClaimed, ClaimsDiffer
  <2> QED
    BY <2>1, <2>2, <2>3, ListStep
<1> QED
  BY <1>1, <1>2 DEF ClaimInv

\* Every state of the pool has the types the model declares, and the counter
\* of fetch_add passes the end of the list at most once per thread.
THEOREM TypeCorrect == Spec => []TypeOK
<1>1. ClaimInv => TypeOK
  BY DEF ClaimInv
<1> QED
  BY <1>1, InitClaimInv, ClaimStep, PTL DEF Spec

\* Two threads never have the same model in hand, whatever order their
\* fetch_adds come in.
THEOREM ThreadsShareNoModel == Spec => []ClaimsDiffer
<1>1. ClaimInv => ClaimsDiffer
  BY DEF ClaimInv
<1> QED
  BY <1>1, InitClaimInv, ClaimStep, PTL DEF Spec

LEMMA InitOneRow == Init => OneRowEach
BY DEF Init, OneRowEach, Models, InHand

LEMMA OneRowStep == ClaimInv /\ OneRowEach /\ [Next]_vars => OneRowEach'
<1> SUFFICES ASSUME ClaimInv, OneRowEach, [Next]_vars, NEW m \in Models
             PROVE  (Len(rows[m]) = IF m < next /\ ~InHand(m) THEN 1 ELSE 0)'
  BY DEF OneRowEach, Models
<1>1. /\ Len(rows[m]) = IF m < next /\ ~InHand(m) THEN 1 ELSE 0
      /\ next \in Nat \ {0} /\ m \in Nat \ {0} /\ m <= ModelCount /\ ModelCount \in Nat
      /\ model \in [Queues -> 0 .. ModelCount] /\ rows \in [Models -> Seq(Row)] /\ pc \in [Queues -> Pc]
  BY WorkersAssumption, EndedFinite DEF OneRowEach, ClaimInv, TypeOK, Models
<1>2. CASE LeavesList
  <2>1. m < next' <=> m < next
    BY <1>1, <1>2 DEF LeavesList, Models
  <2>2. InHand(m)' <=> InHand(m)
    BY <1>2 DEF LeavesList, InHand
  <2> QED
    BY <1>1, <1>2, <2>1, <2>2 DEF LeavesList
<1>3. ASSUME NEW q \in Queues, Claims(q)
      PROVE  (Len(rows[m]) = IF m < next /\ ~InHand(m) THEN 1 ELSE 0)'
  <2>1. model[q] = 0 /\ model' = [model EXCEPT ![q] = next] /\ next' = next + 1 /\ rows' = rows
    BY <1>3 DEF Claims, ClaimInv, ModelIsClaimed, Serving
  <2>2. CASE m = next
    <3>1. InHand(m)'
      BY <1>1, <2>1, <2>2 DEF InHand
    <3> QED
      BY <1>1, <2>1, <2>2, <3>1
  <2>3. CASE m # next
    <3>1. InHand(m)' <=> InHand(m)
      BY <1>1, <2>1, <2>3 DEF InHand
    <3> QED
      BY <1>1, <2>1, <2>3, <3>1
  <2> QED
    BY <2>2, <2>3
<1>4. ASSUME NEW q \in Queues, Reports(q)
      PROVE  (Len(rows[m]) = IF m < next /\ ~InHand(m) THEN 1 ELSE 0)'
  <2>1. PICK row \in Row : SendRow(q, row)
    BY <1>4 DEF Reports
  <2>2. /\ model' = [model EXCEPT ![q] = 0] /\ next' = next
        /\ rows' = [rows EXCEPT ![model[q]] = Append(@, row)]
    BY <2>1 DEF SendRow
  <2>3. model[q] < next
    BY DEF ClaimInv, ModelIsClaimed
  <2>4. CASE m = model[q]
    <3>1. InHand(m) /\ ~InHand(m)'
      BY <1>1, <2>2, <2>4 DEF InHand, ClaimInv, ClaimsDiffer
    <3>2. rows[m] \in Seq(Row) /\ rows'[m] = Append(rows[m], row)
      BY <1>1, <2>2, <2>4
    <3>3. Len(rows'[m]) = Len(rows[m]) + 1
      BY <3>2
    <3> QED
      BY <1>1, <2>2, <2>3, <2>4, <3>1, <3>3
  <2>5. CASE m # model[q]
    <3>1. InHand(m)' <=> InHand(m)
      BY <1>1, <2>2, <2>5 DEF InHand
    <3>2. rows'[m] = rows[m]
      BY <1>1, <2>2, <2>5
    <3> QED
      BY <1>1, <2>2, <3>1, <3>2
  <2> QED
    BY <2>4, <2>5
<1> QED
  BY <1>2, <1>3, <1>4, ListStep

\* Each model of the list gets exactly one row once its thread has let go of
\* it, and none before, on every path of run_model_worker_queue.
THEOREM EveryModelGetsOneRow == Spec => []OneRowEach
BY InitClaimInv, ClaimStep, InitOneRow, OneRowStep, PTL DEF Spec

-----------------------------------------------------------------------------
(* The memory budget.                                                        *)

Permits == {q \in Queues : permit[q]}

ChildHasPermit == \A q \in Queues : child[q] # "none" => permit[q]

\* Only AcquirePermit and Return move tokens.
LEMMA PermitStep ==
    ASSUME TypeOK, PermitFollowsPc, ChildHasPermit, [Next]_vars
    PROVE  /\ PermitFollowsPc' /\ ChildHasPermit'
           /\ UNCHANGED tokenVars \/ \E q \in Queues : AcquirePermit(q) \/ Return(q)
<1> DEFINE Goal == /\ PermitFollowsPc' /\ ChildHasPermit'
                   /\ UNCHANGED tokenVars \/ \E q \in Queues : AcquirePermit(q) \/ Return(q)
<1> SUFFICES Goal
  OBVIOUS
<1>1. /\ pc \in [Queues -> Pc] /\ permit \in [Queues -> BOOLEAN] /\ child \in [Queues -> Stage]
  BY DEF TypeOK
<1> USE DEF Goto, Serving, PermitFollowsPc, ChildHasPermit, tokenVars, childVars
<1>2. ASSUME NEW q \in Queues, Claim(q) PROVE Goal
  BY <1>1, <1>2 DEF Claim, AfterLast
<1>3. ASSUME NEW q \in Queues, AcquirePermit(q) PROVE Goal
  <2>1. PermitFollowsPc' /\ ChildHasPermit'
    BY <1>1, <1>3 DEF AcquirePermit
  <2> QED
    BY <1>3, <2>1
<1>4. ASSUME NEW q \in Queues, Spawn(q) PROVE Goal
  BY <1>1, <1>4 DEF Spawn, SendRow, FailureRow, Fail
<1>5. ASSUME NEW q \in Queues, ReadyRecv(q) PROVE Goal
  BY <1>1, <1>5 DEF ReadyRecv, SpawnFailed, DropWorker, SendRow, FailureRow
<1>6. ASSUME NEW q \in Queues, ReadyExit(q) PROVE Goal
  BY <1>1, <1>6 DEF ReadyExit, SpawnFailed, DropWorker, SendRow, FailureRow
<1>7. ASSUME NEW q \in Queues, Prepare(q) PROVE Goal
  BY <1>1, <1>7 DEF Prepare, Cleared, SendRow, FailureRow, Fail
<1>8. ASSUME NEW q \in Queues, SendRun(q) PROVE Goal
  BY <1>1, <1>8 DEF SendRun, EndRequest, Alive
<1>9. ASSUME NEW q \in Queues, Poll(q) PROVE Goal
  BY <1>1, <1>9 DEF Poll, EndRequest, ActivePhase, Alive
<1>10. ASSUME NEW q \in Queues, Recv(q) PROVE Goal
  BY <1>1, <1>10 DEF Recv, NothingReceived, EndRequest
<1>11. ASSUME NEW q \in Queues, ExitStatus(q) PROVE Goal
  BY <1>1, <1>11 DEF ExitStatus, EndRequest
<1>12. ASSUME NEW q \in Queues, Finish(q) PROVE Goal
  BY <1>1, <1>12 DEF Finish, SendRow, DropWorker, PartialResult
<1>13. ASSUME NEW q \in Queues, SendShutdown(q) PROVE Goal
  BY <1>1, <1>13 DEF SendShutdown, Alive
<1>14. ASSUME NEW q \in Queues, Return(q) PROVE Goal
  <2>1. PermitFollowsPc' /\ ChildHasPermit'
    BY <1>1, <1>14 DEF Return, DropWorker, Alive
  <2> QED
    BY <1>14, <2>1
<1>15. ASSUME NEW q \in Queues, Expire(q) PROVE Goal
  BY <1>1, <1>15 DEF Expire
<1>16. ASSUME NEW q \in Queues, Forward(q) PROVE Goal
  BY <1>1, <1>16 DEF Forward
<1>17. ASSUME NEW q \in Queues, Load(q) PROVE Goal
  BY <1>1, <1>17 DEF Load
<1>18. ASSUME NEW q \in Queues, Receive(q) PROVE Goal
  BY <1>1, <1>18 DEF Receive
<1>19. ASSUME NEW q \in Queues, Advance(q) PROVE Goal
  BY <1>1, <1>19 DEF Advance, NextStages
<1>20. ASSUME NEW q \in Queues, Answer(q) PROVE Goal
  BY <1>1, <1>20 DEF Answer
<1>21. ASSUME NEW q \in Queues, Hang(q) PROVE Goal
  BY <1>1, <1>21 DEF Hang, Fail
<1>22. ASSUME NEW q \in Queues, PrintLine(q) PROVE Goal
  BY <1>1, <1>22 DEF PrintLine, Fail
<1>23. ASSUME NEW q \in Queues, NEW c \in {1, 70, 72}, Stop(q, c) PROVE Goal
  BY <1>1, <1>23 DEF Stop, Alive
<1>24. CASE UNCHANGED vars
  BY <1>1, <1>24 DEF vars
<1> HIDE DEF Goal
<1> QED
  BY <1>2, <1>3, <1>4, <1>5, <1>6, <1>7, <1>8, <1>9, <1>10, <1>11, <1>12, <1>13, <1>14, <1>15, <1>16, <1>17,
     <1>18, <1>19, <1>20, <1>21, <1>22, <1>23, <1>24 DEF Next, QueueStep, DaemonStep, Fault

LEMMA PermitsFinite == IsFiniteSet(Permits) /\ Cardinality(Permits) \in Nat
BY FS_Subset, FS_CardinalityType, WorkersAssumption DEF Permits

LEMMA OneMore == \A a, n \in Nat : a * (n + 1) = a * n + a /\ a * n \in Nat
OBVIOUS

BudgetInv == TypeOK /\ PermitFollowsPc /\ MemoryBounded

LEMMA InitBudget == Init => BudgetInv
<1> SUFFICES ASSUME Init PROVE BudgetInv
  OBVIOUS
<1>1. TypeOK
  BY InitClaimInv DEF ClaimInv
<1>2. PermitFollowsPc /\ \A q \in Queues : child[q] # "none" => permit[q]
  BY DEF Init, PermitFollowsPc, Serving
<1>3. {q \in Queues : permit[q]} = {}
  BY DEF Init
<1>4. Acquired * 0 = 0
  BY AcquiredType
<1>5. Cardinality({q \in Queues : permit[q]}) = 0
  BY <1>3, FS_EmptySet
<1>6. available = Capacity /\ Capacity \in Nat
  BY WorkersAssumption DEF Init
<1>7. available + Acquired * Cardinality({q \in Queues : permit[q]}) = Capacity
  BY <1>4, <1>5, <1>6
<1> QED
  BY <1>1, <1>2, <1>7 DEF BudgetInv, MemoryBounded

LEMMA BudgetStep == ClaimInv /\ BudgetInv /\ [Next]_vars => BudgetInv'
<1> SUFFICES ASSUME ClaimInv, BudgetInv, [Next]_vars PROVE BudgetInv'
  OBVIOUS
<1> DEFINE n == Cardinality(Permits)
<1>1. TypeOK'
  BY TypeStep
<1>2. ChildHasPermit /\ available + Acquired * n = Capacity /\ n \in Nat /\ IsFiniteSet(Permits)
  BY PermitsFinite DEF BudgetInv, MemoryBounded, ChildHasPermit, Permits
<1>3. /\ PermitFollowsPc' /\ ChildHasPermit'
      /\ UNCHANGED tokenVars \/ \E q \in Queues : AcquirePermit(q) \/ Return(q)
  BY <1>2, PermitStep DEF BudgetInv
<1>4. /\ available \in Nat /\ Acquired \in Nat /\ Capacity \in Nat /\ permit \in [Queues -> BOOLEAN]
      /\ pc \in [Queues -> Pc]
  BY AcquiredType, WorkersAssumption DEF BudgetInv, TypeOK
<1> DEFINE n2 == Cardinality(Permits')
<1>5. available' + Acquired * n2 = Capacity
  <2>1. CASE UNCHANGED tokenVars
    BY <1>2, <2>1 DEF tokenVars, Permits
  <2>2. ASSUME NEW q \in Queues, AcquirePermit(q) PROVE available' + Acquired * n2 = Capacity
    <3>1. Permits' = Permits \union {q} /\ q \notin Permits
      BY <1>4, <2>2 DEF AcquirePermit, Permits, BudgetInv, PermitFollowsPc
    <3>2. n2 = n + 1
      BY <1>2, <3>1, FS_AddElement
    <3>3. Acquired * n2 = Acquired * n + Acquired /\ Acquired * n \in Nat
      BY <1>2, <1>4, <3>2, OneMore
    <3>4. available >= Acquired /\ available' = available - Acquired
      BY <2>2 DEF AcquirePermit
    <3> HIDE DEF n, n2
    <3> DEFINE k == Acquired * n
    <3> DEFINE k2 == Acquired * n2
    <3>5. k \in Nat /\ k2 = k + Acquired /\ available + k = Capacity
      BY <1>2, <3>3
    <3> HIDE DEF k, k2
    <3>6. available' + k2 = Capacity
      BY <1>4, <3>4, <3>5
    <3> QED
      BY <3>6 DEF k2
  <2>3. ASSUME NEW q \in Queues, Return(q) PROVE available' + Acquired * n2 = Capacity
    <3>1. CASE ~permit[q]
      BY <1>2, <1>4, <2>3, <3>1 DEF Return, Permits
    <3>2. CASE permit[q]
      <4>1. Permits = Permits' \union {q} /\ q \notin Permits' /\ q \in Permits
        BY <1>4, <2>3, <3>2 DEF Return, Permits
      <4>2. IsFiniteSet(Permits') /\ n2 \in Nat
        BY FS_Subset, FS_CardinalityType, WorkersAssumption DEF Permits
      <4>3. n = n2 + 1
        BY <4>1, <4>2, FS_AddElement
      <4>4. Acquired * n = Acquired * n2 + Acquired /\ Acquired * n2 \in Nat
        BY <1>4, <4>2, <4>3, OneMore
      <4> HIDE DEF n, n2
      <4> DEFINE k == Acquired * n
      <4> DEFINE k2 == Acquired * n2
      <4>5. k2 \in Nat /\ k = k2 + Acquired /\ available + k = Capacity
        BY <1>2, <4>4
      <4>6. available' = IF available + Acquired > Capacity THEN Capacity ELSE available + Acquired
        BY <2>3, <3>2 DEF Return
      <4> HIDE DEF k, k2
      <4>7. available' + k2 = Capacity
        BY <1>4, <4>5, <4>6
      <4> QED
        BY <4>7 DEF k2
    <3> QED
      BY <3>1, <3>2
  <2> QED
    BY <1>3, <2>1, <2>2, <2>3
<1> QED
  BY <1>1, <1>3, <1>5 DEF BudgetInv, MemoryBounded, ChildHasPermit, Permits

\* The tokens in the limiter and the tokens the permits stand for add up to
\* the capacity at every moment, and every process runs under a permit: the
\* clamp of the release is never what keeps the books.
THEOREM ProcessesFitTheBudget == Spec => []MemoryBounded
<1>1. BudgetInv => MemoryBounded
  BY DEF BudgetInv
<1> QED
  BY <1>1, InitClaimInv, ClaimStep, InitBudget, BudgetStep, PTL DEF Spec

-----------------------------------------------------------------------------
(* Answers.                                                                  *)

\* What reading and writing a channel does to the results in it.
LEMMA EmptyChannel == NoResult(<<>>)
BY DEF NoResult

LEMMA NoneIsOne == ASSUME NEW s, NEW m, NoResult(s) PROVE OneResult(s, m)
BY DEF NoResult, OneResult

LEMMA ReadChannel ==
    ASSUME NEW s \in Seq(Message), s # <<>>, NEW m
    PROVE  /\ NoResult(s) => NoResult(Tail(s)) /\ Head(s).kind # "result"
           /\ OneResult(s, m) => /\ OneResult(Tail(s), m)
                                 /\ Head(s).kind = "result" => Head(s).of = m /\ NoResult(Tail(s))
<1>1. /\ Head(s) = s[1] /\ Len(s) \in Nat \ {0} /\ Len(Tail(s)) = Len(s) - 1
      /\ \A i \in 1 .. Len(Tail(s)) : Tail(s)[i] = s[i + 1] /\ i + 1 \in 1 .. Len(s)
      /\ 1 \in 1 .. Len(s)
  OBVIOUS
<1>2. NoResult(s) => NoResult(Tail(s)) /\ Head(s).kind # "result"
  BY <1>1 DEF NoResult
<1>3. ASSUME OneResult(s, m) PROVE OneResult(Tail(s), m)
  BY <1>1, <1>3 DEF OneResult
<1>4. ASSUME OneResult(s, m), Head(s).kind = "result" PROVE Head(s).of = m /\ NoResult(Tail(s))
  BY <1>1, <1>4 DEF OneResult, NoResult
<1> QED
  BY <1>2, <1>3, <1>4

LEMMA WriteChannel ==
    ASSUME NEW s \in Seq(Message), NEW line \in Message, NEW m
    PROVE  /\ line.kind # "result" => /\ NoResult(Append(s, line)) <=> NoResult(s)
                                      /\ OneResult(s, m) => OneResult(Append(s, line), m)
           /\ NoResult(s) /\ line.of = m => OneResult(Append(s, line), m)
<1> DEFINE w == Append(s, line)
<1>1. /\ Len(s) \in Nat /\ Len(w) = Len(s) + 1 /\ w[Len(s) + 1] = line
      /\ \A i \in 1 .. Len(s) : w[i] = s[i]
      /\ \A i \in 1 .. Len(w) : i \in 1 .. Len(s) \/ i = Len(s) + 1
      /\ \A i \in 1 .. Len(s) : i \in 1 .. Len(w)
  OBVIOUS
<1> HIDE DEF w
<1>2. line.kind # "result" => (NoResult(w) <=> NoResult(s))
  BY <1>1 DEF NoResult
<1>3. ASSUME line.kind # "result", OneResult(s, m) PROVE OneResult(w, m)
  BY <1>1, <1>3 DEF OneResult
<1>4. ASSUME NoResult(s), line.of = m PROVE OneResult(w, m)
  <2> SUFFICES ASSUME NEW i \in 1 .. Len(w), w[i].kind = "result"
               PROVE  w[i].of = m /\ \A j \in 1 .. Len(w) : w[j].kind = "result" => j = i
    BY DEF OneResult
  <2> QED
    BY <1>1, <1>4 DEF NoResult
<1> QED
  BY <1>2, <1>3, <1>4 DEF w

\* The thread and the daemon of r take no part in a step.
Still(r) ==
    /\ pc'[r] = pc[r] /\ model'[r] = model[r] /\ outcome'[r] = outcome[r] /\ child'[r] = child[r]
    /\ job'[r] = job[r] /\ inbox'[r] = inbox[r] /\ pipe'[r] = pipe[r] /\ received'[r] = received[r]

LEMMA StillInStep == ASSUME NEW r \in Queues, Still(r), InStep(r) PROVE InStep(r)'
BY DEF Still, InStep, AtRest, Asked, NoResult, OneResult

Moves(q) == QueueStep(q) \/ Expire(q) \/ Forward(q) \/ DaemonStep(q) \/ Fault(q)

LEMMA OthersStill ==
    ASSUME TypeOK, NEW q \in Queues, Moves(q), NEW r \in Queues \ {q}
    PROVE  Still(r)
<1>1. /\ pc \in [Queues -> Pc] /\ model \in [Queues -> 0 .. ModelCount] /\ outcome \in [Queues -> Outcome]
      /\ child \in [Queues -> Stage] /\ job \in [Queues -> 0 .. ModelCount]
      /\ inbox \in [Queues -> 0 .. ModelCount + 1] /\ pipe \in [Queues -> Seq(Message)]
      /\ received \in [Queues -> Seq(Message)]
  BY DEF TypeOK
<1> USE DEF Goto, Still, requestVars, childVars
<1>2. CASE Claim(q)
  BY <1>1, <1>2 DEF Claim, AfterLast
<1>3. CASE AcquirePermit(q)
  BY <1>1, <1>3 DEF AcquirePermit
<1>4. CASE Spawn(q)
  BY <1>1, <1>4 DEF Spawn, SendRow, FailureRow, Fail
<1>5. CASE ReadyRecv(q)
  BY <1>1, <1>5 DEF ReadyRecv, SpawnFailed, DropWorker, SendRow, FailureRow
<1>6. CASE ReadyExit(q)
  BY <1>1, <1>6 DEF ReadyExit, SpawnFailed, DropWorker, SendRow, FailureRow
<1>7. CASE Prepare(q)
  BY <1>1, <1>7 DEF Prepare, Cleared, SendRow, FailureRow, Fail
<1>8. CASE SendRun(q)
  BY <1>1, <1>8 DEF SendRun, EndRequest, Alive
<1>9. CASE Poll(q)
  BY <1>1, <1>9 DEF Poll, EndRequest, ActivePhase, Alive
<1>10. CASE Recv(q)
  BY <1>1, <1>10 DEF Recv, NothingReceived, EndRequest
<1>11. CASE ExitStatus(q)
  BY <1>1, <1>11 DEF ExitStatus, EndRequest
<1>12. CASE Finish(q)
  BY <1>1, <1>12 DEF Finish, SendRow, DropWorker, PartialResult
<1>13. CASE SendShutdown(q)
  BY <1>1, <1>13 DEF SendShutdown, Alive
<1>14. CASE Return(q)
  BY <1>1, <1>14 DEF Return, DropWorker, Alive
<1>15. CASE Expire(q)
  BY <1>1, <1>15 DEF Expire
<1>16. CASE Forward(q)
  BY <1>1, <1>16 DEF Forward
<1>17. CASE Load(q)
  BY <1>1, <1>17 DEF Load
<1>18. CASE Receive(q)
  BY <1>1, <1>18 DEF Receive
<1>19. CASE Advance(q)
  BY <1>1, <1>19 DEF Advance, NextStages
<1>20. CASE Answer(q)
  BY <1>1, <1>20 DEF Answer
<1>21. CASE Hang(q)
  BY <1>1, <1>21 DEF Hang, Fail
<1>22. CASE PrintLine(q)
  BY <1>1, <1>22 DEF PrintLine, Fail
<1>23. ASSUME NEW c \in {1, 70, 72}, Stop(q, c) PROVE Still(r)
  BY <1>1, <1>23 DEF Stop
<1> QED
  BY <1>2, <1>3, <1>4, <1>5, <1>6, <1>7, <1>8, <1>9, <1>10, <1>11, <1>12, <1>13, <1>14, <1>15, <1>16, <1>17,
     <1>18, <1>19, <1>20, <1>21, <1>22, <1>23 DEF Moves, QueueStep, DaemonStep, Fault

\* A thread that drops its daemon has none that could answer.
LEMMA DropWorkerRests ==
    ASSUME TypeOK, NEW q \in Queues, DropWorker(q)
    PROVE  AtRest(q)'
<1>1. /\ child'[q] = "none" /\ job'[q] = 0 /\ inbox'[q] = 0 /\ pipe'[q] = <<>> /\ received'[q] = <<>>
  BY DEF DropWorker, TypeOK
<1>2. "none" \notin Busy
  BY DEF Busy
<1> QED
  BY <1>1, <1>2, EmptyChannel DEF AtRest

LEMMA OwnStep ==
    ASSUME ClaimInv, NEW q \in Queues, InStep(q), Moves(q)
    PROVE  InStep(q)'
<1>1. /\ pc \in [Queues -> Pc] /\ model \in [Queues -> 0 .. ModelCount] /\ outcome \in [Queues -> Outcome]
      /\ child \in [Queues -> Stage] /\ job \in [Queues -> 0 .. ModelCount]
      /\ inbox \in [Queues -> 0 .. ModelCount + 1] /\ pipe \in [Queues -> Seq(Message)]
      /\ received \in [Queues -> Seq(Message)] /\ code \in [Queues -> Codes]
  BY DEF ClaimInv, TypeOK
<1>2. TypeOK /\ pipe[q] \in Seq(Message) /\ received[q] \in Seq(Message)
  BY <1>1 DEF ClaimInv
<1>3. pc[q] \in Serving => model[q] # 0
  BY DEF ClaimInv, ModelIsClaimed
<1>4. model[q] # Shutdown /\ Shutdown # 0
  BY <1>1, WorkersAssumption DEF Shutdown
<1> USE DEF requestVars, childVars
<1>5. ASSUME pc[q] \notin Waiting \union {"finish"}, pc'[q] \notin Waiting \union {"finish"},
             child'[q] = child[q], job'[q] = job[q], inbox'[q] = inbox[q],
             pipe'[q] = pipe[q], received'[q] = received[q]
      PROVE  InStep(q)'
  BY <1>5 DEF InStep, AtRest
<1>6. ASSUME DropWorker(q), pc'[q] \notin Waiting \union {"finish"} PROVE InStep(q)'
  BY <1>2, <1>6, DropWorkerRests DEF InStep
<1>7. \A row : SendRow(q, row) => pc'[q] = "claim"
  BY <1>1 DEF SendRow, Goto
<1>8. "claim" \notin Waiting \union {"finish"}
  BY DEF Waiting
<1>10. CASE Claim(q)
  BY <1>1, <1>5, <1>10 DEF Claim, AfterLast, Goto, Waiting
<1>11. CASE AcquirePermit(q)
  BY <1>1, <1>5, <1>11 DEF AcquirePermit, Goto, Waiting
<1>12. CASE Spawn(q)
  <2>1. CASE SendRow(q, FailureRow(q)) /\ UNCHANGED childVars
    BY <1>5, <1>7, <1>8, <1>12, <2>1 DEF Spawn, Waiting
  <2>2. CASE /\ child' = [child EXCEPT ![q] = "loading"] /\ Goto(q, "ready")
             /\ UNCHANGED <<code, hung, job, inbox, pipe, received>>
    BY <1>1, <1>12, <2>2 DEF Spawn, Goto, Waiting, InStep, AtRest, Busy
  <2> QED
    BY <1>12, <2>1, <2>2 DEF Spawn
<1>13. CASE ReadyRecv(q)
  <2>1. CASE SpawnFailed(q)
    BY <1>6, <1>7, <1>8, <2>1 DEF SpawnFailed
  <2>2. CASE received[q] = <<>>
    BY <1>1, <1>5, <1>13, <2>2 DEF ReadyRecv, Goto, Waiting
  <2>3. CASE received[q] # <<>> /\ ~SpawnFailed(q)
    <3>1. NoResult(received[q]) => NoResult(Tail(received[q]))
      BY <1>2, <2>3, ReadChannel
    <3>2. /\ pc[q] = "ready" /\ pc'[q] = "prepare" /\ received'[q] = Tail(received[q])
          /\ UNCHANGED <<child, job, inbox, pipe>>
      BY <1>1, <1>13, <2>3 DEF ReadyRecv, Goto
    <3> QED
      BY <3>1, <3>2 DEF Waiting, InStep, AtRest
  <2> QED
    BY <2>1, <2>2, <2>3
<1>14. CASE ReadyExit(q)
  <2>1. CASE SpawnFailed(q)
    BY <1>6, <1>7, <1>8, <2>1 DEF SpawnFailed
  <2>2. CASE ~SpawnFailed(q)
    BY <1>1, <1>5, <1>14, <2>2 DEF ReadyExit, Goto, Waiting
  <2> QED
    BY <2>1, <2>2
<1>15. CASE Prepare(q)
  BY <1>1, <1>5, <1>7, <1>8, <1>15 DEF Prepare, Goto, Waiting
<1>16. CASE SendRun(q)
  <2>1. pc[q] = "send" /\ AtRest(q)
    BY <1>16 DEF SendRun, InStep, Waiting
  <2>2. CASE Alive(q)
    <3>1. /\ pc'[q] = "poll" /\ inbox'[q] = model[q]
          /\ UNCHANGED <<model, child, job, pipe, received>>
      BY <1>1, <1>16, <2>2 DEF SendRun, Goto
    <3>2. OneResult(received[q], model[q]) /\ OneResult(pipe[q], model[q])
      BY <2>1, NoneIsOne DEF AtRest
    <3> QED
      BY <2>1, <3>1, <3>2 DEF InStep, AtRest, Asked, Waiting
  <2>3. CASE ~Alive(q)
    BY <1>1, <1>16, <2>3 DEF SendRun, EndRequest, Goto, InStep, Waiting
  <2> QED
    BY <2>2, <2>3
<1>17. CASE Poll(q)
  <2>1. CASE EndRequest(q, [kind |-> "timeout", of |-> model[q]])
    BY <1>1, <1>17, <2>1 DEF Poll, EndRequest, Goto, InStep, Waiting
  <2>2. CASE Goto(q, "recv") /\ UNCHANGED <<outcome, child, code>>
    BY <1>1, <1>17, <2>2 DEF Poll, Goto, InStep, Asked, Waiting
  <2> QED
    BY <1>17, <2>1, <2>2 DEF Poll
<1>18. CASE Recv(q)
  <2>1. pc[q] = "recv" /\ Asked(q) /\ UNCHANGED <<model, child, job, inbox, pipe>>
    BY <1>18 DEF Recv, InStep, Waiting
  <2>2. CASE received[q] = <<>>
    BY <1>1, <1>18, <2>1, <2>2 DEF Recv, NothingReceived, Goto, InStep, Asked, Waiting
  <2>3. CASE received[q] # <<>>
    <3> DEFINE line == Head(received[q])
    <3>1. /\ NoResult(received[q]) => NoResult(Tail(received[q])) /\ line.kind # "result"
          /\ OneResult(received[q], model[q]) =>
               /\ OneResult(Tail(received[q]), model[q])
               /\ line.kind = "result" => line.of = model[q] /\ NoResult(Tail(received[q]))
      BY <1>2, <2>3, ReadChannel
    <3>2. received'[q] = Tail(received[q])
      BY <1>1, <1>18, <2>3 DEF Recv
    <3>3. CASE line.kind = "result"
      <4>1. pc'[q] = "finish" /\ outcome'[q].of = line.of
        BY <1>1, <1>18, <2>3, <3>3 DEF Recv, EndRequest, Goto
      <4>2. ~NoResult(received[q])
        BY <3>1, <3>3
      <4>3. AtRest(q)'
        BY <2>1, <3>1, <3>2, <3>3, <4>2 DEF Asked, AtRest
      <4> QED
        BY <2>1, <3>1, <3>3, <4>1, <4>3 DEF InStep, Waiting, Asked
    <3>4. CASE line.kind = "other"
      BY <1>1, <1>18, <2>1, <2>3, <3>4 DEF Recv, EndRequest, Goto, InStep, Waiting
    <3>5. CASE line.kind = "ready"
      <4>1. pc'[q] = "exit"
        BY <1>1, <1>18, <2>3, <3>5 DEF Recv, Goto
      <4> QED
        BY <2>1, <3>1, <3>2, <4>1 DEF InStep, Waiting, Asked
    <3> QED
      BY <1>18, <2>3, <3>3, <3>4, <3>5 DEF Recv
  <2> QED
    BY <2>2, <2>3
<1>19. CASE ExitStatus(q)
  <2>1. CASE child[q] = "exited"
    BY <1>1, <1>19, <2>1 DEF ExitStatus, EndRequest, Goto, InStep, Waiting
  <2>2. CASE child[q] # "exited"
    BY <1>1, <1>19, <2>2 DEF ExitStatus, Goto, InStep, Waiting, Asked
  <2> QED
    BY <2>1, <2>2
<1>20. CASE Finish(q)
  <2>1. CASE DropWorker(q)
    BY <1>6, <1>7, <1>8, <1>20, <2>1 DEF Finish
  <2>2. CASE KeepsWorker(q) /\ UNCHANGED childVars
    <3>1. AtRest(q) /\ pc'[q] = "claim"
      BY <1>7, <1>20, <2>2 DEF Finish, KeepsWorker, InStep
    <3> QED
      BY <1>8, <2>2, <3>1 DEF InStep, AtRest
  <2> QED
    BY <1>20, <2>1, <2>2 DEF Finish
<1>21. CASE SendShutdown(q)
  BY <1>1, <1>21 DEF SendShutdown, Goto, InStep, Waiting, AtRest
<1>22. CASE Return(q)
  <2>1. pc'[q] = "done"
    BY <1>1, <1>22 DEF Return, Goto
  <2> QED
    BY <1>6, <1>22, <2>1 DEF Return, Waiting
<1>23. CASE Expire(q) \/ Hang(q)
  <2>1. UNCHANGED <<pc, model, outcome, child, job, inbox, pipe, received>>
    BY <1>23 DEF Expire, Hang
  <2> QED
    BY <2>1, StillInStep DEF Still
<1>24. CASE Forward(q)
  <2> DEFINE line == Head(pipe[q])
  <2>1. /\ received'[q] = Append(received[q], line) /\ pipe'[q] = Tail(pipe[q]) /\ pipe[q] # <<>>
        /\ UNCHANGED <<pc, model, outcome, child, job, inbox>>
    BY <1>1, <1>24 DEF Forward
  <2>2. /\ NoResult(pipe[q]) => NoResult(Tail(pipe[q])) /\ line.kind # "result"
        /\ OneResult(pipe[q], model[q]) =>
             /\ OneResult(Tail(pipe[q]), model[q])
             /\ line.kind = "result" => line.of = model[q] /\ NoResult(Tail(pipe[q]))
    BY <1>2, <2>1, ReadChannel
  <2>3. line \in Message
    BY <1>2, <2>1
  <2>4. /\ line.kind # "result" =>
             /\ NoResult(Append(received[q], line)) <=> NoResult(received[q])
             /\ OneResult(received[q], model[q]) => OneResult(Append(received[q], line), model[q])
        /\ NoResult(received[q]) /\ line.of = model[q] => OneResult(Append(received[q], line), model[q])
    BY <1>2, <2>3, WriteChannel
  <2>5. AtRest(q) => AtRest(q)'
    BY <2>1, <2>2, <2>4 DEF AtRest
  <2>6. Asked(q) => Asked(q)'
    BY <2>1, <2>2, <2>4 DEF Asked
  <2> QED
    BY <2>1, <2>5, <2>6 DEF InStep
<1>25. ASSUME NEW line \in Message, line.kind # "result", pipe'[q] = Append(pipe[q], line),
              child'[q] \notin Busy \/ child'[q] = child[q],
              UNCHANGED <<pc, model, outcome, job, inbox, received>>
       PROVE  InStep(q)'
  <2>1. /\ NoResult(Append(pipe[q], line)) <=> NoResult(pipe[q])
        /\ OneResult(pipe[q], model[q]) => OneResult(Append(pipe[q], line), model[q])
    BY <1>2, <1>25, WriteChannel
  <2>2. AtRest(q) => AtRest(q)'
    BY <1>25, <2>1 DEF AtRest
  <2>3. Asked(q) => Asked(q)'
    BY <1>25, <2>1 DEF Asked
  <2> QED
    BY <1>25, <2>2, <2>3 DEF InStep
<1>26. CASE Load(q)
  <2>1. [kind |-> "ready", of |-> 0] \in Message
    BY <1>1, RecordMembers
  <2>2. child'[q] \notin Busy
    BY <1>1, <1>26 DEF Load, Busy
  <2>3. /\ pipe'[q] = Append(pipe[q], [kind |-> "ready", of |-> 0])
        /\ UNCHANGED <<pc, model, outcome, job, inbox, received>>
    BY <1>1, <1>26 DEF Load
  <2> QED
    BY <1>25, <2>1, <2>2, <2>3
<1>27. CASE PrintLine(q)
  <2>1. [kind |-> "other", of |-> 0] \in Message
    BY <1>1, RecordMembers
  <2>2. /\ pipe'[q] = Append(pipe[q], [kind |-> "other", of |-> 0]) /\ child'[q] = child[q]
        /\ UNCHANGED <<pc, model, outcome, job, inbox, received>>
    BY <1>1, <1>27 DEF PrintLine
  <2> QED
    BY <1>25, <2>1, <2>2
<1>28. CASE Receive(q)
  <2>1. /\ UNCHANGED <<pc, model, outcome, pipe, received>> /\ inbox'[q] = 0 /\ inbox[q] # 0
    BY <1>1, <1>28 DEF Receive
  <2>2. CASE inbox[q] = Shutdown
    <3>1. child'[q] \notin Busy /\ job' = job
      BY <1>1, <1>28, <2>2 DEF Receive, Busy
    <3> QED
      BY <1>4, <2>1, <2>2, <3>1 DEF InStep, AtRest, Asked
  <2>3. CASE inbox[q] # Shutdown
    <3>1. job'[q] = inbox[q]
      BY <1>1, <1>28, <2>3 DEF Receive
    <3> QED
      BY <1>4, <2>1, <2>3, <3>1 DEF InStep, AtRest, Asked
  <2> QED
    BY <2>2, <2>3
<1>29. CASE Advance(q)
  <2>1. child[q] \in Busy /\ UNCHANGED <<pc, model, outcome, job, inbox, pipe, received>>
    BY <1>29 DEF Advance, NextStages, Busy
  <2> QED
    BY <2>1 DEF InStep, AtRest, Asked
<1>30. CASE Answer(q)
  <2> DEFINE line == [kind |-> "result", of |-> job[q]]
  <2>1. /\ UNCHANGED <<pc, model, outcome, inbox, received>>
        /\ child[q] \in Busy /\ child'[q] \notin Busy /\ job'[q] = 0 /\ pipe'[q] = Append(pipe[q], line)
    BY <1>1, <1>30 DEF Answer, Busy
  <2>2. line \in Message
    BY <1>1, RecordMembers
  <2>3. NoResult(pipe[q]) /\ job[q] = model[q] => OneResult(Append(pipe[q], line), model[q])
    BY <1>2, <2>2, WriteChannel
  <2> HIDE DEF line
  <2>4. Asked(q) => Asked(q)'
    BY <2>1, <2>3 DEF Asked
  <2> QED
    BY <2>1, <2>4 DEF InStep, AtRest
<1>31. ASSUME NEW c \in {1, 70, 72}, Stop(q, c) PROVE InStep(q)'
  <2>1. child'[q] \notin Busy /\ UNCHANGED <<pc, model, outcome, job, inbox, pipe, received>>
    BY <1>1, <1>31 DEF Stop, Busy
  <2> QED
    BY <2>1 DEF InStep, AtRest, Asked
<1> QED
  BY <1>10, <1>11, <1>12, <1>13, <1>14, <1>15, <1>16, <1>17, <1>18, <1>19, <1>20, <1>21, <1>22, <1>23, <1>24,
     <1>26, <1>27, <1>28, <1>29, <1>30, <1>31 DEF Moves, QueueStep, DaemonStep, Fault

RequestInv == ClaimInv /\ DaemonFollowsRequest /\ FilesAreNew

LEMMA InitRequest == Init => RequestInv
<1> SUFFICES ASSUME Init PROVE RequestInv
  OBVIOUS
<1>1. ClaimInv
  BY InitClaimInv
<1>2. ASSUME NEW q \in Queues PROVE InStep(q)
  BY EmptyChannel DEF Init, InStep, AtRest, Waiting, Busy
<1>3. FilesAreNew
  BY DEF Init, FilesAreNew, Waiting
<1> QED
  BY <1>1, <1>2, <1>3 DEF RequestInv, DaemonFollowsRequest

LEMMA DaemonStepKeeps == RequestInv /\ [Next]_vars => DaemonFollowsRequest'
<1> SUFFICES ASSUME RequestInv, [Next]_vars, NEW r \in Queues PROVE InStep(r)'
  BY DEF DaemonFollowsRequest
<1>1. ClaimInv /\ TypeOK /\ InStep(r)
  BY DEF RequestInv, ClaimInv, DaemonFollowsRequest
<1>2. ASSUME NEW q \in Queues, Moves(q) PROVE InStep(r)'
  <2>1. CASE q = r
    BY <1>1, <1>2, <2>1, OwnStep
  <2>2. CASE q # r
    BY <1>1, <1>2, <2>2, OthersStill, StillInStep
  <2> QED
    BY <2>1, <2>2
<1>3. CASE UNCHANGED vars
  BY <1>1, <1>3, StillInStep DEF vars, requestVars, childVars, Still
<1> QED
  BY <1>2, <1>3 DEF Next, Moves

\* No step makes a result file one of an older run, and a request is prepared
\* by removing it.
LEMMA FilesStep == RequestInv /\ [Next]_vars => FilesAreNew'
<1> SUFFICES ASSUME RequestInv, [Next]_vars PROVE FilesAreNew'
  OBVIOUS
<1> DEFINE Late == Waiting \union {"send", "finish"}
<1> DEFINE Goal == \A r \in Queues : pc'[r] \in Late =>
                       model'[r] = model[r] /\ model[r] \in Models
                       /\ ((pc[r] \in Late /\ partial'[model[r]] \in {partial[model[r]], "new", "none"})
                           \/ partial'[model[r]] = "none")
<1>1. /\ pc \in [Queues -> Pc] /\ model \in [Queues -> 0 .. ModelCount] /\ partial \in [Models -> Run]
      /\ job \in [Queues -> 0 .. ModelCount] /\ inbox \in [Queues -> 0 .. ModelCount + 1]
  BY DEF RequestInv, ClaimInv, TypeOK
<1>2. \A r \in Queues : pc[r] \in Serving => model[r] \in Models
  BY <1>1, WorkersAssumption DEF RequestInv, ClaimInv, ModelIsClaimed, Models
<1> USE DEF Goto, Serving, Waiting, requestVars, fileVars
<1>3. ASSUME NEW q \in Queues, Claim(q) PROVE Goal
  BY <1>1, <1>2, <1>3 DEF Claim, AfterLast
<1>4. ASSUME NEW q \in Queues, AcquirePermit(q) PROVE Goal
  BY <1>1, <1>2, <1>4 DEF AcquirePermit
<1>5. ASSUME NEW q \in Queues, Spawn(q) PROVE Goal
  BY <1>1, <1>2, <1>5 DEF Spawn, SendRow, FailureRow, Fail
<1>6. ASSUME NEW q \in Queues, ReadyRecv(q) PROVE Goal
  BY <1>1, <1>2, <1>6 DEF ReadyRecv, SpawnFailed, DropWorker, SendRow, FailureRow
<1>7. ASSUME NEW q \in Queues, ReadyExit(q) PROVE Goal
  BY <1>1, <1>2, <1>7 DEF ReadyExit, SpawnFailed, DropWorker, SendRow, FailureRow
<1>8. ASSUME NEW q \in Queues, Prepare(q) PROVE Goal
  BY <1>1, <1>2, <1>8 DEF Prepare, Cleared, SendRow, FailureRow, Fail
<1>9. ASSUME NEW q \in Queues, SendRun(q) PROVE Goal
  BY <1>1, <1>2, <1>9 DEF SendRun, EndRequest, Alive
<1>10. ASSUME NEW q \in Queues, Poll(q) PROVE Goal
  BY <1>1, <1>2, <1>10 DEF Poll, EndRequest, ActivePhase, Alive
<1>11. ASSUME NEW q \in Queues, Recv(q) PROVE Goal
  BY <1>1, <1>2, <1>11 DEF Recv, NothingReceived, EndRequest
<1>12. ASSUME NEW q \in Queues, ExitStatus(q) PROVE Goal
  BY <1>1, <1>2, <1>12 DEF ExitStatus, EndRequest
<1>13. ASSUME NEW q \in Queues, Finish(q) PROVE Goal
  BY <1>1, <1>2, <1>13 DEF Finish, SendRow, DropWorker, PartialResult
<1>14. ASSUME NEW q \in Queues, SendShutdown(q) PROVE Goal
  BY <1>1, <1>2, <1>14 DEF SendShutdown, Alive
<1>15. ASSUME NEW q \in Queues, Return(q) PROVE Goal
  BY <1>1, <1>2, <1>15 DEF Return, DropWorker, Alive
<1>16. ASSUME NEW q \in Queues, Expire(q) PROVE Goal
  BY <1>1, <1>2, <1>16 DEF Expire
<1>17. ASSUME NEW q \in Queues, Forward(q) PROVE Goal
  BY <1>1, <1>2, <1>17 DEF Forward
<1>18. ASSUME NEW q \in Queues, Load(q) PROVE Goal
  BY <1>1, <1>2, <1>18 DEF Load
<1>19. ASSUME NEW q \in Queues, Receive(q) PROVE Goal
  BY <1>1, <1>2, <1>19 DEF Receive
<1>20. ASSUME NEW q \in Queues, Advance(q) PROVE Goal
  BY <1>1, <1>2, <1>20 DEF Advance, NextStages
<1>21. ASSUME NEW q \in Queues, Answer(q) PROVE Goal
  BY <1>1, <1>2, <1>21 DEF Answer
<1>22. ASSUME NEW q \in Queues, Hang(q) PROVE Goal
  BY <1>1, <1>2, <1>22 DEF Hang, Fail
<1>23. ASSUME NEW q \in Queues, PrintLine(q) PROVE Goal
  BY <1>1, <1>2, <1>23 DEF PrintLine, Fail
<1>24. ASSUME NEW q \in Queues, NEW c \in {1, 70, 72}, Stop(q, c) PROVE Goal
  BY <1>1, <1>2, <1>24 DEF Stop
<1>25. ASSUME UNCHANGED vars PROVE Goal
  BY <1>1, <1>2, <1>25 DEF vars
<1> HIDE DEF Goal
<1>26. Goal
  BY <1>3, <1>4, <1>5, <1>6, <1>7, <1>8, <1>9, <1>10, <1>11, <1>12, <1>13, <1>14, <1>15, <1>16, <1>17, <1>18,
     <1>19, <1>20, <1>21, <1>22, <1>23, <1>24, <1>25 DEF Next, QueueStep, DaemonStep, Fault
<1> QED
  BY <1>26 DEF Goal, RequestInv, FilesAreNew

LEMMA RequestStep == RequestInv /\ [Next]_vars => RequestInv'
BY ClaimStep, DaemonStepKeeps, FilesStep DEF RequestInv

RowsAreRight == RowIsForItsModel /\ RowIsOfThisRun

LEMMA RowsStep == RequestInv /\ RowsAreRight /\ [Next]_vars => RowsAreRight'
<1> SUFFICES ASSUME RequestInv, RowsAreRight, [Next]_vars, NEW m \in Models, NEW i \in DOMAIN rows'[m]
             PROVE  rows'[m][i].of = m /\ rows'[m][i].partial # "old"
  BY DEF RowsAreRight, RowIsForItsModel, RowIsOfThisRun, Models
<1>1. CASE rows' = rows
  BY <1>1 DEF RowsAreRight, RowIsForItsModel, RowIsOfThisRun
<1>2. ASSUME NEW q \in Queues, Reports(q) PROVE rows'[m][i].of = m /\ rows'[m][i].partial # "old"
  <2>1. PICK row \in Row : (row = FailureRow(q) \/ (pc[q] = "finish" /\ row = FinishRow(q))) /\ SendRow(q, row)
    BY <1>2 DEF Reports
  <2>2. row.of = model[q] /\ row.partial # "old"
    <3>1. CASE row = FailureRow(q)
      BY <3>1 DEF FailureRow
    <3>2. CASE pc[q] = "finish" /\ row = FinishRow(q)
      <4>1. outcome[q].of = model[q] /\ partial[model[q]] # "old"
        BY <3>2 DEF RequestInv, DaemonFollowsRequest, InStep, FilesAreNew
      <4>2. PartialResult(q) # "old"
        BY <4>1 DEF PartialResult
      <4> QED
        BY <3>2, <4>1, <4>2 DEF FinishRow
    <3> QED
      BY <2>1, <3>1, <3>2
  <2>3. rows \in [Models -> Seq(Row)] /\ rows' = [rows EXCEPT ![model[q]] = Append(@, row)]
    BY <2>1 DEF SendRow, RequestInv, ClaimInv, TypeOK
  <2>4. CASE m # model[q]
    BY <2>3, <2>4 DEF RowsAreRight, RowIsForItsModel, RowIsOfThisRun
  <2>5. CASE m = model[q]
    <3>1. rows[m] \in Seq(Row) /\ rows'[m] = Append(rows[m], row)
      BY <2>3, <2>5
    <3>2. (i \in DOMAIN rows[m] /\ rows'[m][i] = rows[m][i]) \/ rows'[m][i] = row
      BY <3>1
    <3> QED
      BY <2>2, <2>5, <3>2 DEF RowsAreRight, RowIsForItsModel, RowIsOfThisRun
  <2> QED
    BY <2>4, <2>5
<1> QED
  BY <1>1, <1>2, ListStep DEF LeavesList, Claims, RequestInv

LEMMA InitRows == Init => RowsAreRight
BY DEF Init, RowsAreRight, RowIsForItsModel, RowIsOfThisRun, Models

\* The answer of a daemon is for the model its thread has in hand, however
\* late it comes: a request that is given up takes its daemon with it.
THEOREM AnswersAreForTheirModel == Spec => []RowIsForItsModel
<1>1. RowsAreRight => RowIsForItsModel
  BY DEF RowsAreRight
<1> QED
  BY <1>1, InitRequest, RequestStep, InitRows, RowsStep, PTL DEF Spec

\* No row holds the compile result of an older run.
THEOREM PartialResultsAreNew == Spec => []RowIsOfThisRun
<1>1. RowsAreRight => RowIsOfThisRun
  BY DEF RowsAreRight
<1> QED
  BY <1>1, InitRequest, RequestStep, InitRows, RowsStep, PTL DEF Spec

\* A daemon that its watchdog stopped while it worked for the request in hand
\* is reported as out of memory, or as a time-out that came first.
THEOREM WatchdogStopsAreReported == Spec => WatchdogStopIsReported
<1> DEFINE Step(q) == pc[q] # "finish" /\ pc'[q] = "finish" /\ code[q] = 70
                      /\ job[q] = model[q] /\ received[q] = <<>>
                      => outcome'[q].kind \in {"memory", "timeout"}
<1>1. ASSUME RequestInv, [Next]_vars, NEW q \in Queues PROVE Step(q)
  <2> SUFFICES ASSUME pc[q] # "finish", pc'[q] = "finish", code[q] = 70, job[q] = model[q], received[q] = <<>>
               PROVE  outcome'[q].kind \in {"memory", "timeout"}
    OBVIOUS
  <2>1. TypeOK /\ pc \in [Queues -> Pc] /\ outcome \in [Queues -> Outcome] /\ InStep(q)
    BY <1>1 DEF RequestInv, ClaimInv, TypeOK, DaemonFollowsRequest
  <2>2. pc'[q] # pc[q]
    OBVIOUS
  <2>3. Moves(q)
    <3>1. ~UNCHANGED vars
      BY <2>2 DEF vars
    <3>2. PICK r \in Queues : Moves(r)
      BY <1>1, <3>1 DEF Next, Moves
    <3> QED
      BY <2>1, <2>2, <3>2, OthersStill DEF Still
  <2>4. \/ Claim(q) \/ AcquirePermit(q) \/ Spawn(q) \/ ReadyRecv(q) \/ ReadyExit(q) \/ Prepare(q) \/ Finish(q)
        \/ SendShutdown(q) \/ Return(q)
        => pc'[q] # "finish"
    BY <2>1 DEF Claim, AfterLast, AcquirePermit, Spawn, ReadyRecv, ReadyExit, SpawnFailed, Prepare, Finish, SendRow,
                SendShutdown, Return, Goto
  <2>5. \/ Expire(q) \/ Forward(q) \/ DaemonStep(q) \/ Fault(q)
        => pc'[q] = pc[q]
    BY DEF Expire, Forward, DaemonStep, Fault, Load, Receive, Advance, Answer, Hang, PrintLine, Stop
  <2>6. SendRun(q) \/ Poll(q) \/ Recv(q) \/ ExitStatus(q)
    BY <2>2, <2>3, <2>4, <2>5 DEF Moves, QueueStep
  <2>7. ~SendRun(q)
    <3>1. SendRun(q) => AtRest(q) /\ pc[q] \in Serving
      BY <2>1 DEF SendRun, InStep, Waiting, Serving
    <3>2. pc[q] \in Serving => model[q] # 0
      BY <1>1 DEF RequestInv, ClaimInv, ModelIsClaimed
    <3> QED
      BY <3>1, <3>2 DEF AtRest
  <2>8. CASE Poll(q)
    BY <2>1, <2>8 DEF Poll, EndRequest, Goto
  <2>9. CASE Recv(q)
    BY <2>1, <2>9 DEF Recv, NothingReceived, Goto
  <2>10. CASE ExitStatus(q)
    BY <2>1, <2>10 DEF ExitStatus, EndRequest, Goto
  <2> QED
    BY <2>6, <2>7, <2>8, <2>9, <2>10
<1>2. RequestInv /\ [Next]_vars =>
        [\A q \in Queues :
            /\ pc[q] # "finish" /\ pc'[q] = "finish"
            /\ code[q] = 70 /\ job[q] = model[q] /\ received[q] = <<>>
            => outcome'[q].kind \in {"memory", "timeout"}]_vars
  BY <1>1
<1> QED
  BY <1>2, InitRequest, RequestStep, PTL DEF Spec, WatchdogStopIsReported

=============================================================================
