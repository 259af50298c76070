----------------------------- MODULE ModelWorkers -----------------------------
(***************************************************************************)
(* The pool that compiles and simulates a list of models in worker          *)
(* processes.                                                               *)
(*                                                                          *)
(* A queue thread claims the next model, takes its memory permit, starts a  *)
(* worker daemon if it has none, sends it the request and polls: the        *)
(* progress file the daemon writes (for the time-out of the phase it is     *)
(* in), the messages a reader thread forwards from its stdout, and its exit *)
(* status.  A daemon that answered is kept for the next model; in every     *)
(* other case the thread drops it, which kills it.                          *)
(*                                                                          *)
(* The daemon may hang, be stopped by its memory watchdog (exit 70), lose   *)
(* the memory accounting (exit 72), panic (exit 1) or print a line that is  *)
(* no message, at any moment.                                               *)
(***************************************************************************)
EXTENDS Naturals, Sequences, FiniteSets

CONSTANTS
    Queues,          \* queue threads
    ModelCount,      \* length of names_chunk
    Capacity,        \* capacity of the memory token limiter
    Cost,            \* compile_model_memory_mb, in tokens
    MaxFaults        \* bound on the faults of daemons

ASSUME WorkersAssumption ==
    /\ IsFiniteSet(Queues)
    /\ ModelCount \in Nat
    /\ Capacity \in Nat \ {0}
    /\ Cost \in Nat
    /\ MaxFaults \in Nat

Models == 1 .. ModelCount

\* acquire: requested.clamp(1, capacity)
Acquired == IF Cost = 0 THEN 1 ELSE IF Cost > Capacity THEN Capacity ELSE Cost

VARIABLES
    next,            \* next_model, from 1
    rows,            \* per model: the rows sent to the consumer
    available,       \* tokens left in the limiter
    permit,          \* per queue thread: whether it has its memory permit,
    pc,              \*   where it is,
    model,           \*   the model it has in hand, 0 for none,
    lastPhase,       \*   the phase its monitor saw last,
    expired,         \*   whether the time of that phase is up,
    outcome,         \*   how the request ended, and the model of the answer,
    child,           \*   its daemon's stage, "none" without a daemon,
    code,            \*   the daemon's exit code,
    hung,            \*   whether it has stopped making progress,
    job,             \*   the model it works on, 0 for none,
    inbox,           \*   the command in its stdin, 0 for none,
    pipe,            \*   the lines in its stdout,
    received,        \*   and those the reader thread has forwarded
    progress,        \* per model: what progress.jsonl says, "none" without a file
    partial,         \* per model: which run wrote partial_result.json
    faults           \* faults so far

listVars == <<next, rows>>
tokenVars == <<available, permit>>
requestVars == <<model, lastPhase, expired, outcome>>
childVars == <<child, code, hung, job, inbox, pipe, received>>
fileVars == <<progress, partial>>
vars == <<listVars, tokenVars, pc, requestVars, childVars, fileVars, faults>>

Pc == {"claim", "permit", "spawn", "ready", "readyExit", "prepare", "send",
       "poll", "recv", "exit", "finish", "shutdown", "join", "done"}

\* "quiet" is a file whose last event completed a phase.
Phase == {"none", "quiet", "compile", "sim"}
Busy == {"received", "compile", "compiled", "artifact", "built", "simulate", "simulated"}
Stage == Busy \union {"none", "loading", "idle", "exited"}
Codes == {0, 1, 9, 70, 72}
Run == {"none", "old", "new"}
Outcome == [kind : {"answer", "timeout", "memory", "failed"}, of : 0 .. ModelCount]
Row == [kind : {"answer", "timeout", "memory", "failed"}, of : 0 .. ModelCount, partial : Run]
Message == [kind : {"ready", "result", "other"}, of : 0 .. ModelCount]
Shutdown == ModelCount + 1

\* Every thread claims past the end of the list once.
TypeOK ==
    /\ next \in 1 .. ModelCount + 1 + Cardinality(Queues)
    /\ rows \in [Models -> Seq(Row)]
    /\ available \in 0 .. Capacity
    /\ permit \in [Queues -> BOOLEAN]
    /\ pc \in [Queues -> Pc]
    /\ model \in [Queues -> 0 .. ModelCount]
    /\ lastPhase \in [Queues -> Phase \ {"quiet"}]
    /\ expired \in [Queues -> BOOLEAN]
    /\ outcome \in [Queues -> Outcome]
    /\ child \in [Queues -> Stage]
    /\ code \in [Queues -> Codes]
    /\ hung \in [Queues -> BOOLEAN]
    /\ job \in [Queues -> 0 .. ModelCount]
    /\ inbox \in [Queues -> 0 .. ModelCount + 1]
    /\ pipe \in [Queues -> Seq(Message)]
    /\ received \in [Queues -> Seq(Message)]
    /\ progress \in [Models -> Phase]
    /\ partial \in [Models -> Run]
    /\ faults \in 0 .. MaxFaults

Goto(q, label) == pc' = [pc EXCEPT ![q] = label]

Alive(q) == child[q] \notin {"none", "exited"}

\* Drop of ModelWorkerDaemon: the process is killed and waited for.
DropWorker(q) ==
    /\ child' = [child EXCEPT ![q] = "none"]
    /\ code' = [code EXCEPT ![q] = 0]
    /\ hung' = [hung EXCEPT ![q] = FALSE]
    /\ job' = [job EXCEPT ![q] = 0]
    /\ inbox' = [inbox EXCEPT ![q] = 0]
    /\ pipe' = [pipe EXCEPT ![q] = <<>>]
    /\ received' = [received EXCEPT ![q] = <<>>]

\* A row for the claimed model goes to the consumer and the loop continues;
\* what the thread knew of the request is out of scope.
SendRow(q, row) ==
    /\ rows' = [rows EXCEPT ![model[q]] = Append(@, row)]
    /\ Goto(q, "claim")
    /\ model' = [model EXCEPT ![q] = 0]
    /\ lastPhase' = [lastPhase EXCEPT ![q] = "none"]
    /\ expired' = [expired EXCEPT ![q] = FALSE]
    /\ outcome' = [outcome EXCEPT ![q] = [kind |-> "failed", of |-> 0]]
    /\ UNCHANGED next

\* model_worker_failure_result
FailureRow(q) == [kind |-> "failed", of |-> model[q], partial |-> "none"]

\* One of the things that can fail does.
Fail == faults < MaxFaults /\ faults' = faults + 1

-----------------------------------------------------------------------------
(* run_model_worker_queue and ModelWorkerDaemon::spawn.                      *)

\* A slip for AfterLast: a thread without a daemon goes on claiming.
ClaimsAgain(q) == IF child[q] = "none" THEN "claim" ELSE "shutdown"

AfterLast(q) == IF child[q] = "none" THEN "join" ELSE "shutdown"

\* next_model.fetch_add(1)
Claim(q) ==
    /\ pc[q] = "claim"
    /\ next' = next + 1
    /\ \/ /\ next \in Models
          /\ model' = [model EXCEPT ![q] = next]
          /\ Goto(q, IF ~permit[q] THEN "permit" ELSE IF child[q] = "none" THEN "spawn" ELSE "prepare")
       \/ /\ next \notin Models
          /\ Goto(q, AfterLast(q))
          /\ UNCHANGED model
    /\ UNCHANGED <<rows, tokenVars, lastPhase, expired, outcome, childVars, fileVars, faults>>

\* A slip for AcquirePermit: any tokens will do.
AcquireSomeTokens(q) ==
    /\ pc[q] = "permit"
    /\ available > 0
    /\ available' = IF available >= Acquired THEN available - Acquired ELSE 0
    /\ permit' = [permit EXCEPT ![q] = TRUE]
    /\ Goto(q, "spawn")
    /\ UNCHANGED <<listVars, requestVars, childVars, fileVars, faults>>

\* ResourceTokenLimiter::acquire waits for the tokens.
AcquirePermit(q) ==
    /\ pc[q] = "permit"
    /\ available >= Acquired
    /\ available' = available - Acquired
    /\ permit' = [permit EXCEPT ![q] = TRUE]
    /\ Goto(q, "spawn")
    /\ UNCHANGED <<listVars, requestVars, childVars, fileVars, faults>>

Spawn(q) ==
    /\ pc[q] = "spawn"
    /\ \/ /\ child' = [child EXCEPT ![q] = "loading"]
          /\ expired' = [expired EXCEPT ![q] = FALSE]
          /\ Goto(q, "ready")
          /\ UNCHANGED <<listVars, model, lastPhase, outcome, code, hung, job, inbox, pipe, received, faults>>
       \/ Fail /\ SendRow(q, FailureRow(q)) /\ UNCHANGED childVars
    /\ UNCHANGED <<tokenVars, fileVars>>

\* A slip for SpawnFailed: the loop continues without a row.
SpawnSkipped(q) ==
    /\ DropWorker(q)
    /\ Goto(q, "claim")
    /\ UNCHANGED <<listVars, requestVars>>

\* A daemon that does not get ready is killed, and the model's row says so.
SpawnFailed(q) == DropWorker(q) /\ SendRow(q, FailureRow(q))

\* wait_for_ready: the messages, the exit status, the time, and again.
ReadyRecv(q) ==
    /\ pc[q] = "ready"
    /\ \/ /\ received[q] = <<>>
          /\ Goto(q, "readyExit")
          /\ UNCHANGED <<listVars, requestVars, childVars>>
       \/ /\ received[q] # <<>>
          /\ Head(received[q]).kind = "ready"
          /\ received' = [received EXCEPT ![q] = Tail(@)]
          /\ Goto(q, "prepare")
          /\ UNCHANGED <<listVars, requestVars, child, code, hung, job, inbox, pipe>>
       \/ /\ received[q] # <<>>
          /\ Head(received[q]).kind # "ready"
          /\ SpawnFailed(q)
    /\ UNCHANGED <<tokenVars, fileVars, faults>>

ReadyExit(q) ==
    /\ pc[q] = "readyExit"
    /\ \/ /\ child[q] = "exited" \/ expired[q]
          /\ SpawnFailed(q)
       \/ /\ child[q] # "exited" /\ ~expired[q]
          /\ Goto(q, "ready")
          /\ UNCHANGED <<listVars, requestVars, childVars>>
    /\ UNCHANGED <<tokenVars, fileVars, faults>>

\* A slip for Cleared: the files of an older run stay.
NotCleared(q) == UNCHANGED fileVars

\* The progress and partial result files of the claimed model are removed.
Cleared(q) ==
    /\ progress' = [progress EXCEPT ![model[q]] = "none"]
    /\ partial' = [partial EXCEPT ![model[q]] = "none"]

\* prepare_model_worker_request; where it cannot write the daemon is kept.
Prepare(q) ==
    /\ pc[q] = "prepare"
    /\ \/ /\ Cleared(q)
          /\ Goto(q, "send")
          /\ UNCHANGED <<listVars, requestVars, faults>>
       \/ Fail /\ SendRow(q, FailureRow(q)) /\ UNCHANGED fileVars
    /\ UNCHANGED <<tokenVars, childVars>>

-----------------------------------------------------------------------------
(* run_request.                                                              *)

EndRequest(q, result) ==
    /\ outcome' = [outcome EXCEPT ![q] = result]
    /\ Goto(q, "finish")

\* send_command: the write fails once the daemon is gone.
SendRun(q) ==
    /\ pc[q] = "send"
    /\ \/ /\ Alive(q)
          /\ inbox' = [inbox EXCEPT ![q] = model[q]]
          /\ lastPhase' = [lastPhase EXCEPT ![q] = "none"]
          /\ expired' = [expired EXCEPT ![q] = FALSE]
          /\ Goto(q, "poll")
          /\ UNCHANGED outcome
       \/ /\ ~Alive(q)
          /\ EndRequest(q, [kind |-> "failed", of |-> model[q]])
          /\ UNCHANGED <<inbox, lastPhase, expired>>
    /\ UNCHANGED <<listVars, tokenVars, model, child, code, hung, job, pipe, received, fileVars, faults>>

\* worker_progress_state: the phase that was started and not completed.
ActivePhase(p) == IF p = "quiet" THEN "none" ELSE p

\* A slip for HasTimeLimit: only a phase has one.
OnlyPhasesHaveTimeLimit(p) == p \notin {"none", "quiet"}

\* An active phase has a time limit, and so has the time before any progress.
HasTimeLimit(p) == p # "quiet"

\* ModelWorkerPhaseMonitor::update, then the time-outs, which kill the daemon.
Poll(q) ==
    /\ pc[q] = "poll"
    /\ LET p == progress[model[q]]
           same == ActivePhase(p) = lastPhase[q]
           late == expired[q] /\ same /\ HasTimeLimit(p)
       IN /\ lastPhase' = [lastPhase EXCEPT ![q] = ActivePhase(p)]
          /\ expired' = [expired EXCEPT ![q] = @ /\ same]
          /\ \/ /\ late
                /\ EndRequest(q, [kind |-> "timeout", of |-> model[q]])
                /\ child' = [child EXCEPT ![q] = "exited"]
                /\ code' = IF Alive(q) THEN [code EXCEPT ![q] = 9] ELSE code
             \/ /\ ~late
                /\ Goto(q, "recv")
                /\ UNCHANGED <<outcome, child, code>>
    /\ UNCHANGED <<listVars, tokenVars, model, hung, job, inbox, pipe, received, fileVars, faults>>

\* A slip for NothingReceived: a closed stdout is a transport failure at once.
FailedOnDisconnect(q) ==
    IF child[q] = "exited" /\ pipe[q] = <<>>
    THEN EndRequest(q, [kind |-> "failed", of |-> model[q]])
    ELSE Goto(q, "exit") /\ UNCHANGED outcome

\* try_recv finds nothing, whether or not the reader thread is still there.
NothingReceived(q) == Goto(q, "exit") /\ UNCHANGED outcome

\* An answer ends the request, and so does a line that is no message.
Recv(q) ==
    /\ pc[q] = "recv"
    /\ \/ received[q] = <<>> /\ NothingReceived(q) /\ UNCHANGED received
       \/ /\ received[q] # <<>>
          /\ received' = [received EXCEPT ![q] = Tail(@)]
          /\ LET message == Head(received[q])
             IN \/ message.kind = "result" /\ EndRequest(q, [kind |-> "answer", of |-> message.of])
                \/ message.kind = "other" /\ EndRequest(q, [kind |-> "failed", of |-> model[q]])
                \/ message.kind = "ready" /\ Goto(q, "exit") /\ UNCHANGED outcome
    /\ UNCHANGED <<listVars, tokenVars, model, lastPhase, expired,
                   child, code, hung, job, inbox, pipe, fileVars, faults>>

\* try_wait; a daemon that still runs is polled again.
ExitStatus(q) ==
    /\ pc[q] = "exit"
    /\ \/ /\ child[q] = "exited"
          /\ EndRequest(q, [kind |-> IF code[q] = 70 THEN "memory" ELSE "failed", of |-> model[q]])
       \/ /\ child[q] # "exited"
          /\ Goto(q, "poll")
          /\ UNCHANGED outcome
    /\ UNCHANGED <<listVars, tokenVars, model, lastPhase, expired, childVars, fileVars, faults>>

\* A slip for KeepsWorker: a failed request leaves the daemon in place.
KeepsLiveWorker(q) == outcome[q].kind = "answer" \/ Alive(q)

\* Only a daemon that answered serves the next model.
KeepsWorker(q) == outcome[q].kind = "answer"

\* The compile result of a request that ended in a simulation phase.
PartialResult(q) ==
    IF outcome[q].kind \in {"timeout", "memory"} /\ lastPhase[q] = "sim"
    THEN partial[model[q]] ELSE "none"

\* finish_in_process_worker_outcome
Finish(q) ==
    /\ pc[q] = "finish"
    /\ SendRow(q, [kind |-> outcome[q].kind, of |-> outcome[q].of, partial |-> PartialResult(q)])
    /\ \/ KeepsWorker(q) /\ UNCHANGED childVars
       \/ ~KeepsWorker(q) /\ DropWorker(q)
    /\ UNCHANGED <<tokenVars, fileVars, faults>>

\* shutdown_and_join
SendShutdown(q) ==
    /\ pc[q] = "shutdown"
    /\ inbox' = IF Alive(q) THEN [inbox EXCEPT ![q] = Shutdown] ELSE inbox
    /\ Goto(q, "join")
    /\ UNCHANGED <<listVars, tokenVars, requestVars, child, code, hung, job, pipe, received, fileVars, faults>>

\* The thread returns and drops its permit and its daemon.
Return(q) ==
    /\ pc[q] = "join"
    /\ ~Alive(q)
    /\ available' = IF ~permit[q] THEN available
                    ELSE IF available + Acquired > Capacity THEN Capacity ELSE available + Acquired
    /\ permit' = [permit EXCEPT ![q] = FALSE]
    /\ DropWorker(q)
    /\ Goto(q, "done")
    /\ UNCHANGED <<listVars, requestVars, fileVars, faults>>

\* Time passes for a thread that polls.
Expire(q) ==
    /\ pc[q] \in {"ready", "readyExit", "poll", "recv", "exit"}
    /\ ~expired[q]
    /\ expired' = [expired EXCEPT ![q] = TRUE]
    /\ UNCHANGED <<listVars, tokenVars, pc, model, lastPhase, outcome, childVars, fileVars, faults>>

\* spawn_model_worker_message_reader
Forward(q) ==
    /\ pipe[q] # <<>>
    /\ received' = [received EXCEPT ![q] = Append(@, Head(pipe[q]))]
    /\ pipe' = [pipe EXCEPT ![q] = Tail(@)]
    /\ UNCHANGED <<listVars, tokenVars, pc, requestVars, child, code, hung, job, inbox, fileVars, faults>>

-----------------------------------------------------------------------------
(* The daemon.                                                               *)

\* load_source_root, then the ready message.
Load(q) ==
    /\ child[q] = "loading" /\ ~hung[q]
    /\ child' = [child EXCEPT ![q] = "idle"]
    /\ pipe' = [pipe EXCEPT ![q] = Append(@, [kind |-> "ready", of |-> 0])]
    /\ UNCHANGED <<listVars, tokenVars, pc, requestVars, code, hung, job, inbox, received, fileVars, faults>>

\* The next command of run_worker_daemon.
Receive(q) ==
    /\ child[q] = "idle" /\ inbox[q] # 0
    /\ inbox' = [inbox EXCEPT ![q] = 0]
    /\ \/ /\ inbox[q] = Shutdown
          /\ child' = [child EXCEPT ![q] = "exited"]
          /\ code' = [code EXCEPT ![q] = 0]
          /\ UNCHANGED <<job, fileVars>>
       \/ /\ inbox[q] # Shutdown
          /\ child' = [child EXCEPT ![q] = "received"]
          /\ job' = [job EXCEPT ![q] = inbox[q]]
          /\ progress' = [progress EXCEPT ![inbox[q]] = "none"]
          /\ partial' = [partial EXCEPT ![inbox[q]] = "none"]
          /\ UNCHANGED code
    /\ UNCHANGED <<listVars, tokenVars, pc, requestVars, hung, pipe, received, faults>>

\* The stages of run_model_request and the progress each one reports.  Between
\* two phases of the compiler nothing is active; a failed compile stays active.
NextStages ==
    {<<"received", "compile", "compile">>, <<"compile", "compiled", "quiet">>,
     <<"compiled", "artifact", "compile">>, <<"artifact", "built", "quiet">>,
     <<"built", "simulate", "sim">>, <<"simulate", "simulated", "quiet">>}

\* The compile result is kept aside before the artifacts and the simulation.
Advance(q) ==
    /\ ~hung[q]
    /\ \E step \in NextStages :
        /\ child[q] = step[1]
        /\ child' = [child EXCEPT ![q] = step[2]]
        /\ progress' = [progress EXCEPT ![job[q]] = step[3]]
        /\ partial' = IF step[2] = "artifact" THEN [partial EXCEPT ![job[q]] = "new"] ELSE partial
    /\ UNCHANGED <<listVars, tokenVars, pc, requestVars, code, hung, job, inbox, pipe, received, faults>>

Answer(q) ==
    /\ child[q] \in {"compile", "built", "simulated"} /\ ~hung[q]
    /\ child' = [child EXCEPT ![q] = "idle"]
    /\ job' = [job EXCEPT ![q] = 0]
    /\ pipe' = [pipe EXCEPT ![q] = Append(@, [kind |-> "result", of |-> job[q]])]
    /\ UNCHANGED <<listVars, tokenVars, pc, requestVars, code, hung, inbox, received, fileVars, faults>>

\* The memory watchdog ends the process, in any stage; an error of the source
\* root or a panic ends it while it works.
Stop(q, c) ==
    /\ Alive(q)
    /\ c = 1 => child[q] # "idle"
    /\ Fail
    /\ child' = [child EXCEPT ![q] = "exited"]
    /\ code' = [code EXCEPT ![q] = c]
    /\ UNCHANGED <<listVars, tokenVars, pc, requestVars, hung, job, inbox, pipe, received, fileVars>>

Hang(q) ==
    /\ child[q] \in Busy \union {"loading"} /\ ~hung[q]
    /\ Fail
    /\ hung' = [hung EXCEPT ![q] = TRUE]
    /\ UNCHANGED <<listVars, tokenVars, pc, requestVars, child, code, job, inbox, pipe, received, fileVars>>

\* Some code of the daemon prints to its stdout.
PrintLine(q) ==
    /\ child[q] \in Busy \union {"loading"} /\ ~hung[q]
    /\ Fail
    /\ pipe' = [pipe EXCEPT ![q] = Append(@, [kind |-> "other", of |-> 0])]
    /\ UNCHANGED <<listVars, tokenVars, pc, requestVars, child, code, hung, job, inbox, received, fileVars>>

-----------------------------------------------------------------------------

\* The output directories may hold the files of an older run.
Init ==
    /\ next = 1
    /\ rows = [m \in Models |-> <<>>]
    /\ available = Capacity
    /\ permit = [q \in Queues |-> FALSE]
    /\ pc = [q \in Queues |-> "claim"]
    /\ model = [q \in Queues |-> 0]
    /\ lastPhase = [q \in Queues |-> "none"]
    /\ expired = [q \in Queues |-> FALSE]
    /\ outcome = [q \in Queues |-> [kind |-> "failed", of |-> 0]]
    /\ child = [q \in Queues |-> "none"]
    /\ code = [q \in Queues |-> 0]
    /\ hung = [q \in Queues |-> FALSE]
    /\ job = [q \in Queues |-> 0]
    /\ inbox = [q \in Queues |-> 0]
    /\ pipe = [q \in Queues |-> <<>>]
    /\ received = [q \in Queues |-> <<>>]
    /\ \E ranBefore \in BOOLEAN :
        /\ progress = [m \in Models |-> IF ranBefore THEN "sim" ELSE "none"]
        /\ partial = [m \in Models |-> IF ranBefore THEN "old" ELSE "none"]
    /\ faults = 0

QueueStep(q) ==
    \/ Claim(q) \/ AcquirePermit(q) \/ Spawn(q) \/ ReadyRecv(q) \/ ReadyExit(q)
    \/ Prepare(q) \/ SendRun(q) \/ Poll(q) \/ Recv(q) \/ ExitStatus(q) \/ Finish(q)
    \/ SendShutdown(q) \/ Return(q)

DaemonStep(q) == Load(q) \/ Receive(q) \/ Advance(q) \/ Answer(q)

Fault(q) == Hang(q) \/ PrintLine(q) \/ \E c \in {1, 70, 72} : Stop(q, c)

Next ==
    \E q \in Queues : QueueStep(q) \/ Expire(q) \/ Forward(q) \/ DaemonStep(q) \/ Fault(q)

\* The threads of the pool and of a daemon that does not hang get to run, and
\* time passes.
Fairness ==
    \A q \in Queues : /\ WF_vars(QueueStep(q))
                      /\ WF_vars(Expire(q))
                      /\ WF_vars(Forward(q))
                      /\ WF_vars(DaemonStep(q))

Spec == Init /\ [][Next]_vars

FairSpec == Spec /\ Fairness

-----------------------------------------------------------------------------
(* Properties.                                                               *)

InHand(m) == \E q \in Queues : model[q] = m

\* Every model that was claimed gets exactly one row, through spawn failures,
\* time-outs, crashes and lines that are no message: run_model_worker_queue
\* sends one on every path and the threads never claim the same model.
OneRowEach ==
    \A m \in Models : Len(rows[m]) = IF m < next /\ ~InHand(m) THEN 1 ELSE 0

\* An answer a daemon gives late, to a request its thread has given up, never
\* becomes the row of the next model.
RowIsForItsModel ==
    \A m \in Models : \A i \in DOMAIN rows[m] : rows[m][i].of = m

\* The compile result in the row of a simulation that timed out or ran out of
\* memory is one this run wrote: not one of an older run's files.
RowIsOfThisRun ==
    \A m \in Models : \A i \in DOMAIN rows[m] : rows[m][i].partial # "old"

\* A thread has a process only with a permit, and the permits given never
\* exceed the capacity, so the processes that run never cost more than it.
MemoryBounded ==
    /\ available + Acquired * Cardinality({q \in Queues : permit[q]}) = Capacity
    /\ \A q \in Queues : child[q] # "none" => permit[q]

\* A daemon that its memory watchdog stopped during a request is reported as
\* that, or as a time-out that came first: never as a failure of the transport,
\* although its stdout closes before its exit status is there.
WatchdogStopIsReported ==
    [][\A q \in Queues :
          /\ pc[q] # "finish" /\ pc'[q] = "finish"
          /\ code[q] = 70 /\ job[q] = model[q] /\ received[q] = <<>>
          => outcome'[q].kind \in {"memory", "timeout"}]_vars

\* A daemon that hangs where no phase is active is never given up.
HangsUnseen(q) == hung[q] /\ Alive(q) /\ child[q] \in {"compiled", "built", "simulated"}

\* The pool comes to its end: a hang is the only thing it may wait for, and
\* only one outside the phases the daemon reports.
PoolFinishes == <>(\A q \in Queues : pc[q] = "done") \/ <>(\E q \in Queues : HangsUnseen(q))
=============================================================================
