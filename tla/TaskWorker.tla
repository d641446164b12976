----------------------------- MODULE TaskWorker -----------------------------
(***************************************************************************)
(* The worker pool of the async engine: the task rows of the store, the    *)
(* message bus between dispatcher and workers, and the worker life cycle   *)
(*   FETCH -> MARK STARTED -> EXECUTE -> SAVE RESULT -> ACK.               *)
(*                                                                         *)
(* The store commits every statement by itself, so each statement another  *)
(* process can observe is a step of its own.  Who publishes messages, and  *)
(* what happens when a task ends, is left to the modules that extend this  *)
(* one: WorkflowRun for a run inside one process, CrossProcess for API,    *)
(* advancer and workers as separate services around RabbitMQ.              *)
(***************************************************************************)
EXTENDS TaskGraph

CONSTANTS
  Worker,       \* worker threads (or worker processes)
  MaxAttempts,  \* Task.max_attempts, the cap of RetryPolicy.should_retry
  MaxFaults,    \* bound: how many store calls may raise in one behaviour
  NoMsg, NoTask

ASSUME WorkerAssumption ==
  /\ MaxAttempts \in Nat \ {0}
  /\ MaxFaults \in Nat
  /\ NoMsg \notin [task: Task, attempt: 1..MaxAttempts]
  /\ NoTask \notin Task

(* Values of execution_state.state / tasks.status this engine writes.      *)
TaskStatus == {"created", "queued", "running", "retrying", "completed", "failed"}

(* A bus message names the task and the attempt it asks for.               *)
Msg == [task: Task, attempt: 1..MaxAttempts]

VARIABLES
  es,       \* execution_state.state, the column mark_started compares and sets
  status,   \* tasks.status
  attempt,  \* tasks.attempt
  results,  \* task_results: the statuses recorded for a task
  queue,    \* the bus: how many copies of each message wait in its queues
  dlq,      \* tasks with a message in the dead-letter queue
  pc,       \* where each worker is
  job,      \* the message each worker is processing
  target,   \* the task a worker's mark_failed is about
  unacked,  \* deliveries fetched and not yet acknowledged
  faults    \* how many store calls have raised so far

storeVars == <<es, status, attempt, results>>
busVars   == <<queue, dlq, unacked>>
workVars  == <<pc, job, target>>
wvars     == <<storeVars, busVars, workVars, faults>>

WorkerPC ==
  {"idle", "check", "refused", "claim", "claimed", "begin", "run",
   "done", "doneRow", "doneResult", "doneAck", "onDone",
   "retry", "retryMark", "retryRow", "requeue", "retryAck",
   "dead", "failState", "failRow", "failResult", "deadAck", "onFail",
   "advance", "cascade"}

(* The labels of the retry branch before the message is requeued.          *)
Retrying == {"retry", "retryMark", "retryRow", "requeue"}

TypeOK ==
  /\ es \in [Task -> TaskStatus]
  /\ status \in [Task -> TaskStatus]
  /\ attempt \in [Task -> 1..MaxAttempts]
  /\ results \in [Task -> SUBSET {"completed", "failed"}]
  /\ queue \in [Msg -> Nat]
  /\ dlq \in SUBSET Task
  /\ pc \in [Worker -> WorkerPC]
  /\ job \in [Worker -> Msg \cup {NoMsg}]
  /\ target \in [Worker -> Task \cup {NoTask}]
  /\ unacked \in [Worker -> SUBSET Msg]
  /\ faults \in 0..MaxFaults
  /\ \A w \in Worker : pc[w] # "idle" => job[w] \in Msg
  /\ \A w \in Worker :
        pc[w] \in {"failState", "failRow", "failResult"} => target[w] \in Task
  /\ \A w \in Worker : pc[w] \in Retrying => job[w].attempt < MaxAttempts

(* create_tasks: every row queued, every execution_state row created.      *)
WorkerInit ==
  /\ es = [t \in Task |-> "created"]
  /\ status = [t \in Task |-> "queued"]
  /\ attempt = [t \in Task |-> 1]
  /\ results = [t \in Task |-> {}]
  /\ queue = [m \in Msg |-> 0]
  /\ dlq = {}
  /\ pc = [w \in Worker |-> "idle"]
  /\ job = [w \in Worker |-> NoMsg]
  /\ target = [w \in Worker |-> NoTask]
  /\ unacked = [w \in Worker |-> {}]
  /\ faults = 0

-----------------------------------------------------------------------------
(* Fragments the actions are built from.                                   *)

At(w, label) == pc[w] = label
GoTo(w, label) == pc' = [pc EXCEPT ![w] = label]
Doing(w) == job[w].task

Enqueue(m) == queue' = [queue EXCEPT ![m] = @ + 1]
Ack(w) == unacked' = [unacked EXCEPT ![w] = @ \ {job[w]}]
SetState(t, s) == es' = [es EXCEPT ![t] = s]
SetRow(t, s) == status' = [status EXCEPT ![t] = s]

(* The worker drops its message and goes back to polling.                  *)
Release(w) ==
  /\ GoTo(w, "idle")
  /\ job' = [job EXCEPT ![w] = NoMsg]
  /\ target' = [target EXCEPT ![w] = NoTask]

(* classify_failure and should_retry: where a failed attempt goes.         *)
FailureRoute(w, retryable) ==
  IF retryable /\ job[w].attempt < MaxAttempts THEN "retry" ELSE "dead"

-----------------------------------------------------------------------------
(* Worker._process up to the claim.                                        *)

(* bus.get: a due message leaves the queue and stays unacked.  Queues of   *)
(* several task types and retry delays make any order possible.  A message *)
(* comes back from its retry delay when retry_at has passed, so the guard  *)
(* against early retries in _process is not taken here.                    *)
Fetch(w, m) ==
  /\ At(w, "idle")
  /\ queue[m] > 0
  /\ queue' = [queue EXCEPT ![m] = @ - 1]
  /\ unacked' = [unacked EXCEPT ![w] = @ \cup {m}]
  /\ job' = [job EXCEPT ![w] = m]
  /\ GoTo(w, "check")
  /\ UNCHANGED <<storeVars, dlq, target, faults>>

(* The task is already completed: acknowledge the duplicate.               *)
SkipCompleted(w) ==
  /\ At(w, "check")
  /\ es[Doing(w)] = "completed"
  /\ Ack(w)
  /\ Release(w)
  /\ UNCHANGED <<storeVars, queue, dlq, faults>>

(* breaker.allow: the breaker's own state is abstracted to the choice      *)
(* between Admit and Refuse.                                               *)
Admit(w) ==
  /\ At(w, "check")
  /\ es[Doing(w)] # "completed"
  /\ GoTo(w, "claim")
  /\ UNCHANGED <<storeVars, busVars, job, target, faults>>

(* The breaker is open: ack first, put the message back afterwards.        *)
Refuse(w) ==
  /\ At(w, "check")
  /\ es[Doing(w)] # "completed"
  /\ Ack(w)
  /\ GoTo(w, "refused")
  /\ UNCHANGED <<storeVars, queue, dlq, job, target, faults>>

(* Fault: the message is acknowledged and not put back.                    *)
PutBack_Lost(w) ==
  /\ At(w, "refused")
  /\ Release(w)
  /\ UNCHANGED <<storeVars, busVars, faults>>

(* Fault: the worker goes on after putting the message back.               *)
PutBack_NoReturn(w) ==
  /\ At(w, "refused")
  /\ Enqueue(job[w])
  /\ GoTo(w, "claim")
  /\ UNCHANGED <<storeVars, dlq, unacked, job, target, faults>>

PutBack(w) ==
  /\ At(w, "refused")
  /\ Enqueue(job[w])
  /\ Release(w)
  /\ UNCHANGED <<storeVars, dlq, unacked, faults>>

(* mark_started: the conditional UPDATE is won ...                         *)
Claim(w) ==
  /\ At(w, "claim")
  /\ es[Doing(w)] \notin {"completed", "running"}
  /\ SetState(Doing(w), "running")
  /\ GoTo(w, "claimed")
  /\ UNCHANGED <<status, attempt, results, busVars, job, target, faults>>

(* Fault: a task marked for its next attempt counts as taken.              *)
LoseClaim_Retrying(w) ==
  /\ At(w, "claim")
  /\ es[Doing(w)] \in {"completed", "running", "retrying"}
  /\ Ack(w)
  /\ Release(w)
  /\ UNCHANGED <<storeVars, queue, dlq, faults>>

(* ... or lost to another worker: acknowledge and forget the message.      *)
LoseClaim(w) ==
  /\ At(w, "claim")
  /\ es[Doing(w)] \in {"completed", "running"}
  /\ Ack(w)
  /\ Release(w)
  /\ UNCHANGED <<storeVars, queue, dlq, faults>>

(* The second commit of mark_started.                                      *)
MarkRunning(w) ==
  /\ At(w, "claimed")
  /\ SetRow(Doing(w), "running")
  /\ GoTo(w, "begin")
  /\ UNCHANGED <<es, attempt, results, busVars, job, target, faults>>

-----------------------------------------------------------------------------
(* Worker._execute.                                                        *)

(* set_attempt and the first update_task_execution_state.                  *)
Begin(w) ==
  /\ At(w, "begin")
  /\ attempt' = [attempt EXCEPT ![Doing(w)] = job[w].attempt]
  /\ SetState(Doing(w), "running")
  /\ GoTo(w, "run")
  /\ UNCHANGED <<status, results, busVars, job, target, faults>>

(* The handler returned and its result passed verification.                *)
HandlerSucceeds(w) ==
  /\ At(w, "run")
  /\ SetState(Doing(w), "running")
  /\ GoTo(w, "done")
  /\ UNCHANGED <<status, attempt, results, busVars, job, target, faults>>

(* The handler returned and the verifier rejected its result.              *)
VerifierRejects(w) ==
  /\ At(w, "run")
  /\ SetState(Doing(w), "running")
  /\ \E retryable \in BOOLEAN : GoTo(w, FailureRoute(w, retryable))
  /\ UNCHANGED <<status, attempt, results, busVars, job, target, faults>>

(* The handler raised, timed out, or the workflow budget is exhausted.     *)
HandlerRaises(w) ==
  /\ At(w, "run")
  /\ \E retryable \in BOOLEAN : GoTo(w, FailureRoute(w, retryable))
  /\ UNCHANGED <<storeVars, busVars, job, target, faults>>

-----------------------------------------------------------------------------
(* Worker._complete: the three commits of mark_completed, then the ack.    *)

CompleteState(w) ==
  /\ At(w, "done")
  /\ SetState(Doing(w), "completed")
  /\ GoTo(w, "doneRow")
  /\ UNCHANGED <<status, attempt, results, busVars, job, target, faults>>

CompleteRow(w) ==
  /\ At(w, "doneRow")
  /\ SetRow(Doing(w), "completed")
  /\ GoTo(w, "doneResult")
  /\ UNCHANGED <<es, attempt, results, busVars, job, target, faults>>

CompleteResult(w) ==
  /\ At(w, "doneResult")
  /\ results' = [results EXCEPT ![Doing(w)] = @ \cup {"completed"}]
  /\ GoTo(w, "doneAck")
  /\ UNCHANGED <<es, status, attempt, busVars, job, target, faults>>

AckCompleted(w) ==
  /\ At(w, "doneAck")
  /\ Ack(w)
  /\ GoTo(w, "onDone")
  /\ UNCHANGED <<storeVars, queue, dlq, job, target, faults>>

-----------------------------------------------------------------------------
(* Worker._on_failure, the retry branch: the new execution state, the two  *)
(* commits of mark_retried, the requeued message, the ack.                 *)

RetryState(w) ==
  /\ At(w, "retry")
  /\ SetState(Doing(w), "retrying")
  /\ GoTo(w, "retryMark")
  /\ UNCHANGED <<status, attempt, results, busVars, job, target, faults>>

RetryMark(w) ==
  /\ At(w, "retryMark")
  /\ SetState(Doing(w), "retrying")
  /\ GoTo(w, "retryRow")
  /\ UNCHANGED <<status, attempt, results, busVars, job, target, faults>>

RetryRow(w) ==
  /\ At(w, "retryRow")
  /\ SetRow(Doing(w), "retrying")
  /\ attempt' = [attempt EXCEPT ![Doing(w)] = job[w].attempt + 1]
  /\ GoTo(w, "requeue")
  /\ UNCHANGED <<es, results, busVars, job, target, faults>>

(* Fault: the requeued message keeps the old attempt number.               *)
Requeue_SameAttempt(w) ==
  /\ At(w, "requeue")
  /\ Enqueue(job[w])
  /\ GoTo(w, "retryAck")
  /\ UNCHANGED <<storeVars, dlq, unacked, job, target, faults>>

Requeue(w) ==
  /\ At(w, "requeue")
  /\ Enqueue([task |-> Doing(w), attempt |-> job[w].attempt + 1])
  /\ GoTo(w, "retryAck")
  /\ UNCHANGED <<storeVars, dlq, unacked, job, target, faults>>

AckRetried(w) ==
  /\ At(w, "retryAck")
  /\ Ack(w)
  /\ Release(w)
  /\ UNCHANGED <<storeVars, queue, dlq, faults>>

-----------------------------------------------------------------------------
(* Worker._deadletter_and_ack and the three commits of mark_failed.        *)

DeadLetter(w) ==
  /\ At(w, "dead")
  /\ dlq' = dlq \cup {Doing(w)}
  /\ target' = [target EXCEPT ![w] = Doing(w)]
  /\ GoTo(w, "failState")
  /\ UNCHANGED <<storeVars, queue, unacked, job, faults>>

(* RabbitMQ returns a mandatory message no queue is bound for: publishing   *)
(* raises, _deadletter_and_ack swallows it, and mark_failed is skipped.    *)
Unroutable(w) ==
  /\ At(w, "dead")
  /\ GoTo(w, "deadAck")
  /\ UNCHANGED <<storeVars, busVars, job, target, faults>>

FailState(w) ==
  /\ At(w, "failState")
  /\ SetState(target[w], "failed")
  /\ GoTo(w, "failRow")
  /\ UNCHANGED <<status, attempt, results, busVars, job, target, faults>>

(* Fault: mark_failed leaves the task row alone.                           *)
FailRow_Skipped(w) ==
  /\ At(w, "failRow")
  /\ GoTo(w, "failResult")
  /\ UNCHANGED <<storeVars, busVars, job, target, faults>>

FailRow(w) ==
  /\ At(w, "failRow")
  /\ SetRow(target[w], "failed")
  /\ GoTo(w, "failResult")
  /\ UNCHANGED <<es, attempt, results, busVars, job, target, faults>>

(* mark_failed returns to its caller: _deadletter_and_ack for the worker's *)
(* own task, the failure cascade for another one.                          *)
FailResult(w) ==
  /\ At(w, "failResult")
  /\ results' = [results EXCEPT ![target[w]] = @ \cup {"failed"}]
  /\ GoTo(w, IF target[w] = Doing(w) THEN "deadAck" ELSE "cascade")
  /\ UNCHANGED <<es, status, attempt, busVars, job, target, faults>>

AckDead(w) ==
  /\ At(w, "deadAck")
  /\ Ack(w)
  /\ GoTo(w, "onFail")
  /\ UNCHANGED <<storeVars, queue, dlq, job, target, faults>>

-----------------------------------------------------------------------------
(* A store call raises: the connection was lost or the database is locked. *)

(* _process catches what _execute and _complete raise.                     *)
RaiseInTry(w) ==
  /\ faults < MaxFaults
  /\ pc[w] \in {"begin", "run", "done", "doneRow", "doneResult"}
  /\ \E retryable \in BOOLEAN : GoTo(w, FailureRoute(w, retryable))
  /\ faults' = faults + 1
  /\ UNCHANGED <<storeVars, busVars, job, target>>

(* Anywhere else the exception reaches run_forever, which swallows it; the *)
(* delivery is never acknowledged.                                         *)
RaiseOutside(w) ==
  /\ faults < MaxFaults
  /\ pc[w] \in {"check", "claim", "claimed", "retry", "retryMark", "retryRow"}
  /\ Release(w)
  /\ faults' = faults + 1
  /\ UNCHANGED <<storeVars, busVars>>

(* _deadletter_and_ack swallows the exception and acknowledges.            *)
RaiseInDeadLetter(w) ==
  /\ faults < MaxFaults
  /\ pc[w] \in {"failState", "failRow", "failResult"}
  /\ target[w] = Doing(w)
  /\ GoTo(w, "deadAck")
  /\ faults' = faults + 1
  /\ UNCHANGED <<storeVars, busVars, job, target>>

-----------------------------------------------------------------------------
ProcessStep(w) ==
  \/ SkipCompleted(w) \/ Admit(w) \/ Refuse(w) \/ PutBack(w)
  \/ Claim(w) \/ LoseClaim(w) \/ MarkRunning(w)

ExecuteStep(w) ==
  \/ Begin(w) \/ HandlerSucceeds(w) \/ VerifierRejects(w) \/ HandlerRaises(w)

CompleteStep(w) ==
  \/ CompleteState(w) \/ CompleteRow(w) \/ CompleteResult(w) \/ AckCompleted(w)

RetryStep(w) ==
  \/ RetryState(w) \/ RetryMark(w) \/ RetryRow(w) \/ AckRetried(w)

DeadLetterStep(w) ==
  \/ FailState(w) \/ FailRow(w) \/ FailResult(w) \/ AckDead(w)

FaultStep(w) ==
  \/ RaiseInTry(w) \/ RaiseOutside(w) \/ RaiseInDeadLetter(w)

(* The steps of a worker inside one message that do not depend on the bus: *)
(* Requeue and DeadLetter do, and are added by the modules that extend     *)
(* this one.                                                               *)
WorkerStep(w) ==
  \/ ProcessStep(w) \/ ExecuteStep(w) \/ CompleteStep(w)
  \/ RetryStep(w) \/ DeadLetterStep(w)

=============================================================================
