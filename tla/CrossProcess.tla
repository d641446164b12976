---------------------------- MODULE CrossProcess ----------------------------
(***************************************************************************)
(* The deployed engine: the API process submits one workflow graph, the    *)
(* orchestrator service runs the advancer loop, worker processes consume   *)
(* RabbitMQ with manual acknowledgement, and all of them share the store.  *)
(* Processes crash between any two steps; RabbitMQ then redelivers what    *)
(* they had not acknowledged.                                              *)
(***************************************************************************)
EXTENDS TaskWorker

CONSTANTS
  MaxCrashes,    \* bound: crashes of workers and of the advancer, together
  DlqBound,      \* is a queue surely bound to the exchange hermes.dlx?
  ReadersPoll,   \* do clients GET the workflow?
  ClockSkew      \* may a retry arrive before a worker's clock reaches retry_at?

ASSUME CrossAssumption ==
  /\ MaxCrashes \in Nat
  /\ {DlqBound, ReadersPoll, ClockSkew} \subseteq BOOLEAN

VARIABLES
  rows,      \* the tasks whose row submit has inserted
  edges,     \* task_dependencies
  rootsLeft, \* the roots submit has still to publish
  adv,       \* where the advancer loop is
  batch,     \* the messages it has still to publish in this pass
  sweep,     \* the tasks it has still to fail in this pass
  victim,    \* the task its mark_failed is about
  verdict,   \* the workflow status it is about to write
  view,      \* the status a GET is about to write
  wf,        \* workflows.status
  severed,   \* workers whose AMQP channel the broker has closed
  crashes

apiVars == <<rows, edges, rootsLeft>>
advVars == <<adv, batch, sweep, victim, verdict>>
vars    == <<wvars, apiVars, advVars, view, wf, severed, crashes>>

WorkflowStatus == {"running", "completed", "failed"}

CrossTypeOK ==
  /\ TypeOK
  /\ rows \in SUBSET Task
  /\ edges \in SUBSET (Task \X Task)
  /\ rootsLeft \in SUBSET Task
  /\ adv \in {"select", "publish", "mark", "sweep", "failRow", "failResult",
              "finalize", "write"}
  /\ batch \in SUBSET Msg
  /\ sweep \in SUBSET Task
  /\ victim \in Task \cup {NoTask}
  /\ adv \in {"mark", "failRow", "failResult"} => victim \in Task
  /\ verdict \in WorkflowStatus
  /\ view \in WorkflowStatus
  /\ wf \in WorkflowStatus
  /\ severed \in SUBSET Worker
  /\ crashes \in 0..MaxCrashes

Init ==
  /\ WorkerInit
  /\ rows = {}
  /\ edges = {}
  /\ rootsLeft = Roots
  /\ adv = "select"
  /\ batch = {}
  /\ sweep = {}
  /\ victim = NoTask
  /\ verdict = "running"
  /\ view = "running"
  /\ wf = "running"
  /\ severed = {}
  /\ crashes = 0

Edge(t, d) == <<t, d>> \in edges

-----------------------------------------------------------------------------
(* POST /async/run.                                                        *)

CreateTask(t) ==
  /\ t \notin rows
  /\ rows' = rows \cup {t}
  /\ UNCHANGED <<wvars, edges, rootsLeft, advVars, view, wf, severed, crashes>>

AddDependency(t, d) ==
  /\ rows = Task
  /\ d \in Deps[t]
  /\ ~ Edge(t, d)
  /\ edges' = edges \cup {<<t, d>>}
  /\ UNCHANGED <<wvars, rows, rootsLeft, advVars, view, wf, severed, crashes>>

Linked == rows = Task /\ \A t \in Task : \A d \in Deps[t] : Edge(t, d)

(* The roots go straight to the bus; execution_state keeps saying created. *)
PublishRoot(t) ==
  /\ Linked
  /\ t \in rootsLeft
  /\ Enqueue([task |-> t, attempt |-> attempt[t]])
  /\ rootsLeft' = rootsLeft \ {t}
  /\ UNCHANGED <<storeVars, dlq, unacked, workVars, faults, rows, edges,
                 advVars, view, wf, severed, crashes>>

SubmitStep ==
  \/ \E t \in Task : CreateTask(t) \/ PublishRoot(t)
  \/ \E t, d \in Task : AddDependency(t, d)

-----------------------------------------------------------------------------
(* GET /async/workflows/{id}: aggregate reads the task rows and writes a   *)
(* workflow status, whether or not the workflow has ended.                 *)

(* Fault: what has not failed counts as completed.                         *)
ReadWorkflow_NoneFailed ==
  /\ view = "running"
  /\ rows # {}
  /\ ReadersPoll
  /\ view' = IF \A t \in rows : status[t] # "failed" THEN "completed" ELSE "failed"
  /\ UNCHANGED <<wvars, apiVars, advVars, wf, severed, crashes>>

ReadWorkflow ==
  /\ view = "running"
  /\ rows # {}
  /\ ReadersPoll
  /\ view' = IF \A t \in rows : status[t] = "completed" THEN "completed" ELSE "failed"
  /\ UNCHANGED <<wvars, apiVars, advVars, wf, severed, crashes>>

AnswerRead ==
  /\ view # "running"
  /\ wf' = view
  /\ view' = "running"
  /\ UNCHANGED <<wvars, apiVars, advVars, severed, crashes>>

-----------------------------------------------------------------------------
(* The advancer: advance_once, fail_tasks_with_failed_deps and             *)
(* finalize_workflows, over and over.                                      *)

(* Fault: the dependencies are not looked at.                              *)
Dispatchable_Unblocked ==
  {t \in rows : es[t] = "created" /\ status[t] = "queued"}

(* dispatchable_tasks: not yet claimed, every recorded dependency done     *)
Dispatchable ==
  {t \in rows : /\ es[t] = "created"
                /\ status[t] = "queued"
                /\ \A d \in rows : Edge(t, d) => status[d] = "completed"}

Select ==
  /\ adv = "select"
  /\ batch' = {[task |-> t, attempt |-> attempt[t]] : t \in Dispatchable}
  /\ adv' = "publish"
  /\ UNCHANGED <<wvars, apiVars, sweep, victim, verdict, view, wf, severed, crashes>>

PublishReady(m) ==
  /\ adv = "publish"
  /\ m \in batch
  /\ Enqueue(m)
  /\ batch' = batch \ {m}
  /\ victim' = m.task
  /\ adv' = "mark"
  /\ UNCHANGED <<storeVars, dlq, unacked, workVars, faults, apiVars, sweep, verdict,
                 view, wf, severed, crashes>>

(* Fault: the task stays dispatchable.                                     *)
MarkDispatched_Created ==
  /\ adv = "mark"
  /\ SetState(victim, "created")
  /\ victim' = NoTask
  /\ adv' = "publish"
  /\ UNCHANGED <<status, attempt, results, busVars, workVars, faults, apiVars, batch,
                 sweep, verdict, view, wf, severed, crashes>>

(* mark_dispatched overwrites whatever execution_state says by now.        *)
MarkDispatched ==
  /\ adv = "mark"
  /\ SetState(victim, "queued")
  /\ victim' = NoTask
  /\ adv' = "publish"
  /\ UNCHANGED <<status, attempt, results, busVars, workVars, faults, apiVars, batch,
                 sweep, verdict, view, wf, severed, crashes>>

(* Fault: a dependency that has not completed is enough.                   *)
Stuck_Unfinished ==
  {t \in rows : /\ status[t] = "queued"
                /\ \E d \in rows : /\ Edge(t, d)
                                   /\ status[d] \in {"running", "retrying", "failed"}}

(* The queued tasks with a failed dependency.                              *)
Stuck ==
  {t \in rows : /\ status[t] = "queued"
                /\ \E d \in rows : Edge(t, d) /\ status[d] = "failed"}

SelectStuck ==
  /\ adv = "publish"
  /\ batch = {}
  /\ sweep' = Stuck
  /\ adv' = "sweep"
  /\ UNCHANGED <<wvars, apiVars, batch, victim, verdict, view, wf, severed, crashes>>

SweepState(t) ==
  /\ adv = "sweep"
  /\ t \in sweep
  /\ sweep' = sweep \ {t}
  /\ victim' = t
  /\ SetState(t, "failed")
  /\ adv' = "failRow"
  /\ UNCHANGED <<status, attempt, results, busVars, workVars, faults, apiVars, batch,
                 verdict, view, wf, severed, crashes>>

SweepRow ==
  /\ adv = "failRow"
  /\ SetRow(victim, "failed")
  /\ adv' = "failResult"
  /\ UNCHANGED <<es, attempt, results, busVars, workVars, faults, apiVars, batch,
                 sweep, victim, verdict, view, wf, severed, crashes>>

SweepResult ==
  /\ adv = "failResult"
  /\ results' = [results EXCEPT ![victim] = @ \cup {"failed"}]
  /\ victim' = NoTask
  /\ adv' = "sweep"
  /\ UNCHANGED <<es, status, attempt, busVars, workVars, faults, apiVars, batch,
                 sweep, verdict, view, wf, severed, crashes>>

(* Fault: a retry counts as a failure.                                     *)
Outcome_RetryFails ==
  CASE \E t \in rows : status[t] \in {"failed", "retrying"} -> "failed"
    [] \A t \in rows : status[t] = "completed" -> "completed"
    [] OTHER                                   -> "running"

(* finalize_workflows: one task failed, or all of them completed.          *)
Outcome ==
  CASE \E t \in rows : status[t] = "failed"    -> "failed"
    [] \A t \in rows : status[t] = "completed" -> "completed"
    [] OTHER                                   -> "running"

(* Only running workflows with tasks are looked at.                        *)
Unfinalized == wf = "running" /\ rows # {}

Finalize ==
  /\ adv = "sweep"
  /\ sweep = {}
  /\ verdict' = IF Unfinalized THEN Outcome ELSE "running"
  /\ adv' = "write"
  /\ UNCHANGED <<wvars, apiVars, batch, sweep, victim, view, wf, severed, crashes>>

WriteVerdict ==
  /\ adv = "write"
  /\ wf' = IF verdict = "running" THEN wf ELSE verdict
  /\ verdict' = "running"
  /\ adv' = "select"
  /\ UNCHANGED <<wvars, apiVars, batch, sweep, victim, view, severed, crashes>>

AdvanceStep ==
  \/ Select \/ MarkDispatched \/ SelectStuck \/ SweepRow \/ SweepResult
  \/ Finalize \/ WriteVerdict
  \/ \E m \in Msg : PublishReady(m)
  \/ \E t \in Task : SweepState(t)

-----------------------------------------------------------------------------
(* Workers have no callbacks here: the message is done with the ack.       *)
NoCallback(w) ==
  /\ pc[w] \in {"onDone", "onFail"}
  /\ Release(w)
  /\ UNCHANGED <<storeVars, busVars, faults, apiVars, advVars, view, wf, severed,
                 crashes>>

DeadLetterRoute(w) ==
  \/ DeadLetter(w)
  \/ ~ DlqBound /\ Unroutable(w)

Work(w) ==
  /\ \/ WorkerStep(w) \/ DeadLetterRoute(w)
     \/ Requeue(w) /\ job[w].attempt = 1
  /\ UNCHANGED <<apiVars, advVars, view, wf, severed, crashes>>

Poll(w) ==
  /\ w \notin severed
  /\ \E m \in Msg : Fetch(w, m)
  /\ UNCHANGED <<apiVars, advVars, view, wf, severed, crashes>>

(* What the broker does when the channel of w goes away.                   *)
Redeliver(w) ==
  /\ Release(w)
  /\ queue' = [m \in Msg |-> queue[m] + (IF m \in unacked[w] THEN 1 ELSE 0)]
  /\ unacked' = [unacked EXCEPT ![w] = {}]

(* requeue declares the retry queue of a task type with the delay as its   *)
(* TTL.  The first delay is the one of attempt 1; declaring the queue with *)
(* another one, for a later attempt or for a retry that arrived early,     *)
(* makes RabbitMQ close the channel, and the worker never opens a new one. *)
ChannelLost(w) ==
  /\ \/ At(w, "requeue")
     \/ ClockSkew /\ At(w, "check")
  /\ job[w].attempt > 1
  /\ Redeliver(w)
  /\ severed' = severed \cup {w}
  /\ UNCHANGED <<storeVars, dlq, faults, apiVars, advVars, view, wf, crashes>>

(* A worker process dies: its local state is gone, the broker puts its     *)
(* unacknowledged deliveries back, a new process takes its place.          *)
WorkerCrash(w) ==
  /\ crashes < MaxCrashes
  /\ ~ At(w, "idle") \/ w \in severed
  /\ crashes' = crashes + 1
  /\ Redeliver(w)
  /\ severed' = severed \ {w}
  /\ UNCHANGED <<storeVars, dlq, faults, apiVars, advVars, view, wf>>

(* The advancer process dies; a new one starts a pass.                     *)
AdvancerCrash ==
  /\ crashes < MaxCrashes
  /\ adv # "select"
  /\ crashes' = crashes + 1
  /\ adv' = "select"
  /\ batch' = {}
  /\ sweep' = {}
  /\ victim' = NoTask
  /\ verdict' = "running"
  /\ UNCHANGED <<wvars, apiVars, view, wf, severed>>

Next ==
  \/ SubmitStep \/ AdvanceStep \/ ReadWorkflow \/ AnswerRead \/ AdvancerCrash
  \/ \E w \in Worker :
        \/ Poll(w) \/ Work(w) \/ NoCallback(w)
        \/ ChannelLost(w) \/ WorkerCrash(w)

Spec == Init /\ [][Next]_vars

-----------------------------------------------------------------------------
(* Vocabulary of the properties.                                           *)

Holds(w, t) == ~ At(w, "idle") /\ Doing(w) = t

Runs(w, t) == At(w, "run") /\ Doing(w) = t

Terminal(t) == status[t] \in {"completed", "failed"}

(* The status s is recorded as a result of t, or is about to be.           *)
Recorded(t, s) ==
  \/ s \in results[t]
  \/ \E w \in Worker :
        \/ s = "completed" /\ At(w, "doneResult") /\ Doing(w) = t
        \/ s = "failed" /\ At(w, "failResult") /\ target[w] = t
  \/ s = "failed" /\ adv = "failResult" /\ victim = t

InFlight(t) ==
  \/ \E a \in 1..MaxAttempts : queue[[task |-> t, attempt |-> a]] > 0
  \/ \E w \in Worker : Holds(w, t)
  \/ adv = "failRow" /\ victim = t

-----------------------------------------------------------------------------
(* A task with dependencies, which only the advancer publishes, runs its   *)
(* handler in at most one worker at a time (worker.py:161).                *)
DependentRunsAlone ==
  \A t \in Task : Deps[t] # {} =>
    \A v, w \in Worker : Runs(v, t) /\ Runs(w, t) => v = w

(* Until a process crashes, finalize_workflows calls a workflow failed only *)
(* over a recorded failure (store.py:416), and so ends it only over one    *)
(* unless a GET writes its status (async_api.py:137).                      *)
FailedVerdict ==
  crashes = 0 /\ (verdict = "failed" \/ (~ ReadersPoll /\ wf = "failed")) =>
    \E t \in Task : Recorded(t, "failed")

(* A failure is recorded only for a dead-lettered task or for one that     *)
(* depends on a dead-lettered task.                                        *)
FailureHasCause ==
  \A t \in Task : "failed" \in results[t] =>
    \E c \in dlq : t = c \/ t \in Descendants(c)

(* A published task that has not ended is never stranded, whatever crashes:*)
(* a message for it waits or a worker holds it (worker.py:15).             *)
SurvivesCrashes ==
  \A t \in Task : ~ Terminal(t) /\ es[t] # "created" => InFlight(t)

(* A worker never wins the claim of a task that is completed (store.py:7). *)
CompletedNotRerun ==
  [][\A w \in Worker :
       At(w, "claim") /\ pc'[w] = "claimed" => status[Doing(w)] # "completed"]_vars

(* The inductive invariants behind these properties.                       *)

(* Rows come before edges, and only roots are published by submit.         *)
SubmitInv ==
  /\ \A t, d \in Task : Edge(t, d) => d \in Deps[t] /\ rows = Task
  /\ rootsLeft \subseteq Roots

ReadInv == ~ ReadersPoll => view = "running"

(* While nothing has crashed a row that has ended has its result.          *)
ResultsFollow ==
  crashes = 0 =>
    \A t \in Task : \A s \in {"completed", "failed"} : status[t] = s => Recorded(t, s)

(* What a dead-lettered task explains.                                     *)
Caused(t) == \E c \in dlq : t = c \/ t \in Descendants(c)

CausesInv ==
  /\ \A t \in Task : status[t] = "failed" \/ "failed" \in results[t] => Caused(t)
  /\ \A w \in Worker : pc[w] \in {"failState", "failRow", "failResult"} => Caused(target[w])
  /\ \A t \in sweep : Caused(t)
  /\ adv \in {"failRow", "failResult"} => Caused(victim)

(* A dependent task has one token once the advancer has published it.      *)
Dependent(t) == Deps[t] # {}

(* w will execute, requeue or settle its delivery of t.                    *)
Carries(w, t) == pc[w] \notin {"idle", "retryAck"} /\ Doing(w) = t

Published(t) == es[t] # "created" \/ (adv = "mark" /\ victim = t)

OneToken ==
  /\ \A m, n \in Msg : m.task = n.task /\ Dependent(m.task) /\ queue[m] > 0 =>
       queue[m] = 1 /\ (queue[n] > 0 => m = n)
  /\ \A m \in Msg, w \in Worker : Dependent(m.task) /\ queue[m] > 0 => ~ Carries(w, m.task)
  /\ \A t \in Task, v, w \in Worker :
       Dependent(t) /\ Carries(v, t) /\ Carries(w, t) => v = w

OnlyPublished ==
  /\ \A m \in Msg : Dependent(m.task) /\ queue[m] > 0 => Published(m.task)
  /\ \A w \in Worker : ~ At(w, "idle") /\ Dependent(Doing(w)) => Published(Doing(w))
  /\ \A m \in batch : Dependent(m.task) => ~ Published(m.task)
  /\ \A m, n \in batch : m.task = n.task => m = n
  /\ batch # {} => adv \in {"publish", "mark"}

(* A worker has not acknowledged its message before it settled it, holds   *)
(* no other delivery, and calls mark_failed about its own task.            *)
OwnDelivery ==
  \A w \in Worker :
    /\ unacked[w] = IF pc[w] \in {"idle", "refused", "onDone", "onFail"} THEN {}
                    ELSE {job[w]}
    /\ pc[w] \in {"failState", "failRow", "failResult"} => target[w] = Doing(w)

TokenInv == OneToken /\ OnlyPublished /\ OwnDelivery

(* Where a published task is as long as one worker at most owns it: a      *)
(* claim is held, a row is behind its state, only on the way.              *)
Underway(t) ==
  \/ \E m \in Msg : m.task = t /\ queue[m] > 0
  \/ \E w \in Worker : Carries(w, t)
  \/ adv = "failRow" /\ victim = t

InPhase(t, labels) == \E w \in Worker : pc[w] \in labels /\ Doing(w) = t

Tracked(t) ==
  /\ Published(t) => Terminal(t) \/ Underway(t)
  /\ es[t] = "completed" => Terminal(t) \/ InPhase(t, {"doneRow"})
  /\ es[t] = "running" =>
       InPhase(t, {"claimed", "begin", "run", "done", "retry", "dead", "failState"})
  /\ InPhase(t, {"claimed", "begin", "run", "done", "retry", "retryMark", "retryRow"})
       => es[t] # "completed"
  /\ InPhase(t, {"doneResult", "doneAck", "onDone", "failResult", "deadAck", "onFail"})
       => Terminal(t)

=============================================================================
