----------------------------- MODULE TaskResume -----------------------------
(***************************************************************************)
(* Orchestrator.resume_workflow beside workers that may still be alive: it *)
(* reads the tasks that were left running or retrying, commit by commit    *)
(* sets them back to queued, and publishes them again.  Nothing tells it   *)
(* whether a worker still has the message of such a task.                  *)
(***************************************************************************)
EXTENDS TaskWorker

CONSTANT IterationLimit \* BudgetLimits.max_iterations

ASSUME ResumeAssumption == IterationLimit \in Nat \ {0}

VARIABLES
  saved,       \* "attempt" in tasks.execution_state; 0 when the column is empty
  iteration,   \* workflows.iteration_count
  resume,      \* where resume_workflow is, with which task, and what is left to do
  republished  \* tasks published again and not taken up by a later call

resumeVars == <<wvars, saved, iteration, resume, republished>>

Resting == [at |-> "none", now |-> NoMsg, todo |-> {}]

ResumeTypeOK ==
  /\ TypeOK
  /\ saved \in [Task -> 0..MaxAttempts]
  /\ iteration \in 1..IterationLimit + 1
  /\ resume.at \in {"none", "state", "key", "row", "mark", "publish"}
  /\ resume.now \in Msg \cup {NoMsg} /\ resume.todo \subseteq Msg
  /\ (resume.now = NoMsg) <=> (resume.at = "none")
  /\ republished \subseteq Task

(* A workflow just submitted, in its first iteration.                      *)
ResumeInit ==
  /\ es = [t \in Task |-> "created"]
  /\ status = [t \in Task |-> "queued"]
  /\ attempt = [t \in Task |-> 1]
  /\ results = [t \in Task |-> {}]
  /\ queue = [m \in Msg |-> IF m.attempt = 1 THEN 1 ELSE 0]
  /\ dlq = {}
  /\ pc = [w \in Worker |-> "idle"]
  /\ job = [w \in Worker |-> NoMsg]
  /\ target = [w \in Worker |-> NoTask]
  /\ unacked = [w \in Worker |-> {}]
  /\ faults = 0
  /\ saved = [t \in Task |-> 0]
  /\ iteration = 1
  /\ resume = Resting
  /\ republished = {}

-----------------------------------------------------------------------------
(* can_resume; the query has already left out tasks that are over          *)
CanResume(t) == saved[t] # 0 /\ saved[t] < MaxAttempts

(* get_tasks_for_resume, then can_resume; no code sets a row to partial or *)
(* blocked                                                                 *)
Resumable == {t \in Task : status[t] \in {"running", "retrying"} /\ CanResume(t)}

(* The next task of the loop, in any order.                                *)
TakeNext(todo) ==
  \/ todo = {} /\ resume' = Resting
  \/ \E m \in todo : resume' = [at |-> "state", now |-> m, todo |-> todo \ {m}]

(* increment_workflow_iteration, the limit, the tasks; all of them or the  *)
(* one that from_task_id names.  A call over the limit raises.             *)
ReadTasks ==
  /\ resume = Resting
  /\ iteration <= IterationLimit
  /\ iteration' = iteration + 1
  /\ IF iteration = IterationLimit
       THEN UNCHANGED <<resume, republished>>
       ELSE \E named \in {Task} \cup {{t} : t \in Task} :
              LET todo == Resumable \cap named
              IN  /\ TakeNext({[task |-> t, attempt |-> attempt[t]] : t \in todo})
                  /\ republished' = republished \ todo
  /\ UNCHANGED <<wvars, saved>>

(* update_task_execution_state, once with the attempt and once with the    *)
(* new key alone, which drops the attempt: can_resume will read 1.  Both   *)
(* find no status in what they save and write running.                     *)
WriteState(from, to, number) ==
  /\ resume.at = from
  /\ resume' = [resume EXCEPT !.at = to]
  /\ SetState(resume.now.task, "running")
  /\ saved' = [saved EXCEPT ![resume.now.task] = number]
  /\ UNCHANGED <<status, attempt, results, busVars, workVars, faults, iteration, republished>>

SaveAttempt == WriteState("state", "key", resume.now.attempt)
SaveKey     == WriteState("key", "row", 1)

(* set_status                                                              *)
ResetRow ==
  /\ resume.at = "row"
  /\ resume' = [resume EXCEPT !.at = "mark"]
  /\ SetRow(resume.now.task, "queued")
  /\ UNCHANGED <<es, attempt, results, busVars, workVars, faults, saved, iteration,
                 republished>>

(* Fault: the task is published without mark_dispatched.                   *)
MarkResumed_Skipped ==
  /\ resume.at = "mark"
  /\ resume' = [resume EXCEPT !.at = "publish"]
  /\ UNCHANGED <<wvars, saved, iteration, republished>>

(* mark_dispatched, whatever a worker has written since                    *)
MarkResumed ==
  /\ resume.at = "mark"
  /\ resume' = [resume EXCEPT !.at = "publish"]
  /\ SetState(resume.now.task, "queued")
  /\ UNCHANGED <<status, attempt, results, busVars, workVars, faults, saved, iteration,
                 republished>>

(* dispatch                                                                *)
Republish ==
  /\ resume.at = "publish"
  /\ Enqueue(resume.now)
  /\ republished' = republished \cup {resume.now.task}
  /\ TakeNext(resume.todo)
  /\ UNCHANGED <<storeVars, dlq, unacked, workVars, faults, saved, iteration>>

(* The process that resumes dies between two commits.                      *)
ResumerDies ==
  /\ resume # Resting
  /\ resume' = Resting
  /\ UNCHANGED <<wvars, saved, iteration, republished>>

ResumeStep ==
  \/ ReadTasks \/ SaveAttempt \/ SaveKey \/ ResetRow \/ MarkResumed \/ Republish
  \/ ResumerDies

-----------------------------------------------------------------------------
Saves(w, number) == saved' = [saved EXCEPT ![Doing(w)] = number]

(* What the worker saves in tasks.execution_state beside its other writes. *)
Works(w) ==
  /\ \/ (Begin(w) \/ HandlerSucceeds(w) \/ VerifierRejects(w)) /\ Saves(w, job[w].attempt)
     \/ RetryState(w) /\ Saves(w, job[w].attempt + 1)
     \/ /\ \/ ProcessStep(w) \/ HandlerRaises(w) \/ CompleteStep(w)
           \/ RetryMark(w) \/ RetryRow(w) \/ Requeue(w) \/ AckRetried(w)
           \/ DeadLetter(w) \/ DeadLetterStep(w)
           \/ \E m \in Msg : Fetch(w, m)
        /\ UNCHANGED saved
  /\ UNCHANGED <<iteration, resume, republished>>

(* These workers have no callbacks.                                        *)
GoesOn(w) ==
  /\ pc[w] \in {"onDone", "onFail"}
  /\ Release(w)
  /\ UNCHANGED <<storeVars, busVars, faults, saved, iteration, resume, republished>>

(* A worker process dies, what it has not acknowledged is delivered again. *)
(* Bounds: before the first resume, and MaxFaults times.                   *)
WorkerDies(w) ==
  /\ iteration = 1 /\ faults < MaxFaults
  /\ ~ At(w, "idle")
  /\ faults' = faults + 1
  /\ Release(w)
  /\ queue' = [m \in Msg |-> queue[m] + (IF m \in unacked[w] THEN 1 ELSE 0)]
  /\ unacked' = [unacked EXCEPT ![w] = {}]
  /\ UNCHANGED <<storeVars, dlq, saved, iteration, resume, republished>>

ResumeNext ==
  \/ ResumeStep
  \/ \E w \in Worker : Works(w) \/ GoesOn(w) \/ WorkerDies(w)

ResumeSpec == ResumeInit /\ [][ResumeNext]_resumeVars

-----------------------------------------------------------------------------
(* orchestrator.py:262: whatever a worker that is still alive writes       *)
(* between the commits of resume_workflow, a task it has published again   *)
(* does not end up forgotten: when no message is left and nobody works,    *)
(* its execution state is completed or failed.                             *)
RepublishedTaskEnds ==
  (\A m \in Msg : queue[m] = 0) /\ (\A w \in Worker : At(w, "idle")) /\ resume = Resting
    => \A t \in republished : es[t] \in {"completed", "failed"}
=============================================================================
