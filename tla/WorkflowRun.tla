----------------------------- MODULE WorkflowRun -----------------------------
(***************************************************************************)
(* AsyncOrchestrator.run_workflow: one process runs one workflow.  The     *)
(* main thread starts a worker pool, publishes the roots of the DAG, waits *)
(* until no task is pending or the deadline passes, stops the pool and     *)
(* reports.  The workers call back: on_done publishes what became ready,   *)
(* on_fail fails everything downstream.  The callbacks hold _dispatch_lock;*)
(* the loop that publishes the roots does not.                             *)
(***************************************************************************)
EXTENDS TaskWorker

CONSTANT NoWorker

ASSUME RunAssumption == NoWorker \notin Worker

VARIABLES
  dag,         \* TaskDAG.status
  dispatched,  \* AsyncOrchestrator._dispatched
  lock,        \* who holds _dispatch_lock
  todo,        \* the tasks a callback still has to look at
  main,        \* where the main thread is
  roots,       \* the root tasks the main thread has not published yet
  cur,         \* the root it is publishing
  count,       \* what aggregate made of the rows it read
  wf           \* workflows.status

runVars == <<dag, dispatched, lock, todo, main, roots, cur, count, wf>>
vars    == <<wvars, runVars>>

RunTypeOK ==
  /\ TypeOK
  /\ dag \in [Task -> {"pending", "completed", "failed"}]
  /\ dispatched \in SUBSET Task
  /\ lock \in Worker \cup {NoWorker}
  /\ todo \in [Worker -> SUBSET Task]
  /\ main \in {"dispatch", "publish", "wait", "stopping", "counted", "reported"}
  /\ roots \in SUBSET Task
  /\ cur \in Task \cup {NoTask}
  /\ count \in {"running", "completed", "failed"}
  /\ wf \in {"running", "completed", "failed"}
  /\ main = "publish" => cur \in Task

-----------------------------------------------------------------------------
Init ==
  /\ WorkerInit
  /\ dag = [t \in Task |-> "pending"]
  /\ dispatched = {}
  /\ lock = NoWorker
  /\ todo = [w \in Worker |-> {}]
  /\ main = IF Roots = {} THEN "wait" ELSE "dispatch"
  /\ roots = Roots
  /\ cur = NoTask
  /\ count = "running"
  /\ wf = "running"

Publish(t) == Enqueue([task |-> t, attempt |-> attempt[t]])

-----------------------------------------------------------------------------
(* The main thread.                                                        *)

DispatchRoot(t) ==
  /\ main = "dispatch"
  /\ t \in roots
  /\ roots' = roots \ {t}
  /\ dispatched' = dispatched \cup {t}
  /\ cur' = t
  /\ main' = "publish"
  /\ UNCHANGED <<wvars, dag, lock, todo, count, wf>>

PublishRoot ==
  /\ main = "publish"
  /\ Publish(cur)
  /\ cur' = NoTask
  /\ main' = IF roots = {} THEN "wait" ELSE "dispatch"
  /\ UNCHANGED <<storeVars, dlq, unacked, workVars, faults, dag, dispatched, lock,
                 todo, roots, count, wf>>

(* The wait loop looks at the DAG under the lock.                          *)
AllResolved ==
  /\ main = "wait"
  /\ lock = NoWorker
  /\ \A t \in Task : dag[t] # "pending"
  /\ main' = "stopping"
  /\ UNCHANGED <<wvars, dag, dispatched, lock, todo, roots, cur, count, wf>>

Deadline ==
  /\ main = "wait"
  /\ main' = "stopping"
  /\ UNCHANGED <<wvars, dag, dispatched, lock, todo, roots, cur, count, wf>>

(* Fault: completed as soon as no task has failed.                         *)
CountRows_NoneFailed ==
  /\ main = "stopping"
  /\ main' = "counted"
  /\ count' = IF \E t \in Task : status[t] = "failed" THEN "failed" ELSE "completed"
  /\ UNCHANGED <<wvars, dag, dispatched, lock, todo, roots, cur, wf>>

(* WorkerPool.stop joins each thread for two seconds and then gives up, so *)
(* nothing keeps a worker out of its handler, between two of its commits   *)
(* or inside a callback when aggregate reads the rows ...                  *)
CountRows ==
  /\ main = "stopping"
  /\ main' = "counted"
  /\ count' = IF \A t \in Task : status[t] = "completed" THEN "completed" ELSE "failed"
  /\ UNCHANGED <<wvars, dag, dispatched, lock, todo, roots, cur, wf>>

(* ... and when it writes the verdict.                                     *)
Report ==
  /\ main = "counted"
  /\ main' = "reported"
  /\ wf' = count
  /\ UNCHANGED <<wvars, dag, dispatched, lock, todo, roots, cur, count>>

MainStep ==
  \/ \E t \in Task : DispatchRoot(t)
  \/ PublishRoot \/ AllResolved \/ CountRows \/ Report

-----------------------------------------------------------------------------
(* on_done *)

OnDone(w) ==
  /\ At(w, "onDone")
  /\ lock = NoWorker
  /\ lock' = w
  /\ dag' = [dag EXCEPT ![Doing(w)] = "completed"]
  /\ SetState(Doing(w), "completed")
  /\ todo' = [todo EXCEPT ![w] = ReadyTasks(dag')]
  /\ GoTo(w, "advance")
  /\ UNCHANGED <<status, attempt, results, busVars, job, target, faults,
                 dispatched, main, roots, cur, count, wf>>

(* Fault: _dispatched is not consulted.                                    *)
AdvanceTo_Again(w, t) ==
  /\ At(w, "advance")
  /\ t \in todo[w]
  /\ todo' = [todo EXCEPT ![w] = @ \ {t}]
  /\ dispatched' = dispatched \cup {t}
  /\ Publish(t)
  /\ UNCHANGED <<storeVars, dlq, unacked, workVars, faults, dag, lock, main, roots,
                 cur, count, wf>>

AdvanceTo(w, t) ==
  /\ At(w, "advance")
  /\ t \in todo[w]
  /\ todo' = [todo EXCEPT ![w] = @ \ {t}]
  /\ \/ /\ t \notin dispatched
        /\ dispatched' = dispatched \cup {t}
        /\ Publish(t)
     \/ /\ t \in dispatched
        /\ UNCHANGED <<dispatched, queue>>
  /\ UNCHANGED <<storeVars, dlq, unacked, workVars, faults, dag, lock, main, roots,
                 cur, count, wf>>

(* on_fail *)

OnFail(w) ==
  /\ At(w, "onFail")
  /\ lock = NoWorker
  /\ lock' = w
  /\ dag' = [dag EXCEPT ![Doing(w)] = "failed"]
  /\ SetState(Doing(w), "failed")
  /\ todo' = [todo EXCEPT ![w] = Descendants(Doing(w))]
  /\ GoTo(w, "cascade")
  /\ UNCHANGED <<status, attempt, results, busVars, job, target, faults,
                 dispatched, main, roots, cur, count, wf>>

(* A pending descendant fails too: mark_failed, whose commits are the      *)
(* worker's FailState, FailRow and FailResult; the others are left alone.  *)
CascadeTo(w, t) ==
  /\ At(w, "cascade")
  /\ t \in todo[w]
  /\ todo' = [todo EXCEPT ![w] = @ \ {t}]
  /\ \/ /\ dag[t] = "pending"
        /\ dag' = [dag EXCEPT ![t] = "failed"]
        /\ target' = [target EXCEPT ![w] = t]
        /\ GoTo(w, "failState")
     \/ /\ dag[t] # "pending"
        /\ UNCHANGED <<dag, target, pc>>
  /\ UNCHANGED <<storeVars, busVars, job, faults, dispatched, lock, main, roots,
                 cur, count, wf>>

(* The callback returns and the worker with it.                            *)
EndCallback(w) ==
  /\ pc[w] \in {"advance", "cascade"}
  /\ todo[w] = {}
  /\ lock' = NoWorker
  /\ Release(w)
  /\ UNCHANGED <<storeVars, busVars, faults, dag, dispatched, todo, main, roots,
                 cur, count, wf>>

CallbackStep(w) ==
  \/ OnDone(w) \/ OnFail(w) \/ EndCallback(w)
  \/ \E t \in Task : AdvanceTo(w, t) \/ CascadeTo(w, t)

-----------------------------------------------------------------------------
(* A store call inside a callback raises.  The with-statement frees the    *)
(* lock; what on_done raises is handled as a failure of the task, what     *)
(* on_fail raises reaches run_forever.  A task whose row on_done could not *)
(* read is already marked as dispatched.                                   *)

RaiseInOnDone(w) ==
  /\ faults < MaxFaults
  /\ \/ /\ At(w, "onDone")
        /\ lock = NoWorker
        /\ dag' = [dag EXCEPT ![Doing(w)] = "completed"]
        /\ UNCHANGED dispatched
     \/ /\ At(w, "advance")
        /\ \E t \in todo[w] \ dispatched : dispatched' = dispatched \cup {t}
        /\ UNCHANGED dag
  /\ lock' = NoWorker
  /\ todo' = [todo EXCEPT ![w] = {}]
  /\ \E retryable \in BOOLEAN : GoTo(w, FailureRoute(w, retryable))
  /\ faults' = faults + 1
  /\ UNCHANGED <<storeVars, busVars, job, target, main, roots, cur, count, wf>>

RaiseInOnFail(w) ==
  /\ faults < MaxFaults
  /\ \/ /\ At(w, "onFail")
        /\ lock = NoWorker
        /\ dag' = [dag EXCEPT ![Doing(w)] = "failed"]
     \/ /\ pc[w] \in {"failState", "failRow", "failResult"}
        /\ target[w] # Doing(w)
        /\ UNCHANGED dag
  /\ lock' = NoWorker
  /\ todo' = [todo EXCEPT ![w] = {}]
  /\ Release(w)
  /\ faults' = faults + 1
  /\ UNCHANGED <<storeVars, busVars, dispatched, main, roots, cur, count, wf>>

-----------------------------------------------------------------------------
(* run_forever checks the stop event before each message.                  *)
Poll(w) ==
  /\ main \notin {"stopping", "counted", "reported"}
  /\ \E m \in Msg : Fetch(w, m)
  /\ UNCHANGED runVars

Work(w) == (WorkerStep(w) \/ Requeue(w) \/ DeadLetter(w)) /\ UNCHANGED runVars

Fault(w) == FaultStep(w) /\ UNCHANGED runVars

Next ==
  \/ MainStep
  \/ Deadline
  \/ \E w \in Worker :
        \/ Poll(w) \/ Work(w) \/ CallbackStep(w)
        \/ Fault(w) \/ RaiseInOnDone(w) \/ RaiseInOnFail(w)

Spec == Init /\ [][Next]_vars

(* Threads are scheduled fairly, handlers return (their calls have         *)
(* timeouts), an open breaker lets a probe through again.  Nothing obliges *)
(* the deadline to pass, a breaker to refuse or a store call to raise.     *)
Fairness ==
  /\ WF_vars(MainStep)
  /\ \A w \in Worker :
       /\ WF_vars(Poll(w))
       /\ WF_vars(Work(w))
       /\ SF_vars(CallbackStep(w))
       /\ SF_vars(Admit(w) /\ UNCHANGED runVars)

FairSpec == Spec /\ Fairness

-----------------------------------------------------------------------------
(* Vocabulary of the properties.                                           *)

(* The labels between winning mark_started and giving the task up again.   *)
ClaimHeld ==
  {"claimed", "begin", "run", "done", "doneRow", "doneResult", "doneAck",
   "retry", "retryMark", "retryRow", "requeue", "dead", "deadAck"}

Executes(w, t) ==
  /\ job[w] # NoMsg
  /\ Doing(w) = t
  /\ \/ pc[w] \in ClaimHeld
     \/ pc[w] \in {"failState", "failRow", "failResult"} /\ target[w] = t

(* w has a delivery of t whose outcome is not in the DAG yet.              *)
Carries(w, t) ==
  /\ job[w] # NoMsg
  /\ Doing(w) = t
  /\ \/ pc[w] \in ClaimHeld \cup {"check", "refused", "claim", "onDone", "onFail"}
     \/ pc[w] \in {"failState", "failRow", "failResult"} /\ target[w] = t

Waiting(t) == \E a \in 1..MaxAttempts : queue[[task |-> t, attempt |-> a]] > 0

(* Only the unlocked loop of the main thread can publish a task a second   *)
(* time, and only when another root completes while it is still running.   *)
PublishedOnce(t) == t \notin Roots \/ Roots = {t}

SingleSource == \A t \in Task : PublishedOnce(t)

(* The refinement mapping to DagRun.  A task is done when its row says so, *)
(* which is before the DAG hears of it: the rows are what aggregate counts.*)
Phase(t) ==
  IF status[t] = "completed" THEN "done"
  ELSE IF t \in dispatched
       THEN IF dag[t] = "failed" THEN "failed" ELSE "active"
       ELSE IF dag[t] = "failed" THEN "skipped" ELSE "waiting"

Abstract ==
  INSTANCE DagRun WITH phase <- [t \in Task |-> Phase(t)], counted <- count, verdict <- wf

-----------------------------------------------------------------------------
(* The inductive invariant behind AtMostOneExecutor: a task that is        *)
(* published once has one token, a waiting message or a worker holding it. *)

(* w will execute, requeue or settle its delivery of t.                    *)
Holds(w, t) == pc[w] \notin {"idle", "retryAck"} /\ Doing(w) = t

OneMessage ==
  \A m, n \in Msg : m.task = n.task /\ PublishedOnce(m.task) /\ queue[m] > 0 =>
    queue[m] = 1 /\ (queue[n] > 0 => m = n)

MessageOrHolder ==
  \A m \in Msg, w \in Worker : PublishedOnce(m.task) /\ queue[m] > 0 => ~ Holds(w, m.task)

OneHolder ==
  \A t \in Task, v, w \in Worker :
    PublishedOnce(t) /\ Holds(v, t) /\ Holds(w, t) => v = w

OnlyDispatched ==
  /\ \A m \in Msg : queue[m] > 0 => m.task \in dispatched
  /\ \A w \in Worker : pc[w] # "idle" => Doing(w) \in dispatched

(* Until a single root is published, nothing else happens.                 *)
SoloStart ==
  \A r \in Roots : Roots = {r} /\ (r \in roots \/ (main = "publish" /\ cur = r)) =>
    /\ \A w \in Worker : pc[w] = "idle"
    /\ \A m \in Msg : queue[m] = 0

RootsLeft ==
  /\ roots \subseteq Roots
  /\ main = "publish" => cur \in Roots /\ cur \notin roots /\ cur \in dispatched

TokenInv ==
  OneMessage /\ MessageOrHolder /\ OneHolder /\ OnlyDispatched /\ SoloStart /\ RootsLeft

-----------------------------------------------------------------------------
(* A task is executed by at most one worker at a time (mark_started,       *)
(* worker.py:161), for every task that is published once.                  *)
AtMostOneExecutor ==
  \A t \in Task : PublishedOnce(t) =>
    \A v, w \in Worker : Executes(v, t) /\ Executes(w, t) => v = w

(* The same for every task, as README.md:127 of the repository and the     *)
(* comment of mark_started promise it.                                     *)
NeverExecutedTwiceAtOnce ==
  \A t \in Task, v, w \in Worker : Executes(v, t) /\ Executes(w, t) => v = w

(* A worker executes a task only when every dependency has its result,     *)
(* also when a store call raises, on_done fails half way through the ready *)
(* list and a completed task is taken back to be retried.                  *)
ResultsFirst ==
  \A w \in Worker, t \in Task : Executes(w, t) =>
    \A d \in Deps[t] : "completed" \in results[d]

(* The dependencies of an executing task are completed in all three        *)
(* tables, not only in the orchestrator's in-memory DAG.                   *)
TablesFirst ==
  \A w \in Worker, t \in Task : Executes(w, t) =>
    \A d \in Deps[t] :
      es[d] = "completed" /\ status[d] = "completed" /\ results[d] = {"completed"}

(* A task runs when everything it depends on is completed (dag.py:12).     *)
(* The result is there whatever happens; the other tables say completed as *)
(* long as no store call has raised.  After one has, a sibling that is     *)
(* retried may be running again next to the task that depends on it.       *)
DependenciesFirst == ResultsFirst /\ (faults = 0 => TablesFirst)

(* A published task whose outcome is open is never dropped: a message for  *)
(* it waits, a worker carries it, or the main thread is publishing it.     *)
NoTaskLost ==
  \A t \in Task : t \in dispatched /\ dag[t] = "pending" =>
    \/ Waiting(t)
    \/ \E w \in Worker : Carries(w, t)
    \/ cur = t

(* Once nobody works on a task, the DAG, the execution state, the task row *)
(* and the recorded results agree on how it ended.                         *)
RecordsAgree ==
  \A t \in Task :
    (\A w \in Worker : pc[w] \in {"idle", "check"} \/ (Doing(w) # t /\ target[w] # t)) =>
      /\ dag[t] = "completed" <=> results[t] = {"completed"}
      /\ dag[t] = "failed" <=> results[t] = {"failed"}
      /\ dag[t] # "pending" => es[t] = dag[t] /\ status[t] = dag[t]

(* No step takes a completed task back (worker.py:142): its row, its       *)
(* execution state and its result stay.                                    *)
CompletedIsFinal ==
  [][\A t \in Task : "completed" \in results[t] =>
       status'[t] = "completed" /\ es'[t] = "completed" /\ results'[t] = {"completed"}]_vars

(* The attempt number in the task row never goes back, so the retry budget *)
(* of a task is spent once.                                                *)
AttemptsMoveForward == [][\A t \in Task : attempt'[t] >= attempt[t]]_vars

(* t has its result, or a worker has written its row and comes to it next. *)
Recorded(t) ==
  \/ results[t] = {"completed"}
  \/ results[t] = {} /\ \E w \in Worker : At(w, "doneResult") /\ Doing(w) = t

(* The verdict is right although workers may outlast the two seconds that  *)
(* pool.stop gives them: completed is counted, and still reported later,   *)
(* only when no task has failed and every one has its result, but for the  *)
(* last commit of mark_completed; failed is counted only after a dead      *)
(* letter, or when the deadline has passed and a task is still open.       *)
ReportTruthful ==
  [][/\ main = "stopping" /\ main' = "counted" =>
          IF count' = "completed"
          THEN \A t \in Task : Recorded(t)
          ELSE dlq # {} \/ \E t \in Task : dag[t] = "pending"
     /\ main = "counted" /\ main' = "reported" /\ wf' = "completed" =>
          \A t \in Task : Recorded(t)]_vars

(* The run is a run of the abstract DagRun: tasks are activated only when  *)
(* their dependencies are done, settle once, are skipped only downstream   *)
(* of a failure, and the verdict is what the tasks were when they were     *)
(* counted, however late a worker is (dag.py:12, README.md:127).           *)
RunsTheDag == Abstract!DagSpec

(* run_workflow returns: every published message is worked off and every   *)
(* failure cascades, so the wait loop ends without needing its deadline.   *)
Terminates == <>(main = "reported")

-----------------------------------------------------------------------------
(* The inductive invariant behind the other properties of a run, for a     *)
(* graph with one source and a store that does not raise: what the three   *)
(* tables say of a task is fixed by where its token is.                    *)

(* The execution state, the row and the results of t.                      *)
Entry(t) == <<es[t], status[t], results[t]>>

Untouched  == <<"created", "queued", {}>>
Waitable   == {Untouched, <<"retrying", "retrying", {}>>}
Settled(s) == <<s, s, {s}>>

(* The entry of a task whose carrier is at the label.                      *)
Expected(label) ==
  CASE label \in {"check", "refused", "claim"} -> Waitable
    [] label = "claimed" -> {<<"running", "queued", {}>>, <<"running", "retrying", {}>>}
    [] label \in {"begin", "run", "done", "retry", "dead", "failState"} ->
         {<<"running", "running", {}>>}
    [] label = "doneRow" -> {<<"completed", "running", {}>>}
    [] label = "doneResult" -> {<<"completed", "completed", {}>>}
    [] label \in {"doneAck", "onDone"} -> {Settled("completed")}
    [] label \in {"retryMark", "retryRow"} -> {<<"retrying", "running", {}>>}
    [] label = "requeue" -> {<<"retrying", "retrying", {}>>}
    [] label = "failRow" -> {<<"failed", "running", {}>>}
    [] label = "failResult" -> {<<"failed", "failed", {}>>}
    [] label \in {"deadAck", "onFail"} -> {Settled("failed")}
    [] OTHER -> {}

(* The entry of a task that on_fail is failing because of another one.     *)
ExpectedBelow(label) ==
  CASE label = "failState" -> Untouched
    [] label = "failRow"   -> <<"failed", "queued", {}>>
    [] OTHER               -> <<"failed", "failed", {}>>

Failing == {"failState", "failRow", "failResult"}

FailsBelow(w) == pc[w] \in Failing /\ target[w] # Doing(w)

Cascading(w) == pc[w] = "cascade" \/ FailsBelow(w)

CarriersTell ==
  \A w \in Worker, t \in Task : Carries(w, t) =>
    dag[t] = "pending" /\ Entry(t) \in Expected(pc[w])

MessagesTell ==
  \A m \in Msg : queue[m] > 0 => dag[m.task] = "pending" /\ Entry(m.task) \in Waitable

FirstPublish ==
  /\ roots # {} => dispatched = {} /\ \A t \in Task : dag[t] = "pending"
  /\ main # "publish" => cur = NoTask
  /\ main = "publish" => dag[cur] = "pending" /\ Entry(cur) = Untouched

(* Callbacks exclude each other, on_done looks at ready tasks, on_fail at  *)
(* tasks below a failed one, none of which was ever dispatched.            *)
CallbackInv ==
  \A w \in Worker :
    /\ pc[w] = "advance" \/ Cascading(w) => lock = w
    /\ pc[w] = "advance" => todo[w] \subseteq ReadyTasks(dag)
    /\ Cascading(w) => dag[Doing(w)] = "failed" /\ todo[w] \subseteq Descendants(Doing(w))
    /\ FailsBelow(w) => /\ dag[target[w]] = "failed" /\ target[w] \notin dispatched
                        /\ Entry(target[w]) = ExpectedBelow(pc[w])

DagInv ==
  /\ \A t \in Task : t \notin dispatched =>
       dag[t] # "completed" /\ (dag[t] = "pending" => Entry(t) = Untouched)
  /\ \A t \in dispatched : \A d \in Deps[t] : dag[d] = "completed"
  /\ \A t \in Task : dag[t] # "pending" =>
       \/ Entry(t) = Settled(dag[t])
       \/ \E w \in Worker : FailsBelow(w) /\ target[w] = t

(* Every failure starts in the dead-letter queue.                          *)
CauseInv ==
  /\ \A w \in Worker : pc[w] \in Failing \cup {"deadAck", "onFail", "cascade"} => dlq # {}
  /\ \A t \in Task : dag[t] = "failed" => dlq # {}
  /\ main # "reported" => wf = "running"
  /\ main \notin {"counted", "reported"} => count = "running"
  /\ main = "counted" => count # "running"

RunInv ==
  CarriersTell /\ MessagesTell /\ FirstPublish /\ CallbackInv /\ DagInv /\ CauseInv /\ NoTaskLost

(* The attempt in the row of a task published once is that of its token.   *)
AttemptInv ==
  /\ \A m \in Msg : PublishedOnce(m.task) /\ queue[m] > 0 => m.attempt = attempt[m.task]
  /\ \A w \in Worker, t \in Task : PublishedOnce(t) /\ Holds(w, t) =>
       attempt[t] = IF pc[w] = "requeue" THEN job[w].attempt + 1 ELSE job[w].attempt

(* The inductive invariant behind ResultsFirst, for every graph and however*)
(* many store calls raise: on_done is called after the last commit of      *)
(* mark_completed, and no result is ever taken away.                       *)
HasResult(t) == "completed" \in results[t]

ResultsInv ==
  /\ \A t \in Task : dag[t] = "completed" => HasResult(t)
  /\ \A t \in dispatched : \A d \in Deps[t] : HasResult(d)
  /\ \A w \in Worker : pc[w] \in {"doneAck", "onDone"} => HasResult(Doing(w))
  /\ \A w \in Worker : pc[w] = "advance" =>
       \A t \in todo[w] : \A d \in Deps[t] : HasResult(d)

(* What was counted as completed stays completed.                          *)
CountInv == count = "completed" => \A t \in Task : status[t] = "completed"

-----------------------------------------------------------------------------
(* The inductive invariant behind TablesFirst when store calls raise       *)
(* and the graph is a chain: one task is live at a time, and all others    *)
(* that on_done has completed stay as they are.                            *)

Chain ==
  /\ \A t \in Task : \A c, d \in Deps[t] : c = d
  /\ \A s, t \in Task : Deps[s] \cap Deps[t] # {} => s = t

(* on_done of w has nothing left to publish.                               *)
Spent(w) == pc[w] = "advance" /\ todo[w] \subseteq dispatched

(* w may still do something for its task.                                  *)
Busy(w) == pc[w] \notin {"idle", "retryAck"} /\ ~ Spent(w)

Live(t) ==
  \/ \E m \in Msg : m.task = t /\ queue[m] > 0
  \/ \E w \in Worker : Busy(w) /\ Doing(w) = t

OneLive == \A s, t \in Task : Live(s) /\ Live(t) => s = t

(* The dependencies of t are completed, what else is completed is recorded *)
(* as such, and what depends on it was looked at.                          *)
Behind(t) ==
  /\ \A d \in Deps[t] : d # t /\ dag[d] = "completed"
  /\ \A e \in Task \ {t} : dag[e] = "completed" =>
       /\ Entry(e) = Settled("completed")
       /\ \A s \in Task : e \in Deps[s] => s \in dispatched \/ dag[s] # "pending"

(* How far w has got with mark_completed and on_done.                      *)
Told(w) ==
  /\ pc[w] \notin Failing \cup {"deadAck", "onFail", "cascade"} =>
       "failed" \notin results[Doing(w)]
  /\ pc[w] \in {"doneRow", "doneResult"} => es[Doing(w)] = "completed"
  /\ pc[w] = "doneResult" => status[Doing(w)] = "completed"
  /\ pc[w] \in {"doneAck", "onDone", "advance"} => Entry(Doing(w)) = Settled("completed")
  /\ pc[w] = "advance" => \A s \in Task : Doing(w) \in Deps[s] =>
       s \in todo[w] \cup dispatched \/ dag[s] # "pending"

(* Callbacks exclude each other, whatever raises.                          *)
Locked(w) ==
  /\ pc[w] = "advance" \/ Cascading(w) => lock = w
  /\ pc[w] = "advance" => todo[w] \subseteq ReadyTasks(dag)
  /\ Cascading(w) => dag[Doing(w)] = "failed"
  /\ FailsBelow(w) => dag[target[w]] = "failed"

(* Before the source is published nothing has happened to any task.        *)
BeforePublish ==
  /\ Roots \subseteq roots \cup dispatched
  /\ roots # {} \/ main = "publish" => \A t \in Task : dag[t] = "pending" /\ results[t] = {}
  /\ \A t \in Task : t \notin dispatched /\ dag[t] = "pending" => results[t] = {}
  /\ \A m \in Msg : queue[m] > 0 => "failed" \notin results[m.task]

ChainInv ==
  /\ OneLive /\ BeforePublish
  /\ \A t \in Task : Live(t) => Behind(t)
  /\ \A w \in Worker : Locked(w) /\ (Busy(w) => Told(w))

=============================================================================
