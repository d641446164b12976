------------------------- MODULE CrossProcess_proofs -------------------------
(***************************************************************************)
(* Theorems about the deployed engine for every graph, every set of worker *)
(* processes and every bound on attempts, over submissions that race with  *)
(* the advancer and clients that poll.  What a theorem needs besides is in *)
(* its assumptions or in the property it names.                            *)
(***************************************************************************)
EXTENDS CrossHistory, TaskWorker_proofs

-----------------------------------------------------------------------------
(* Type correctness.                                                       *)

(* The types make Worker steps keep the worker part of them.               *)
LEMMA WorkTypeOK ==
  ASSUME CrossTypeOK, NEW w \in Worker, Poll(w) \/ Work(w) \/ NoCallback(w)
  PROVE  CrossTypeOK'
<1>1. UNCHANGED <<apiVars, advVars, view, wf, severed, crashes>>
  BY DEF Poll, Work, NoCallback
<1>2. CASE Poll(w) \/ Work(w)
  <2>1. TypeOK'
    BY <1>2, WorkerTypeOK DEF CrossTypeOK, Poll, Work, DeadLetterRoute
  <2> QED BY <1>1, <2>1 DEF CrossTypeOK, apiVars, advVars
<1>3. CASE NoCallback(w)
  <2>1. TypeOK'
    BY <1>3 DEF CrossTypeOK, TypeOK, NoCallback, Release, GoTo, storeVars, busVars,
                WorkerPC, Retrying
  <2> QED BY <1>1, <2>1 DEF CrossTypeOK, apiVars, advVars
<1> QED BY <1>2, <1>3

(* What the broker does to the deliveries of a lost channel.               *)
LEMMA RedeliverTypeOK ==
  ASSUME CrossTypeOK, NEW w \in Worker, Redeliver(w), UNCHANGED <<storeVars, dlq, faults>>
  PROVE  TypeOK'
<1>1. queue' \in [Msg -> Nat]
  BY DEF CrossTypeOK, TypeOK, Redeliver
<1> QED BY <1>1 DEF CrossTypeOK, TypeOK, Redeliver, Release, GoTo, storeVars, WorkerPC, Retrying

(* Closed channels and crashes keep the types.                             *)
LEMMA CrashTypeOK ==
  ASSUME CrossTypeOK,
         AdvancerCrash \/ \E w \in Worker : ChannelLost(w) \/ WorkerCrash(w)
  PROVE  CrossTypeOK'
<1>1. CASE AdvancerCrash
  BY <1>1, CrossAssumption DEF CrossTypeOK, AdvancerCrash, TypeOK, wvars, storeVars, busVars,
     workVars, Retrying, apiVars, WorkflowStatus
<1>2. ASSUME NEW w \in Worker, ChannelLost(w)
      PROVE  CrossTypeOK'
  <2>1. TypeOK'
    BY <1>2, RedeliverTypeOK DEF ChannelLost
  <2> QED BY <1>2, <2>1 DEF CrossTypeOK, ChannelLost, apiVars, advVars
<1>3. ASSUME NEW w \in Worker, WorkerCrash(w)
      PROVE  CrossTypeOK'
  <2>1. TypeOK'
    BY <1>3, RedeliverTypeOK DEF WorkerCrash
  <2>2. crashes' \in 0..MaxCrashes /\ severed' \in SUBSET Worker
    BY <1>3, CrossAssumption DEF CrossTypeOK, WorkerCrash
  <2> QED BY <1>3, <2>1, <2>2 DEF CrossTypeOK, WorkerCrash, apiVars, advVars
<1> QED BY <1>1, <1>2, <1>3

(* The steps of submit keep the types.                                     *)
LEMMA SubmitTypeOK ==
  ASSUME CrossTypeOK, SubmitStep
  PROVE  CrossTypeOK'
<1>1. ASSUME NEW t \in Task, CreateTask(t)
      PROVE  CrossTypeOK'
  BY <1>1 DEF CrossTypeOK, CreateTask, TypeOK, wvars, storeVars, busVars, workVars, Retrying,
     advVars
<1>2. ASSUME NEW t \in Task, PublishRoot(t)
      PROVE  CrossTypeOK'
  <2>1. [task |-> t, attempt |-> attempt[t]] \in Msg
    BY DEF CrossTypeOK, TypeOK, Msg
  <2>2. TypeOK'
    BY <1>2, <2>1 DEF CrossTypeOK, TypeOK, PublishRoot, Enqueue, storeVars, workVars, Retrying
  <2> QED BY <1>2, <2>2 DEF CrossTypeOK, PublishRoot, advVars
<1>3. ASSUME NEW t \in Task, NEW d \in Task, AddDependency(t, d)
      PROVE  CrossTypeOK'
  <2>1. edges' \in SUBSET (Task \X Task)
    BY <1>3 DEF CrossTypeOK, AddDependency
  <2> QED BY <1>3, <2>1 DEF CrossTypeOK, AddDependency, TypeOK, wvars, storeVars, busVars,
             workVars, Retrying, advVars
<1> QED BY <1>1, <1>2, <1>3 DEF SubmitStep

(* The steps of the advancer and of a GET keep the types.                  *)
LEMMA AdvanceTypeOK ==
  ASSUME CrossTypeOK, AdvanceStep \/ ReadWorkflow \/ AnswerRead
  PROVE  CrossTypeOK'
<1>1. CASE Select
  <2>1. batch' \in SUBSET Msg
    BY <1>1 DEF CrossTypeOK, TypeOK, Select, Dispatchable, Msg
  <2> QED BY <1>1, <2>1 DEF CrossTypeOK, Select, TypeOK, wvars, storeVars, busVars, workVars,
             Retrying, apiVars
<1>2. CASE MarkDispatched
  <2>1. TypeOK'
    BY <1>2 DEF CrossTypeOK, TypeOK, MarkDispatched, SetState, busVars, workVars, TaskStatus,
                Retrying
  <2> QED BY <1>2, <2>1 DEF CrossTypeOK, MarkDispatched, apiVars
<1>3. CASE SelectStuck
  BY <1>3 DEF CrossTypeOK, SelectStuck, Stuck, TypeOK, wvars, storeVars, busVars, workVars,
     Retrying, apiVars
<1>4. CASE SweepRow
  <2>1. TypeOK'
    BY <1>4 DEF CrossTypeOK, TypeOK, SweepRow, SetRow, busVars, workVars, TaskStatus, Retrying
  <2> QED BY <1>4, <2>1 DEF CrossTypeOK, SweepRow, apiVars
<1>5. CASE SweepResult
  <2>1. TypeOK'
    BY <1>5 DEF CrossTypeOK, TypeOK, SweepResult, busVars, workVars, Retrying
  <2> QED BY <1>5, <2>1 DEF CrossTypeOK, SweepResult, apiVars
<1>6. CASE Finalize \/ WriteVerdict
  BY <1>6 DEF CrossTypeOK, Finalize, WriteVerdict, Outcome, WorkflowStatus, TypeOK, wvars,
     storeVars, busVars, workVars, Retrying, apiVars
<1>7. ASSUME NEW m \in Msg, PublishReady(m)
      PROVE  CrossTypeOK'
  <2>1. TypeOK'
    BY <1>7 DEF CrossTypeOK, TypeOK, PublishReady, Enqueue, storeVars, workVars, Retrying
  <2> QED BY <1>7, <2>1, MsgParts DEF CrossTypeOK, PublishReady, apiVars
<1>8. ASSUME NEW t \in Task, SweepState(t)
      PROVE  CrossTypeOK'
  <2>1. TypeOK'
    BY <1>8 DEF CrossTypeOK, TypeOK, SweepState, SetState, busVars, workVars, TaskStatus,
                Retrying
  <2> QED BY <1>8, <2>1 DEF CrossTypeOK, SweepState, apiVars
<1>9. CASE ReadWorkflow \/ AnswerRead
  BY <1>9 DEF CrossTypeOK, ReadWorkflow, AnswerRead, WorkflowStatus, TypeOK, wvars, storeVars,
     busVars, workVars, Retrying, apiVars, advVars
<1> QED BY <1>1, <1>2, <1>3, <1>4, <1>5, <1>6, <1>7, <1>8, <1>9 DEF AdvanceStep

(* So every step of the deployment does.                                   *)
LEMMA CrossNextTypeOK == CrossTypeOK /\ [Next]_vars => CrossTypeOK'
<1> SUFFICES ASSUME CrossTypeOK, [Next]_vars PROVE CrossTypeOK'
  OBVIOUS
<1>1. CASE UNCHANGED vars
  BY <1>1 DEF CrossTypeOK, TypeOK, vars, wvars, storeVars, busVars, workVars, Retrying,
     apiVars, advVars
<1> QED BY <1>1, WorkTypeOK, CrashTypeOK, SubmitTypeOK, AdvanceTypeOK DEF Next

(* The state submit, the advancer and the workers start from.              *)
LEMMA CrossInitTypeOK == Init => CrossTypeOK
<1> SUFFICES ASSUME Init PROVE CrossTypeOK
  OBVIOUS
<1>1. TypeOK
  BY WorkerInitTypeOK DEF Init
<1> QED BY <1>1, CrossAssumption DEF Init, CrossTypeOK, Roots, WorkflowStatus

(* Whatever crashes and however the services interleave, the shared state  *)
(* keeps its types: mark_failed always has a task, messages carry attempts *)
(* within max_attempts (retry.py:86), statuses stay in their range.        *)
THEOREM DeploymentTypeCorrect == Spec => []CrossTypeOK
BY CrossInitTypeOK, CrossNextTypeOK, PTL DEF Spec

-----------------------------------------------------------------------------
(* Who writes the workflow status.                                         *)

(* Submission, workers, brokers and crashes of workers leave the advancer  *)
(* and the workflow status alone.                                          *)
LEMMA OthersLeaveVerdict ==
  ASSUME SubmitStep \/ \E w \in Worker : \/ Poll(w) \/ Work(w) \/ NoCallback(w)
                                         \/ ChannelLost(w) \/ WorkerCrash(w)
  PROVE  UNCHANGED <<advVars, view, wf>>
<1>1. CASE SubmitStep
  BY <1>1 DEF SubmitStep, CreateTask, PublishRoot, AddDependency
<1>2. CASE \E w \in Worker : Poll(w) \/ Work(w) \/ NoCallback(w)
  BY <1>2 DEF Poll, Work, NoCallback
<1>3. CASE \E w \in Worker : ChannelLost(w) \/ WorkerCrash(w)
  BY <1>3 DEF ChannelLost, WorkerCrash
<1> QED BY <1>1, <1>2, <1>3

(* Without GETs no view is about to be written.                            *)
LEMMA ReadStep ==
  ASSUME ReadInv, [Next]_vars
  PROVE  ReadInv'
<1>1. CASE UNCHANGED view
  BY <1>1 DEF ReadInv
<1>2. CASE AdvanceStep \/ AdvancerCrash
  BY <1>1, <1>2 DEF AdvanceStep, Select, MarkDispatched, SelectStuck, SweepRow, SweepResult,
     Finalize, WriteVerdict, PublishReady, SweepState, AdvancerCrash
<1>3. CASE ReadWorkflow \/ AnswerRead
  BY <1>3 DEF ReadInv, ReadWorkflow, AnswerRead
<1>4. CASE UNCHANGED vars
  BY <1>1, <1>4 DEF vars
<1> QED BY <1>1, <1>2, <1>3, <1>4, OthersLeaveVerdict DEF Next

-----------------------------------------------------------------------------
(* What a recorded failure goes back to.                                   *)

(* A dependent of a task that c explains is explained by c.                *)
LEMMA DescendantsInherit ==
  ASSUME NEW t \in Task, NEW d \in Deps[t], NEW c, d = c \/ d \in Descendants(c)
  PROVE  t = c \/ t \in Descendants(c)
<1> SUFFICES ASSUME t # c, NEW S \in SUBSET Task, ClosedFrom(c, S)
             PROVE  t \in S
  BY DEF Descendants
<1>1. d \in S \cup {c}
  BY DEF Descendants
<1>2. t \in Dependents(S \cup {c})
  BY <1>1 DEF Dependents
<1> QED BY <1>2 DEF ClosedFrom

(* The labels of mark_failed.                                              *)
Failing == {"failState", "failRow", "failResult"}

(* What a step of worker w may do about failures.                          *)
FailsOnly(w) ==
  /\ dlq \subseteq dlq'
  /\ \A t \in Task : status'[t] = "failed" =>
       status[t] = "failed" \/ (At(w, "failRow") /\ t = target[w])
  /\ \A t \in Task : "failed" \in results'[t] =>
       "failed" \in results[t] \/ (At(w, "failResult") /\ t = target[w])
  /\ \A v \in Worker : pc'[v] \in Failing =>
       \/ pc[v] \in Failing /\ target'[v] = target[v]
       \/ target'[v] \in dlq'

(* Only mark_failed records failures, about the task it was called with.   *)
LEMMA WorkFails ==
  ASSUME TypeOK, NEW w \in Worker, Poll(w) \/ Work(w) \/ NoCallback(w)
  PROVE  FailsOnly(w)
<1>1. CASE Poll(w)
  BY <1>1 DEF TypeOK, FailsOnly, Failing, Poll, Fetch, GoTo, storeVars, At
<1>2. CASE NoCallback(w)
  BY <1>2 DEF TypeOK, FailsOnly, Failing, NoCallback, Release, GoTo, storeVars, busVars, At
<1>3. CASE ProcessStep(w)
  BY <1>3 DEF TypeOK, FailsOnly, Failing, ProcessStep, SkipCompleted, Admit, Refuse, PutBack,
     Claim, LoseClaim, MarkRunning, Release, GoTo, SetRow, storeVars, busVars, At
<1>4. CASE ExecuteStep(w)
  BY <1>4 DEF TypeOK, FailsOnly, Failing, ExecuteStep, Begin, HandlerSucceeds, VerifierRejects,
     HandlerRaises, FailureRoute, GoTo, storeVars, busVars, At
<1>5. CASE CompleteStep(w)
  BY <1>5 DEF TypeOK, FailsOnly, Failing, CompleteStep, CompleteState, CompleteRow,
     CompleteResult, AckCompleted, GoTo, SetRow, storeVars, busVars, At
<1>6. CASE RetryStep(w) \/ Requeue(w)
  BY <1>6 DEF TypeOK, FailsOnly, Failing, RetryStep, RetryState, RetryMark, RetryRow, AckRetried,
     Requeue, Release, GoTo, SetRow, storeVars, busVars, At
<1>7. CASE DeadLetterStep(w)
  BY <1>7 DEF TypeOK, FailsOnly, Failing, DeadLetterStep, FailState, FailRow, FailResult, AckDead,
     GoTo, SetRow, storeVars, busVars, At
<1>8. CASE DeadLetterRoute(w)
  BY <1>8 DEF TypeOK, FailsOnly, Failing, DeadLetterRoute, DeadLetter, Unroutable,
     GoTo, storeVars, busVars, At
<1> QED BY <1>1, <1>2, <1>3, <1>4, <1>5, <1>6, <1>7, <1>8 DEF Work, WorkerStep

(* Crashes and closed channels record nothing.                             *)
LEMMA CrashFails ==
  ASSUME TypeOK, AdvancerCrash \/ \E w \in Worker : ChannelLost(w) \/ WorkerCrash(w)
  PROVE  /\ dlq' = dlq /\ status' = status /\ results' = results
         /\ \A v \in Worker : pc'[v] \in Failing => pc[v] \in Failing /\ target'[v] = target[v]
<1>1. CASE AdvancerCrash
  BY <1>1 DEF AdvancerCrash, wvars, storeVars, busVars, workVars
<1>2. CASE \E w \in Worker : ChannelLost(w) \/ WorkerCrash(w)
  BY <1>2 DEF TypeOK, ChannelLost, WorkerCrash, Redeliver, Release, GoTo, Failing, storeVars
<1> QED BY <1>1, <1>2

(* What explains a task goes on explaining it.                             *)
LEMMA CausedStays ==
  ASSUME dlq \subseteq dlq', NEW t, Caused(t)
  PROVE  Caused(t)'
BY DEF Caused

(* An explained failure stays explained when the step records no other.    *)
LEMMA CausesKept ==
  ASSUME CausesInv, dlq \subseteq dlq',
         \A t \in Task : status'[t] = "failed" \/ "failed" \in results'[t] => Caused(t),
         \A v \in Worker : pc'[v] \in Failing =>
            (pc[v] \in Failing /\ target'[v] = target[v]) \/ target'[v] \in dlq',
         sweep' \subseteq sweep,
         adv' \in {"failRow", "failResult"} => Caused(victim')
  PROVE  CausesInv'
<1>1. \A t : Caused(t) => Caused(t)'
  BY CausedStays
<1>2. \A t : t \in dlq' => Caused(t)'
  BY DEF Caused
<1>3. Caused(victim') => Caused(victim)'
  BY <1>1 DEF Caused
<1>4. \A v \in Worker : Caused(target[v]) /\ target'[v] = target[v] => Caused(target[v])'
  BY <1>1 DEF Caused
<1>5. \A v \in Worker : target'[v] \in dlq' => Caused(target[v])'
  BY <1>2 DEF Caused
<1>6. \A v \in Worker : pc'[v] \in Failing => Caused(target[v])'
  BY <1>4, <1>5 DEF CausesInv, Failing
<1> QED BY <1>1, <1>3, <1>6 DEF CausesInv, Failing

(* Every failure recorded, or about to be, keeps its cause.                *)
LEMMA CausesStep ==
  ASSUME CrossTypeOK, SubmitInv, CausesInv, [Next]_vars
  PROVE  CausesInv'
<1>0. TypeOK
  BY DEF CrossTypeOK
<1>1. ASSUME NEW w \in Worker, Poll(w) \/ Work(w) \/ NoCallback(w)
      PROVE  CausesInv'
  <2>1. FailsOnly(w)
    BY <1>0, <1>1, WorkFails
  <2>2. UNCHANGED <<adv, sweep, victim>>
    BY <1>1, OthersLeaveVerdict DEF advVars
  <2>3. \A t \in Task : status'[t] = "failed" \/ "failed" \in results'[t] => Caused(t)
    BY <2>1 DEF FailsOnly, CausesInv, At
  <2> QED BY <2>1, <2>2, <2>3, CausesKept DEF FailsOnly, CausesInv
<1>2. CASE AdvancerCrash \/ \E w \in Worker : ChannelLost(w) \/ WorkerCrash(w)
  <2>1. UNCHANGED <<adv, sweep, victim>> \/ (adv' = "select" /\ sweep' = {})
    BY <1>2, OthersLeaveVerdict DEF advVars, AdvancerCrash
  <2> QED BY <1>0, <1>2, <2>1, CrashFails, CausesKept DEF CausesInv
<1>3. CASE SubmitStep \/ ReadWorkflow \/ AnswerRead
  <2>1. UNCHANGED <<storeVars, dlq, workVars, advVars>>
    BY <1>3 DEF SubmitStep, CreateTask, PublishRoot, AddDependency,
                ReadWorkflow, AnswerRead, wvars, busVars
  <2> QED BY <2>1, CausesKept DEF CausesInv, storeVars, workVars, advVars
<1>4. CASE UNCHANGED vars
  BY <1>4, CausesKept DEF CausesInv, vars, wvars, storeVars, busVars, workVars, advVars
<1>5. CASE Select \/ SelectStuck \/ Finalize \/ WriteVerdict
  <2>1. ASSUME NEW t \in Stuck PROVE Caused(t)
    <3>1. PICK d \in rows : Edge(t, d) /\ status[d] = "failed"
      BY DEF Stuck
    <3>2. t \in Task /\ d \in Task
      BY DEF CrossTypeOK, Stuck
    <3>3. d \in Deps[t]
      BY <3>1, <3>2 DEF SubmitInv
    <3>4. Caused(d)
      BY <3>1, <3>2 DEF CausesInv
    <3> QED BY <3>2, <3>3, <3>4, DescendantsInherit DEF Caused
  <2>2. UNCHANGED wvars /\ adv' \notin {"failRow", "failResult"}
    BY <1>5 DEF Select, SelectStuck, Finalize, WriteVerdict
  <2>3. sweep' = sweep \/ sweep' = Stuck
    BY <1>5 DEF Select, SelectStuck, Finalize, WriteVerdict
  <2>4. UNCHANGED <<status, results, dlq, pc, target>>
    BY <2>2 DEF wvars, storeVars, busVars, workVars
  <2>5. \A t : Caused(t) => Caused(t)'
    BY <2>4, CausedStays
  <2>6. \A t \in sweep' : Caused(t)
    BY <2>1, <2>3 DEF CausesInv
  <2>7. \A w \in Worker : pc[w] \in {"failState", "failRow", "failResult"} => Caused(target[w])'
    BY <2>4 DEF CausesInv, Caused
  <2> QED BY <2>2, <2>4, <2>5, <2>6, <2>7 DEF CausesInv
<1>6. CASE MarkDispatched \/ \E m \in Msg : PublishReady(m)
  <2>1. UNCHANGED <<status, results, dlq, pc, target, sweep>> /\ adv' \in {"publish", "mark"}
    BY <1>6 DEF MarkDispatched, PublishReady, storeVars, busVars, workVars
  <2> QED BY <2>1, CausesKept DEF CausesInv
<1>7. ASSUME NEW t \in Task, SweepState(t)
      PROVE  CausesInv'
  <2>1. UNCHANGED <<status, results, dlq, pc, target>> /\ sweep' \subseteq sweep
        /\ t \in sweep /\ victim' = t
    BY <1>7 DEF SweepState, busVars, workVars
  <2> QED BY <2>1, CausesKept DEF CausesInv
<1>8. CASE SweepRow
  <2>1. UNCHANGED <<results, dlq, pc, target, sweep, victim>> /\ adv = "failRow"
    BY <1>8 DEF SweepRow, busVars, workVars
  <2>2. \A t \in Task : status'[t] = "failed" => status[t] = "failed" \/ t = victim
    BY <1>8 DEF SweepRow, SetRow, CrossTypeOK, TypeOK
  <2> QED BY <2>1, <2>2, CausesKept DEF CausesInv
<1>9. CASE SweepResult
  <2>1. UNCHANGED <<status, dlq, pc, target, sweep>> /\ adv = "failResult" /\ adv' = "sweep"
    BY <1>9 DEF SweepResult, busVars, workVars
  <2>2. \A t \in Task : "failed" \in results'[t] => "failed" \in results[t] \/ t = victim
    BY <1>9 DEF SweepResult, CrossTypeOK, TypeOK
  <2> QED BY <2>1, <2>2, CausesKept DEF CausesInv
<1> QED BY <1>1, <1>2, <1>3, <1>4, <1>5, <1>6, <1>7, <1>8, <1>9 DEF Next, AdvanceStep

-----------------------------------------------------------------------------
(* How far the submission is.                                              *)

(* Rows, then edges, then messages.                                        *)
LEMMA SubmitInvStep ==
  ASSUME CrossTypeOK, SubmitInv, [Next]_vars
  PROVE  SubmitInv'
<1>1. CASE UNCHANGED apiVars
  BY <1>1 DEF SubmitInv, Edge, apiVars
<1>2. ASSUME NEW w \in Worker,
             Poll(w) \/ Work(w) \/ NoCallback(w) \/ ChannelLost(w) \/ WorkerCrash(w)
      PROVE  SubmitInv'
  BY <1>1, <1>2 DEF Poll, Work, NoCallback, ChannelLost, WorkerCrash
<1>3. CASE AdvanceStep \/ AdvancerCrash \/ UNCHANGED vars \/ ReadWorkflow \/ AnswerRead
  BY <1>1, <1>3 DEF AdvanceStep, Select, MarkDispatched, SelectStuck, SweepRow, SweepResult,
     Finalize, WriteVerdict, PublishReady, SweepState, AdvancerCrash, ReadWorkflow, AnswerRead, vars
<1>4. CASE \E t \in Task : CreateTask(t) \/ PublishRoot(t)
  BY <1>4 DEF SubmitInv, CreateTask, PublishRoot, Edge, CrossTypeOK
<1>5. CASE \E t, d \in Task : AddDependency(t, d)
  BY <1>5 DEF SubmitInv, AddDependency, Edge
<1> QED BY <1>2, <1>3, <1>4, <1>5 DEF Next, SubmitStep

(* Where submit starts.                                                    *)
LEMMA SubmitInit == Init => SubmitInv
BY DEF Init, SubmitInv, Edge

(* Rows come before edges, edges before messages (store.py, submit).       *)
LEMMA SubmitOrder == Spec => [](CrossTypeOK /\ SubmitInv)
<1>1. Init => CrossTypeOK /\ SubmitInv
  BY CrossInitTypeOK, SubmitInit
<1>2. (CrossTypeOK /\ SubmitInv) /\ [Next]_vars => (CrossTypeOK /\ SubmitInv)'
  BY CrossNextTypeOK, SubmitInvStep
<1> QED BY <1>1, <1>2, PTL DEF Spec

(* So every failure has its cause in every state.                          *)
LEMMA Causes == Spec => []CausesInv
<1>1. Init => CausesInv
  BY DEF Init, WorkerInit, CausesInv
<1>2. CrossTypeOK /\ SubmitInv /\ CausesInv /\ [Next]_vars => CausesInv'
  BY CausesStep
<1> QED BY <1>1, <1>2, SubmitOrder, PTL DEF Spec

(* fail_tasks_with_failed_deps and the workers record a failure only for a *)
(* dead-lettered task or for one that depends on one, directly or not,     *)
(* whatever crashes, races or clock skew there is (store.py:373).          *)
THEOREM FailuresHaveCauses == Spec => []FailureHasCause
<1>1. CausesInv => FailureHasCause
  BY DEF CausesInv, Caused, FailureHasCause
<1> QED BY <1>1, Causes, PTL

-----------------------------------------------------------------------------
(* A result, once recorded or about to be, stays.                          *)

(* What a step of worker w may do about results: nothing is taken back,    *)
(* another worker keeps its place, and w leaves the last statement of      *)
(* mark_completed and mark_failed by writing the result.                   *)
WritesOnly(w) ==
  /\ \A t \in Task : results[t] \subseteq results'[t]
  /\ \A v \in Worker \ {w} : pc'[v] = pc[v] /\ job'[v] = job[v] /\ target'[v] = target[v]
  /\ At(w, "doneResult") => "completed" \in results'[Doing(w)]
  /\ At(w, "failResult") => "failed" \in results'[target[w]]

(* No worker takes a result back.                                          *)
LEMMA WorkWrites ==
  ASSUME TypeOK, NEW w \in Worker, Poll(w) \/ Work(w) \/ NoCallback(w) \/ ChannelLost(w)
  PROVE  WritesOnly(w)
<1>1. CASE Poll(w)
  BY <1>1 DEF TypeOK, WritesOnly, Poll, Fetch, GoTo, storeVars, At
<1>2. CASE NoCallback(w) \/ ChannelLost(w)
  BY <1>2 DEF TypeOK, WritesOnly, NoCallback, ChannelLost, Redeliver, Release, GoTo, storeVars,
     busVars, At
<1>3. CASE ProcessStep(w)
  BY <1>3 DEF TypeOK, WritesOnly, ProcessStep, SkipCompleted, Admit, Refuse, PutBack,
     Claim, LoseClaim, MarkRunning, Release, GoTo, storeVars, busVars, At
<1>4. CASE ExecuteStep(w)
  BY <1>4 DEF TypeOK, WritesOnly, ExecuteStep, Begin, HandlerSucceeds, VerifierRejects,
     HandlerRaises, FailureRoute, GoTo, storeVars, busVars, At
<1>5. CASE CompleteStep(w)
  <2>1. job[w] \in Msg /\ Doing(w) \in Task
    BY <1>5, MsgParts DEF TypeOK, CompleteStep, CompleteState, CompleteRow, CompleteResult,
       AckCompleted, At, Doing
  <2> QED BY <1>5, <2>1 DEF TypeOK, WritesOnly, CompleteStep, CompleteState, CompleteRow,
     CompleteResult, AckCompleted, GoTo, storeVars, busVars, At
<1>6. CASE RetryStep(w) \/ Requeue(w)
  BY <1>6 DEF TypeOK, WritesOnly, RetryStep, RetryState, RetryMark, RetryRow, AckRetried,
     Requeue, Release, GoTo, storeVars, busVars, At
<1>7. CASE DeadLetterStep(w)
  BY <1>7 DEF TypeOK, WritesOnly, DeadLetterStep, FailState, FailRow, FailResult, AckDead,
     GoTo, storeVars, busVars, At
<1>8. CASE DeadLetterRoute(w)
  BY <1>8 DEF TypeOK, WritesOnly, DeadLetterRoute, DeadLetter, Unroutable,
     GoTo, storeVars, busVars, At
<1> QED BY <1>1, <1>2, <1>3, <1>4, <1>5, <1>6, <1>7, <1>8 DEF Work, WorkerStep

(* A step of a worker keeps what is recorded.                              *)
LEMMA WorkerKeepsRecord ==
  ASSUME NEW w \in Worker, WritesOnly(w), UNCHANGED <<adv, victim>>,
         NEW t \in Task, NEW s, Recorded(t, s)
  PROVE  Recorded(t, s)'
<1>1. CASE s \in results[t]
  BY <1>1 DEF WritesOnly, Recorded
<1>2. CASE s = "failed" /\ adv = "failResult" /\ victim = t
  BY <1>2 DEF Recorded
<1>3. ASSUME NEW v \in Worker, s = "completed", At(v, "doneResult"), Doing(v) = t
      PROVE  Recorded(t, s)'
  <2>1. CASE v = w
    BY <1>3, <2>1 DEF WritesOnly, Recorded
  <2>2. CASE v # w
    <3>1. At(v, "doneResult")' /\ Doing(v)' = t
      BY <1>3, <2>2 DEF WritesOnly, At, Doing
    <3> QED BY <1>3, <3>1 DEF Recorded
  <2> QED BY <2>1, <2>2
<1>4. ASSUME NEW v \in Worker, s = "failed", At(v, "failResult"), target[v] = t
      PROVE  Recorded(t, s)'
  <2>1. CASE v = w
    BY <1>4, <2>1 DEF WritesOnly, Recorded
  <2>2. CASE v # w
    <3>1. At(v, "failResult")' /\ target'[v] = t
      BY <1>4, <2>2 DEF WritesOnly, At
    <3> QED BY <1>4, <3>1 DEF Recorded
  <2> QED BY <2>1, <2>2
<1> QED BY <1>1, <1>2, <1>3, <1>4 DEF Recorded

(* Until something crashes, nothing recorded is taken back.                *)
LEMMA RecordedStays ==
  ASSUME CrossTypeOK, [Next]_vars, crashes' = crashes, NEW t \in Task, NEW s, Recorded(t, s)
  PROVE  Recorded(t, s)'
<1>1. ASSUME NEW w \in Worker, Poll(w) \/ Work(w) \/ NoCallback(w) \/ ChannelLost(w)
      PROVE  Recorded(t, s)'
  <2>1. WritesOnly(w)
    BY <1>1, WorkWrites DEF CrossTypeOK
  <2>2. UNCHANGED <<adv, victim>>
    BY <1>1, OthersLeaveVerdict DEF advVars
  <2> QED BY <2>1, <2>2, WorkerKeepsRecord
<1>2. CASE UNCHANGED <<results, workVars>> /\ adv # "failResult"
  BY <1>2 DEF Recorded, workVars, At, Doing
<1>3. CASE SweepResult
  <2>1. "failed" \in results'[victim] /\ UNCHANGED workVars
    BY <1>3 DEF SweepResult, CrossTypeOK, TypeOK
  <2>2. results[t] \subseteq results'[t]
    BY <1>3 DEF SweepResult, CrossTypeOK, TypeOK
  <2> QED BY <2>1, <2>2 DEF Recorded, workVars, At, Doing
<1>4. CASE UNCHANGED vars \/ SubmitStep \/ ReadWorkflow \/ AnswerRead
  <2>1. UNCHANGED <<results, workVars, adv, victim>>
    BY <1>4 DEF SubmitStep, CreateTask, PublishRoot, AddDependency,
       ReadWorkflow, AnswerRead, vars, wvars, storeVars, advVars
  <2> QED BY <2>1 DEF Recorded, workVars, At, Doing
<1>5. CASE AdvanceStep /\ ~ SweepResult
  BY <1>2, <1>5 DEF AdvanceStep, Select, MarkDispatched, SelectStuck, SweepRow, Finalize,
     WriteVerdict, PublishReady, SweepState, wvars, storeVars
<1>6. ~ AdvancerCrash /\ \A w \in Worker : ~ WorkerCrash(w)
  BY CrossAssumption DEF CrossTypeOK, AdvancerCrash, WorkerCrash
<1> QED BY <1>1, <1>3, <1>4, <1>5, <1>6 DEF Next

(* The number of crashes only grows.                                       *)
LEMMA CrashesGrow ==
  ASSUME CrossTypeOK, [Next]_vars, crashes' = 0
  PROVE  crashes = 0
<1>1. crashes' = crashes \/ crashes' = crashes + 1
  BY DEF Next, Poll, Work, NoCallback, ChannelLost, WorkerCrash, AdvancerCrash, SubmitStep,
     CreateTask, PublishRoot, AddDependency, ReadWorkflow, AnswerRead,
     AdvanceStep, Select, MarkDispatched, SelectStuck, SweepRow, SweepResult, Finalize,
     WriteVerdict, PublishReady, SweepState, vars
<1> QED BY <1>1, CrossAssumption DEF CrossTypeOK

(* A step of worker w ends a row only on the way to the result.            *)
EndsRows(w) ==
  \A t \in Task : \A s \in {"completed", "failed"} : status'[t] = s =>
    \/ status[t] = s
    \/ s = "completed" /\ pc'[w] = "doneResult" /\ job'[w].task = t
    \/ s = "failed" /\ pc'[w] = "failResult" /\ target'[w] = t

(* A row ends only in mark_completed or mark_failed.                       *)
LEMMA WorkEndsRows ==
  ASSUME TypeOK, NEW w \in Worker, Poll(w) \/ Work(w) \/ NoCallback(w) \/ ChannelLost(w)
  PROVE  EndsRows(w)
<1>1. CASE Poll(w)
  BY <1>1 DEF EndsRows, Poll, Fetch, storeVars
<1>2. CASE NoCallback(w) \/ ChannelLost(w)
  BY <1>2 DEF EndsRows, NoCallback, ChannelLost, storeVars
<1>3. CASE ProcessStep(w)
  BY <1>3 DEF TypeOK, EndsRows, ProcessStep, SkipCompleted, Admit, Refuse, PutBack,
     Claim, LoseClaim, MarkRunning, SetRow, storeVars
<1>4. CASE ExecuteStep(w)
  BY <1>4 DEF EndsRows, ExecuteStep, Begin, HandlerSucceeds, VerifierRejects,
     HandlerRaises, storeVars
<1>5. CASE CompleteStep(w)
  BY <1>5 DEF TypeOK, EndsRows, CompleteStep, CompleteState, CompleteRow, CompleteResult,
     AckCompleted, SetRow, GoTo, storeVars, Doing
<1>6. CASE RetryStep(w) \/ Requeue(w)
  BY <1>6 DEF TypeOK, EndsRows, RetryStep, RetryState, RetryMark, RetryRow, AckRetried,
     Requeue, SetRow, storeVars
<1>7. CASE DeadLetterStep(w)
  BY <1>7 DEF TypeOK, EndsRows, DeadLetterStep, FailState, FailRow, FailResult, AckDead,
     SetRow, GoTo, storeVars
<1>8. CASE DeadLetterRoute(w)
  BY <1>8 DEF EndsRows, DeadLetterRoute, DeadLetter, Unroutable, storeVars
<1> QED BY <1>1, <1>2, <1>3, <1>4, <1>5, <1>6, <1>7, <1>8 DEF Work, WorkerStep

(* Before anything crashes, a row that has ended has its result.           *)
LEMMA ResultsFollowStep ==
  ASSUME CrossTypeOK, ResultsFollow, [Next]_vars
  PROVE  ResultsFollow'
<1> SUFFICES ASSUME crashes' = 0, NEW t \in Task, NEW s \in {"completed", "failed"},
                    status'[t] = s
             PROVE  Recorded(t, s)'
  BY DEF ResultsFollow
<1>1. crashes = 0
  BY CrashesGrow
<1>2. CASE status[t] = s
  BY <1>1, <1>2, RecordedStays DEF ResultsFollow
<1>3. ASSUME NEW w \in Worker, Poll(w) \/ Work(w) \/ NoCallback(w) \/ ChannelLost(w)
      PROVE  Recorded(t, s)'
  <2>1. EndsRows(w)
    BY <1>3, WorkEndsRows DEF CrossTypeOK
  <2> QED BY <1>2, <2>1 DEF EndsRows, Recorded, At, Doing
<1>4. CASE SweepRow
  BY <1>2, <1>4 DEF SweepRow, SetRow, CrossTypeOK, TypeOK, Recorded
<1>5. ~ AdvancerCrash /\ \A w \in Worker : ~ WorkerCrash(w)
  BY <1>1, CrossAssumption DEF CrossTypeOK, AdvancerCrash, WorkerCrash
<1>6. CASE status' = status
  BY <1>2, <1>6
<1>7. CASE AdvanceStep /\ ~ SweepRow
  <2>1. status' = status
    BY <1>7 DEF AdvanceStep, Select, MarkDispatched, SelectStuck, SweepResult, Finalize,
       WriteVerdict, PublishReady, SweepState, wvars, storeVars
  <2> QED BY <1>6, <2>1
<1>8. CASE UNCHANGED vars \/ SubmitStep \/ ReadWorkflow \/ AnswerRead
  <2>1. status' = status
    BY <1>8 DEF SubmitStep, CreateTask, PublishRoot, AddDependency,
       ReadWorkflow, AnswerRead, vars, wvars, storeVars
  <2> QED BY <1>6, <2>1
<1> QED BY <1>3, <1>4, <1>5, <1>7, <1>8 DEF Next

-----------------------------------------------------------------------------
(* Failed verdicts rest on results.                                        *)

(* What a failed verdict rests on.                                         *)
OneFailed == \E t \in Task : Recorded(t, "failed")

(* finalize_workflows calls a workflow failed once one row is.             *)
LEMMA FailedVerdictStep ==
  ASSUME CrossTypeOK, ReadInv, ResultsFollow, FailedVerdict, [Next]_vars
  PROVE  FailedVerdict'
<1> SUFFICES ASSUME crashes' = 0, verdict' = "failed" \/ (~ ReadersPoll /\ wf' = "failed")
             PROVE  OneFailed'
  BY DEF FailedVerdict, OneFailed
<1>1. crashes = 0
  BY CrashesGrow
<1>2. OneFailed => OneFailed'
  BY <1>1, RecordedStays DEF OneFailed
<1>3. verdict = "failed" \/ (~ ReadersPoll /\ wf = "failed") => OneFailed
  BY <1>1 DEF FailedVerdict, OneFailed
<1>4. CASE UNCHANGED <<verdict, wf>>
  BY <1>2, <1>3, <1>4
<1>5. CASE Finalize
  <2>1. verdict' \in {"running", Outcome} /\ UNCHANGED wf
    BY <1>5 DEF Finalize
  <2>2. CASE verdict' = "failed"
    <3>1. PICK t \in rows : status[t] = "failed"
      BY <2>1, <2>2 DEF Outcome
    <3>2. t \in Task
      BY DEF CrossTypeOK
    <3> QED BY <1>1, <1>2, <3>1, <3>2 DEF ResultsFollow, OneFailed
  <2> QED BY <1>2, <1>3, <2>1, <2>2
<1>6. CASE WriteVerdict
  BY <1>2, <1>3, <1>6 DEF WriteVerdict
<1>7. CASE ReadWorkflow \/ AnswerRead
  BY <1>2, <1>3, <1>7 DEF ReadWorkflow, AnswerRead, ReadInv, advVars
<1>8. CASE AdvanceStep /\ ~ Finalize /\ ~ WriteVerdict
  BY <1>4, <1>8 DEF AdvanceStep, Select, MarkDispatched, SelectStuck, SweepRow, SweepResult,
     PublishReady, SweepState
<1>9. CASE UNCHANGED vars \/ UNCHANGED <<advVars, view, wf>>
  BY <1>4, <1>9 DEF vars, advVars
<1>10. ~ AdvancerCrash
  BY <1>1, CrossAssumption DEF CrossTypeOK, AdvancerCrash
<1> QED BY <1>5, <1>6, <1>7, <1>8, <1>9, <1>10, OthersLeaveVerdict DEF Next

(* So it is in every state.                                                *)
LEMMA VerdictsRest == Spec => [](ResultsFollow /\ FailedVerdict)
<1>1. Init => ReadInv /\ ResultsFollow /\ FailedVerdict
  BY DEF Init, WorkerInit, ReadInv, ResultsFollow, FailedVerdict
<1>2. ReadInv /\ [Next]_vars => ReadInv'
  BY ReadStep
<1>3. CrossTypeOK /\ ReadInv /\ ResultsFollow /\ FailedVerdict /\ [Next]_vars
        => (ResultsFollow /\ FailedVerdict)'
  BY ResultsFollowStep, FailedVerdictStep
<1> QED BY <1>1, <1>2, <1>3, SubmitOrder, PTL DEF Spec

(* Until a process crashes, finalize_workflows calls a workflow failed     *)
(* only over a recorded failure (store.py:416), however many clients GET   *)
(* it, for every graph and any number of workers.                          *)
THEOREM FailedVerdictsAreFounded == Spec => []FailedVerdict
BY VerdictsRest, PTL

-----------------------------------------------------------------------------
(* Completed verdicts rest on results.                                     *)

(* The memory watches the steps and does not change them.                  *)
LEMMA HistoryStep ==
  [HistoryNext]_<<vars, history>> => [Next]_vars /\ (Remember \/ UNCHANGED <<vars, history>>)
BY DEF HistoryNext

(* So what holds of every behaviour holds of the remembered ones.          *)
LEMMA HistoryImplements == HistorySpec => Spec
<1>1. HistoryInit => Init
  BY DEF HistoryInit
<1> QED BY <1>1, HistoryStep, PTL DEF HistorySpec, Spec

(* Nothing is forgotten, and what the two counts of a completed workflow   *)
(* leave out is remembered.                                                *)
LEMMA MemoryGrows ==
  ASSUME [HistoryNext]_<<vars, history>>
  PROVE  /\ missed \subseteq missed' /\ uncounted \subseteq uncounted' /\ marred \subseteq marred'
         /\ CountsCompleted => Task \ rows \subseteq uncounted'
BY HistoryStep DEF Remember, CountsCompleted, vars, history, advVars

(* The tasks counted when a workflow is called completed have their        *)
(* results, and keep them.                                                 *)
LEMMA CountedStep ==
  ASSUME CrossTypeOK, ResultsFollow, CountedInv, [HistoryNext]_<<vars, history>>
  PROVE  CountedInv'
<1> SUFFICES ASSUME crashes' = 0, "completed" \in {verdict', view', wf'}, NEW t \in Task,
                    t \notin uncounted'
             PROVE  Recorded(t, "completed")'
  BY DEF CountedInv
<1>1. [Next]_vars
  BY HistoryStep
<1>2. crashes = 0
  BY <1>1, CrashesGrow
<1>3. Recorded(t, "completed") => Recorded(t, "completed")'
  BY <1>1, <1>2, RecordedStays
<1>4. CASE "completed" \in {verdict, view, wf}
  BY <1>2, <1>3, <1>4, MemoryGrows DEF CountedInv
<1>5. CASE CountsCompleted
  <2>1. t \in rows
    BY <1>5, MemoryGrows
  <2>2. Finalize \/ ReadWorkflow => \/ status[t] = "completed"
                                    \/ verdict' # "completed" /\ view' # "completed"
                                    \/ "completed" \in {verdict, view}
    BY <2>1 DEF Finalize, Unfinalized, Outcome, ReadWorkflow, advVars
  <2>3. Finalize \/ ReadWorkflow
    BY <1>1, <1>2, <1>5, OthersLeaveVerdict, CrossAssumption
       DEF Next, CountsCompleted, AdvanceStep, Select, MarkDispatched, SelectStuck, SweepRow,
           SweepResult, WriteVerdict, PublishReady, SweepState, AnswerRead, AdvancerCrash, vars,
           advVars, CrossTypeOK
  <2> QED BY <1>2, <1>3, <1>4, <1>5, <2>2, <2>3 DEF CountsCompleted, ResultsFollow
<1>6. wf' \in {wf, verdict, view}
  BY <1>1, OthersLeaveVerdict
     DEF Next, AdvanceStep, Select, MarkDispatched, SelectStuck, SweepRow, SweepResult, Finalize,
         WriteVerdict, PublishReady, SweepState, ReadWorkflow, AnswerRead, AdvancerCrash, vars
<1> QED BY <1>4, <1>5, <1>6 DEF CountsCompleted

(* Until a process crashes, a workflow is called completed, by             *)
(* finalize_workflows (store.py:416) or by a GET, only when every task has *)
(* its result but those whose rows were still missing, for every graph and *)
(* any number of workers and GETs.                                         *)
THEOREM CompletedVerdictsAreFounded == HistorySpec => []CompletedVerdict
<1>1. HistoryInit => CountedInv
  BY DEF HistoryInit, Init, CountedInv
<1>2. CrossTypeOK /\ ResultsFollow /\ CountedInv /\ [HistoryNext]_<<vars, history>>
        => CountedInv'
  BY CountedStep
<1>3. CountedInv => CompletedVerdict
  BY DEF CountedInv, CompletedVerdict
<1> QED BY <1>1, <1>2, <1>3, HistoryImplements, SubmitOrder, VerdictsRest, PTL DEF HistorySpec

-----------------------------------------------------------------------------
(* What is on its way may run.                                             *)

(* A step of worker w moves only deliveries that were on their way.        *)
MovesOnly(w) ==
  /\ \A m \in Msg : queue'[m] > 0 =>
       \/ queue[m] > 0
       \/ m \in unacked[w]
       \/ ~ At(w, "idle") /\ m.task = Doing(w)
  /\ \A v \in Worker : pc'[v] # "idle" =>
       \/ pc[v] # "idle" /\ job'[v] = job[v]
       \/ job'[v] \in Msg /\ queue[job'[v]] > 0
  /\ \A v \in Worker : \A m \in unacked'[v] :
       m \in unacked[v] \/ (m \in Msg /\ queue[m] > 0)

(* Retries, refusals and lost channels stay with their own task.           *)
LEMMA WorkMoves ==
  ASSUME TypeOK, NEW w \in Worker, Poll(w) \/ Work(w) \/ NoCallback(w) \/ ChannelLost(w)
  PROVE  MovesOnly(w)
<1>1. CASE Poll(w)
  BY <1>1 DEF TypeOK, MovesOnly, Poll, Fetch, GoTo, At
<1>2. CASE NoCallback(w)
  BY <1>2 DEF TypeOK, MovesOnly, NoCallback, Release, GoTo, busVars, At
<1>3. CASE ChannelLost(w)
  <2>1. \A m \in Msg : queue'[m] > 0 => queue[m] > 0 \/ m \in unacked[w]
    BY <1>3 DEF TypeOK, ChannelLost, Redeliver
  <2>2. \A v \in Worker : pc'[v] # "idle" => pc[v] # "idle" /\ job'[v] = job[v]
    BY <1>3 DEF TypeOK, ChannelLost, Redeliver, Release, GoTo
  <2>3. \A v \in Worker : unacked'[v] \subseteq unacked[v]
    BY <1>3 DEF TypeOK, ChannelLost, Redeliver
  <2> QED BY <2>1, <2>2, <2>3 DEF MovesOnly
<1>4. CASE ProcessStep(w) /\ ~ PutBack(w)
  BY <1>4 DEF TypeOK, MovesOnly, ProcessStep, SkipCompleted, Admit, Refuse,
     Claim, LoseClaim, MarkRunning, Ack, Release, GoTo, busVars, At
<1>5. CASE PutBack(w)
  BY <1>5 DEF TypeOK, MovesOnly, PutBack, Enqueue, Release, GoTo, At, Doing
<1>6. CASE ExecuteStep(w)
  BY <1>6 DEF TypeOK, MovesOnly, ExecuteStep, Begin, HandlerSucceeds, VerifierRejects,
     HandlerRaises, FailureRoute, GoTo, busVars, At
<1>7. CASE CompleteStep(w)
  BY <1>7 DEF TypeOK, MovesOnly, CompleteStep, CompleteState, CompleteRow, CompleteResult,
     AckCompleted, Ack, GoTo, busVars, At
<1>8. CASE RetryStep(w)
  BY <1>8 DEF TypeOK, MovesOnly, RetryStep, RetryState, RetryMark, RetryRow, AckRetried,
     Ack, Release, GoTo, busVars, At
<1>9. CASE Requeue(w)
  <2>1. \A m \in Msg : queue'[m] > 0 => queue[m] > 0 \/ m.task = Doing(w)
    BY <1>9 DEF TypeOK, Requeue, Enqueue
  <2> QED BY <1>9, <2>1 DEF TypeOK, MovesOnly, Requeue, GoTo, At
<1>10. CASE DeadLetterStep(w)
  BY <1>10 DEF TypeOK, MovesOnly, DeadLetterStep, FailState, FailRow, FailResult, AckDead,
     Ack, GoTo, busVars, At
<1>11. CASE DeadLetterRoute(w)
  BY <1>11 DEF TypeOK, MovesOnly, DeadLetterRoute, DeadLetter, Unroutable, GoTo, busVars, At
<1> QED BY <1>1, <1>2, <1>3, <1>4, <1>5, <1>6, <1>7, <1>8, <1>9, <1>10, <1>11
        DEF Work, WorkerStep

(* The parts of DeliveryInv.                                               *)
BatchRan == \A m \in batch : DepsRan(m.task)
QueueRan == \A m \in Msg : queue[m] > 0 => DepsRan(m.task)
HeldRan == \A w \in Worker : ~ At(w, "idle") => DepsRan(Doing(w))
UnackedRan == \A w \in Worker : \A m \in unacked[w] : DepsRan(m.task)

(* A task whose dependencies have run stays so.                            *)
LEMMA DepsRanStays ==
  ASSUME CrossTypeOK, [Next]_vars, missed \subseteq missed', crashes' = crashes,
         NEW t \in Task, DepsRan(t)
  PROVE  DepsRan(t)'
BY RecordedStays, GraphAssumption DEF DepsRan

(* The steps of workers and the broker move only what may run.             *)
LEMMA WorkDelivers ==
  ASSUME CrossTypeOK, DeliveryInv, [Next]_vars, missed \subseteq missed', crashes = 0,
         crashes' = crashes, NEW w \in Worker, Poll(w) \/ Work(w) \/ NoCallback(w) \/ ChannelLost(w)
  PROVE  DeliveryInv'
<1>1. MovesOnly(w) /\ TypeOK /\ TypeOK'
  BY WorkMoves, CrossNextTypeOK DEF CrossTypeOK
<1>2. \A t \in Task : DepsRan(t) => DepsRan(t)'
  BY DepsRanStays
<1>3. \A m \in Msg : m.task \in Task /\ (DepsRan(m.task) => DepsRan(m.task)')
  <2> SUFFICES ASSUME NEW m \in Msg PROVE m.task \in Task /\ (DepsRan(m.task) => DepsRan(m.task)')
    OBVIOUS
  <2>1. m.task \in Task
    BY MsgParts
  <2> QED BY <1>2, <2>1 DEF DepsRan
<1>4. \A v \in Worker : unacked[v] \subseteq Msg /\ unacked'[v] \subseteq Msg
         /\ (~ At(v, "idle") => job[v] \in Msg)
  BY <1>1 DEF TypeOK, At
<1>5. BatchRan'
  <2>1. batch' = batch /\ batch \subseteq Msg
    BY OthersLeaveVerdict DEF advVars, CrossTypeOK
  <2> QED BY <1>3, <2>1 DEF DeliveryInv, BatchRan
<1>6. QueueRan'
  <2> SUFFICES ASSUME NEW m \in Msg, queue'[m] > 0 PROVE DepsRan(m.task)
    BY <1>3 DEF QueueRan
  <2> QED BY <1>1 DEF MovesOnly, DeliveryInv, Doing
<1>7. HeldRan'
  <2> SUFFICES ASSUME NEW v \in Worker, pc'[v] # "idle" PROVE DepsRan(job[v].task)'
    BY DEF HeldRan, At, Doing
  <2>1. job'[v] \in Msg /\ DepsRan(job'[v].task)
    BY <1>1, <1>4 DEF MovesOnly, DeliveryInv, Doing, At
  <2>2. job'[v].task \in Task
    BY <2>1, MsgParts
  <2> QED BY <1>2, <2>1, <2>2 DEF DepsRan
<1>8. UnackedRan'
  <2> SUFFICES ASSUME NEW v \in Worker, NEW m \in unacked'[v] PROVE DepsRan(m.task)'
    BY DEF UnackedRan
  <2>1. m \in Msg
    BY <1>4
  <2>2. DepsRan(m.task)
    BY <1>1 DEF MovesOnly, DeliveryInv
  <2> QED BY <1>3, <2>1, <2>2
<1> QED BY <1>5, <1>6, <1>7, <1>8 DEF DeliveryInv, BatchRan, QueueRan, HeldRan, UnackedRan

(* A step that publishes only what may run, for a dispatcher that selects  *)
(* only what may run.                                                      *)
LEMMA DispatchDelivers ==
  ASSUME CrossTypeOK, DeliveryInv, [Next]_vars, missed \subseteq missed', crashes = 0,
         crashes' = crashes, UNCHANGED <<workVars, unacked>>,
         \A m \in batch' : m \in Msg /\ (DepsRan(m.task) \/ DepsRan(m.task)'),
         \A m \in Msg : queue'[m] > 0 => queue[m] > 0 \/ DepsRan(m.task)
  PROVE  DeliveryInv'
<1>1. \A t \in Task : DepsRan(t) => DepsRan(t)'
  BY DepsRanStays
<1>2. \A m \in Msg : m.task \in Task /\ (DepsRan(m.task) => DepsRan(m.task)')
  <2> SUFFICES ASSUME NEW m \in Msg PROVE m.task \in Task /\ (DepsRan(m.task) => DepsRan(m.task)')
    OBVIOUS
  <2>1. m.task \in Task
    BY MsgParts
  <2> QED BY <1>1, <2>1 DEF DepsRan
<1>3. BatchRan'
  BY <1>2 DEF BatchRan, DepsRan
<1>4. QueueRan'
  BY <1>2 DEF QueueRan, DeliveryInv
<1>5. HeldRan'
  <2> SUFFICES ASSUME NEW v \in Worker, pc[v] # "idle" PROVE DepsRan(job[v].task)'
    BY DEF HeldRan, At, Doing, workVars
  <2>1. job[v] \in Msg /\ job'[v] = job[v]
    BY DEF CrossTypeOK, TypeOK, workVars
  <2>2. DepsRan(job[v].task)
    BY DEF DeliveryInv, At, Doing
  <2>3. job[v].task \in Task
    BY <2>1, MsgParts
  <2> QED BY <1>1, <2>1, <2>2, <2>3 DEF DepsRan
<1>6. UnackedRan'
  <2> SUFFICES ASSUME NEW v \in Worker, NEW m \in unacked[v] PROVE DepsRan(m.task)'
    BY DEF UnackedRan
  <2>1. m \in Msg
    BY DEF CrossTypeOK, TypeOK
  <2> QED BY <1>2, <2>1 DEF DeliveryInv
<1> QED BY <1>3, <1>4, <1>5, <1>6 DEF DeliveryInv, BatchRan, QueueRan, HeldRan, UnackedRan

(* The advancer adds only tasks whose dependencies have completed, or were *)
(* not written yet.                                                        *)
LEMMA DeliveryStep ==
  ASSUME CrossTypeOK, SubmitInv, ResultsFollow, DeliveryInv, [HistoryNext]_<<vars, history>>
  PROVE  DeliveryInv'
<1> SUFFICES ASSUME crashes' = 0 PROVE DeliveryInv'
  BY DEF DeliveryInv
<1>0. [Next]_vars /\ crashes = 0 /\ crashes' = crashes /\ missed \subseteq missed'
  BY HistoryStep, CrashesGrow, MemoryGrows
<1>1. ASSUME NEW w \in Worker, Poll(w) \/ Work(w) \/ NoCallback(w) \/ ChannelLost(w)
      PROVE  DeliveryInv'
  BY <1>0, <1>1, WorkDelivers
<1>2. \A m \in batch : m \in Msg /\ DepsRan(m.task)
  BY <1>0 DEF CrossTypeOK, DeliveryInv
<1>3. CASE UNCHANGED <<workVars, unacked, batch, queue>>
  BY <1>0, <1>2, <1>3, DispatchDelivers
<1>4. CASE \E t \in Task : PublishRoot(t)
  <2> PICK t \in Task : PublishRoot(t)
    BY <1>4
  <2>1. DepsRan(t)
    BY DEF PublishRoot, SubmitInv, Roots, DepsRan
  <2>2. \A m \in Msg : queue'[m] > 0 => queue[m] > 0 \/ m.task = t
    BY DEF PublishRoot, Enqueue, CrossTypeOK, TypeOK
  <2>3. UNCHANGED <<workVars, unacked, batch>>
    BY DEF PublishRoot, advVars
  <2> QED BY <1>0, <1>2, <2>1, <2>2, <2>3, DispatchDelivers
<1>5. CASE Select
  <2>1. \A t \in Dispatchable : t \in Task /\ \A d \in Deps[t] :
           d \in Unwritten(t) \/ Recorded(d, "completed")
    <3> SUFFICES ASSUME NEW t \in Dispatchable, NEW d \in Deps[t], Edge(t, d)
                 PROVE  Recorded(d, "completed")
      BY DEF Dispatchable, Unwritten, CrossTypeOK
    <3>1. t \in Task /\ d \in Task
      BY GraphAssumption DEF Dispatchable, CrossTypeOK
    <3>2. d \in rows
      BY <3>1 DEF SubmitInv
    <3>3. status[d] = "completed"
      BY <3>2 DEF Dispatchable
    <3> QED BY <1>0, <3>1, <3>3 DEF ResultsFollow
  <2>2. UNCHANGED <<workVars, unacked, queue, results, victim>>
        /\ adv = "select" /\ adv' = "publish"
    BY <1>5 DEF Select, wvars, storeVars, busVars
  <2>3. Remember
    <3>1. adv' # adv
      BY <2>2
    <3> QED BY <3>1, HistoryStep DEF vars, advVars
  <2>4. ASSUME NEW m \in batch'
        PROVE  m \in Msg /\ (DepsRan(m.task) \/ DepsRan(m.task)')
    <3>1. PICK t \in Dispatchable : m = [task |-> t, attempt |-> attempt[t]]
      BY <1>5, <2>4 DEF Select
    <3>2. m \in Msg /\ m.task = t /\ t \in Task
      BY <2>1, <3>1 DEF Msg, CrossTypeOK, TypeOK
    <3>3. CASE m \in batch
      BY <1>2, <3>3
    <3>4. CASE m \notin batch
      <4>1. {t} \X Unwritten(t) \subseteq missed'
        BY <2>3, <2>4, <3>2, <3>4 DEF Remember
      <4>2. \A d \in Deps[t] : <<t, d>> \in missed' \/ Recorded(d, "completed")
        BY <2>1, <4>1
      <4>3. \A d \in Deps[t] : d \in Task
        BY <3>2, GraphAssumption
      <4>4. \A d \in Deps[t] : <<t, d>> \in missed' \/ Recorded(d, "completed")'
        BY <1>0, <4>2, <4>3, RecordedStays
      <4> QED BY <3>2, <4>4 DEF DepsRan
    <3> QED BY <3>2, <3>3, <3>4
  <2> QED BY <1>0, <2>2, <2>4, DispatchDelivers
<1>6. CASE \E m \in Msg : PublishReady(m)
  <2> PICK n \in Msg : PublishReady(n)
    BY <1>6
  <2>1. batch' \subseteq batch /\ DepsRan(n.task)
    BY <1>2 DEF PublishReady
  <2>2. \A m \in Msg : queue'[m] > 0 => queue[m] > 0 \/ m = n
    BY DEF PublishReady, Enqueue, CrossTypeOK, TypeOK
  <2>3. UNCHANGED <<workVars, unacked>>
    BY DEF PublishReady
  <2> QED BY <1>0, <1>2, <2>1, <2>2, <2>3, DispatchDelivers
<1>7. CASE AdvanceStep /\ ~ Select /\ ~ \E m \in Msg : PublishReady(m)
  BY <1>3, <1>7 DEF AdvanceStep, MarkDispatched, SelectStuck, SweepRow, SweepResult, Finalize,
     WriteVerdict, SweepState, wvars, busVars
<1>8. CASE SubmitStep /\ ~ \E t \in Task : PublishRoot(t)
  BY <1>3, <1>8 DEF SubmitStep, CreateTask, AddDependency, wvars, busVars, advVars
<1>9. CASE UNCHANGED vars \/ ReadWorkflow \/ AnswerRead
  BY <1>3, <1>9 DEF ReadWorkflow, AnswerRead, vars, wvars, busVars, advVars
<1>10. ~ AdvancerCrash /\ \A w \in Worker : ~ WorkerCrash(w)
  BY <1>0, CrossAssumption DEF CrossTypeOK, AdvancerCrash, WorkerCrash
<1> QED BY <1>0, <1>1, <1>4, <1>5, <1>6, <1>7, <1>8, <1>9, <1>10 DEF Next

(* Until a process crashes, a handler runs only after each dependency of   *)
(* its task that task_dependencies named when the advancer took the task   *)
(* has produced its result (dag.py:12, store.py:360), across processes:    *)
(* whatever channels are lost and messages duplicated, however submissions *)
(* race with the advancer, for every graph and any number of workers.      *)
THEOREM DependenciesHaveRun == HistorySpec => []DependenciesRan
<1>1. HistoryInit => DeliveryInv
  BY DEF HistoryInit, Init, WorkerInit, DeliveryInv, At
<1>2. CrossTypeOK /\ SubmitInv /\ ResultsFollow /\ DeliveryInv /\ [HistoryNext]_<<vars, history>>
        => DeliveryInv'
  BY DeliveryStep
<1>3. DeliveryInv => DependenciesRan
  BY DEF DeliveryInv, DepsRan, DependenciesRan, Runs, At
<1> QED BY <1>1, <1>2, <1>3, HistoryImplements, SubmitOrder, VerdictsRest, PTL DEF HistorySpec

-----------------------------------------------------------------------------
(* A dependent task has one token.                                         *)

(* Labels at which a worker has settled its message or holds none.         *)
Settled == {"idle", "refused", "onDone", "onFail"}

(* A step that leaves the queues alone and gives no worker a message.      *)
NoNewCarrier ==
  /\ queue' = queue
  /\ \A v \in Worker : pc'[v] \notin {"idle", "retryAck"} =>
       pc[v] \notin {"idle", "retryAck"} /\ job'[v] = job[v]

(* A step by which w gives its message back to the bus, or does not.       *)
GivesBack(w) ==
  /\ pc[w] \notin {"idle", "retryAck"} /\ pc'[w] \in {"idle", "retryAck"}
  /\ \A v \in Worker \ {w} : pc'[v] = pc[v] /\ job'[v] = job[v]
  /\ \E n \in Msg : n.task = Doing(w) /\ \A m \in Msg :
        queue'[m] = queue[m] \/ (m = n /\ queue'[m] = queue[m] + 1)

(* w writes the row and the state of the task it carries, and the state    *)
(* never back to created.                                                  *)
OwnStates(w) ==
  \A t \in Task : /\ es'[t] = es[t] \/ (es'[t] # "created" /\ Carries(w, t))
                  /\ status'[t] = status[t] \/ Carries(w, t)

(* A carrier keeps its message, or gives it back and lets go.              *)
LEMMA WorkCarries ==
  ASSUME TypeOK, OwnDelivery, NEW w \in Worker, Work(w) \/ NoCallback(w) \/ ChannelLost(w)
  PROVE  NoNewCarrier \/ GivesBack(w)
<1>0. pc[w] # "idle" => job[w] \in Msg
  BY DEF TypeOK
<1>1. CASE NoCallback(w)
  BY <1>1 DEF TypeOK, NoNewCarrier, NoCallback, Release, GoTo, busVars, At
<1>2. CASE ChannelLost(w)
  <2>1. pc[w] \in {"requeue", "check"} /\ job[w] \in Msg
    BY <1>0, <1>2 DEF ChannelLost, At
  <2>2. unacked[w] \subseteq {job[w]}
    BY <2>1 DEF OwnDelivery
  <2>3. \A m \in Msg : queue'[m] = queue[m] \/ (m = job[w] /\ queue'[m] = queue[m] + 1)
    BY <1>2, <2>2 DEF TypeOK, ChannelLost, Redeliver
  <2>4. pc'[w] = "idle" /\ \A v \in Worker \ {w} : pc'[v] = pc[v] /\ job'[v] = job[v]
    BY <1>2 DEF TypeOK, ChannelLost, Redeliver, Release, GoTo
  <2> QED BY <2>1, <2>3, <2>4 DEF GivesBack, Doing
<1>3. CASE ProcessStep(w) /\ ~ PutBack(w)
  BY <1>3 DEF TypeOK, NoNewCarrier, ProcessStep, SkipCompleted, Admit, Refuse,
     Claim, LoseClaim, MarkRunning, Ack, Release, GoTo, busVars, At
<1>4. CASE PutBack(w)
  BY <1>0, <1>4 DEF TypeOK, GivesBack, PutBack, Enqueue, Release, GoTo, At, Doing
<1>5. CASE ExecuteStep(w)
  BY <1>5 DEF TypeOK, NoNewCarrier, ExecuteStep, Begin, HandlerSucceeds, VerifierRejects,
     HandlerRaises, FailureRoute, GoTo, busVars, At
<1>6. CASE CompleteStep(w)
  BY <1>6 DEF TypeOK, NoNewCarrier, CompleteStep, CompleteState, CompleteRow, CompleteResult,
     AckCompleted, Ack, GoTo, busVars, At
<1>7. CASE RetryStep(w)
  BY <1>7 DEF TypeOK, NoNewCarrier, RetryStep, RetryState, RetryMark, RetryRow, AckRetried,
     Ack, Release, GoTo, busVars, At
<1>8. CASE Requeue(w)
  <2>1. job[w] \in Msg /\ job[w].attempt < MaxAttempts
    BY <1>0, <1>8 DEF TypeOK, Requeue, At, Retrying
  <2>2. Doing(w) \in Task /\ job[w].attempt + 1 \in 1..MaxAttempts
    BY <2>1, MsgParts, WorkerAssumption DEF Doing
  <2> DEFINE n == [task |-> Doing(w), attempt |-> job[w].attempt + 1]
  <2>3. n \in Msg /\ n.task = Doing(w)
    BY <2>2 DEF Msg
  <2>4. \A m \in Msg : queue'[m] = queue[m] \/ (m = n /\ queue'[m] = queue[m] + 1)
    BY <1>8 DEF TypeOK, Requeue, Enqueue
  <2>5. /\ pc[w] = "requeue" /\ pc'[w] = "retryAck"
        /\ \A v \in Worker \ {w} : pc'[v] = pc[v] /\ job'[v] = job[v]
    BY <1>8 DEF TypeOK, Requeue, GoTo, At
  <2> HIDE DEF n
  <2> QED BY <2>3, <2>4, <2>5 DEF GivesBack
<1>9. CASE DeadLetterStep(w)
  BY <1>9 DEF TypeOK, NoNewCarrier, DeadLetterStep, FailState, FailRow, FailResult, AckDead,
     Ack, GoTo, busVars, At
<1>10. CASE DeadLetterRoute(w)
  BY <1>10 DEF TypeOK, NoNewCarrier, DeadLetterRoute, DeadLetter, Unroutable, GoTo, busVars, At
<1> QED BY <1>1, <1>2, <1>3, <1>4, <1>5, <1>6, <1>7, <1>8, <1>9, <1>10 DEF Work, WorkerStep

(* mark_started, mark_retried and the others are about one task.           *)
LEMMA WorkOwnStates ==
  ASSUME TypeOK, OwnDelivery, NEW w \in Worker,
         Poll(w) \/ Work(w) \/ NoCallback(w) \/ ChannelLost(w)
  PROVE  OwnStates(w)
<1>1. CASE Poll(w) \/ NoCallback(w) \/ ChannelLost(w)
  BY <1>1 DEF OwnStates, Carries, Doing, Poll, Fetch, NoCallback, ChannelLost, storeVars
<1>2. CASE ProcessStep(w)
  BY <1>2 DEF TypeOK, OwnStates, Carries, Doing, ProcessStep, SkipCompleted, Admit, Refuse, PutBack,
     Claim, LoseClaim, MarkRunning, SetState, SetRow, storeVars, At
<1>3. CASE ExecuteStep(w)
  BY <1>3 DEF TypeOK, OwnStates, Carries, Doing, ExecuteStep, Begin, HandlerSucceeds,
     VerifierRejects, HandlerRaises, SetState, SetRow, storeVars, At
<1>4. CASE CompleteStep(w)
  BY <1>4 DEF TypeOK, OwnStates, Carries, Doing, CompleteStep, CompleteState, CompleteRow,
     CompleteResult, AckCompleted, SetState, SetRow, storeVars, At
<1>5. CASE RetryStep(w) \/ Requeue(w)
  BY <1>5 DEF TypeOK, OwnStates, Carries, Doing, RetryStep, RetryState, RetryMark, RetryRow,
     AckRetried, Requeue, SetState, SetRow, storeVars, At
<1>6. CASE DeadLetterStep(w)
  BY <1>6 DEF TypeOK, OwnDelivery, OwnStates, Carries, Doing, DeadLetterStep, FailState, FailRow,
     FailResult, AckDead, SetState, SetRow, storeVars, At
<1>7. CASE DeadLetterRoute(w)
  BY <1>7 DEF OwnStates, Carries, Doing, DeadLetterRoute, DeadLetter, Unroutable, storeVars
<1> QED BY <1>1, <1>2, <1>3, <1>4, <1>5, <1>6, <1>7 DEF Work, WorkerStep

(* Every path through a worker settles the message it fetched.             *)
LEMMA OwnDeliveryStep ==
  ASSUME CrossTypeOK, OwnDelivery, [Next]_vars
  PROVE  OwnDelivery'
<1>0. TypeOK
  BY DEF CrossTypeOK
<1>1. CASE UNCHANGED <<workVars, unacked>>
  BY <1>1 DEF OwnDelivery, workVars, Doing
<1>2. ASSUME NEW w \in Worker, Poll(w)
      PROVE  OwnDelivery'
  BY <1>0, <1>2 DEF TypeOK, OwnDelivery, Poll, Fetch, GoTo, At, Doing
<1>3. ASSUME NEW w \in Worker, NoCallback(w) \/ ChannelLost(w) \/ WorkerCrash(w)
      PROVE  OwnDelivery'
  BY <1>0, <1>3 DEF TypeOK, OwnDelivery, NoCallback, ChannelLost, WorkerCrash, Redeliver, Release,
     GoTo, busVars, At, Doing
<1>4. ASSUME NEW w \in Worker, Work(w)
      PROVE  OwnDelivery'
  <2>1. CASE ProcessStep(w)
    BY <1>0, <2>1 DEF TypeOK, OwnDelivery, ProcessStep, SkipCompleted, Admit, Refuse, PutBack,
       Claim, LoseClaim, MarkRunning, Ack, Release, GoTo, busVars, At, Doing
  <2>2. CASE ExecuteStep(w)
    BY <1>0, <2>2 DEF TypeOK, OwnDelivery, ExecuteStep, Begin, HandlerSucceeds, VerifierRejects,
       HandlerRaises, FailureRoute, GoTo, busVars, At, Doing
  <2>3. CASE CompleteStep(w)
    <3>1. CASE AckCompleted(w)
      BY <1>0, <3>1 DEF TypeOK, OwnDelivery, AckCompleted, Ack, GoTo, At, Doing
    <3>2. CASE CompleteState(w) \/ CompleteRow(w) \/ CompleteResult(w)
      BY <1>0, <3>2 DEF TypeOK, OwnDelivery, CompleteState, CompleteRow, CompleteResult, GoTo,
         busVars, At, Doing
    <3> QED BY <2>3, <3>1, <3>2 DEF CompleteStep
  <2>4. CASE RetryStep(w) \/ Requeue(w)
    BY <1>0, <2>4 DEF TypeOK, OwnDelivery, RetryStep, RetryState, RetryMark, RetryRow, AckRetried,
       Requeue, Ack, Release, GoTo, busVars, At, Doing
  <2>5. CASE DeadLetterStep(w)
    BY <1>0, <2>5 DEF TypeOK, OwnDelivery, DeadLetterStep, FailState, FailRow, FailResult,
       AckDead, Ack, GoTo, busVars, At, Doing
  <2>6. CASE DeadLetterRoute(w)
    <3>1. CASE DeadLetter(w)
      BY <1>0, <3>1 DEF TypeOK, OwnDelivery, DeadLetter, GoTo, At, Doing
    <3>2. CASE Unroutable(w)
      BY <1>0, <3>2 DEF TypeOK, OwnDelivery, Unroutable, GoTo, busVars, At, Doing
    <3> QED BY <2>6, <3>1, <3>2 DEF DeadLetterRoute
  <2>7. \/ ProcessStep(w) \/ ExecuteStep(w) \/ CompleteStep(w) \/ RetryStep(w) \/ Requeue(w)
        \/ DeadLetterStep(w) \/ DeadLetterRoute(w)
    BY <1>4 DEF Work, WorkerStep
  <2> QED BY <2>1, <2>2, <2>3, <2>4, <2>5, <2>6, <2>7
<1>5. CASE SubmitStep \/ ReadWorkflow \/ AnswerRead \/ AdvancerCrash \/ UNCHANGED vars
  BY <1>1, <1>5 DEF SubmitStep, CreateTask, PublishRoot, AddDependency,
     ReadWorkflow, AnswerRead, AdvancerCrash, vars, wvars, busVars
<1>6. CASE AdvanceStep
  BY <1>1, <1>6 DEF AdvanceStep, Select, MarkDispatched, SelectStuck, SweepRow, SweepResult,
     Finalize, WriteVerdict, PublishReady, SweepState, wvars, busVars
<1> QED BY <1>2, <1>3, <1>4, <1>5, <1>6 DEF Next

(* The parts of OneToken.                                                  *)
OneCopy ==
  \A m, n \in Msg : m.task = n.task /\ Dependent(m.task) /\ queue[m] > 0 =>
    queue[m] = 1 /\ (queue[n] > 0 => m = n)
CopyOrCarrier ==
  \A m \in Msg, w \in Worker : Dependent(m.task) /\ queue[m] > 0 => ~ Carries(w, m.task)
OneCarrier ==
  \A t \in Task, v, w \in Worker : Dependent(t) /\ Carries(v, t) /\ Carries(w, t) => v = w

(* They are the whole of it,                                               *)
LEMMA OneTokenParts == OneToken <=> OneCopy /\ CopyOrCarrier /\ OneCarrier
BY DEF OneToken, OneCopy, CopyOrCarrier, OneCarrier

(* and in the next state.                                                  *)
LEMMA OneTokenPartsNext == OneToken' <=> OneCopy' /\ CopyOrCarrier' /\ OneCarrier'
BY DEF OneToken, OneCopy, CopyOrCarrier, OneCarrier

(* A step without new messages or carriers keeps the tokens.               *)
LEMMA KeepTokens ==
  ASSUME OneToken, NoNewCarrier
  PROVE  OneToken'
<1>1. \A v \in Worker : \A t : Carries(v, t)' => Carries(v, t)
  BY DEF NoNewCarrier, Carries, Doing
<1>2. OneCopy'
  BY OneTokenParts DEF OneCopy, NoNewCarrier, Dependent
<1>3. CopyOrCarrier'
  BY <1>1, OneTokenParts DEF CopyOrCarrier, NoNewCarrier, Dependent
<1>4. OneCarrier'
  BY <1>1, OneTokenParts DEF OneCarrier, Dependent
<1> QED BY <1>2, <1>3, <1>4, OneTokenPartsNext

(* A message may join the bus when its task has no token, or none but the  *)
(* carrier that gives it back.                                             *)
LEMMA JoinTokens ==
  ASSUME TypeOK, OneToken, NEW n \in Msg,
         \A m \in Msg : queue'[m] = queue[m] \/ (m = n /\ queue'[m] = queue[m] + 1),
         \A v \in Worker : \A t : Carries(v, t)' => Carries(v, t),
         Dependent(n.task) =>
           /\ \A m \in Msg : m.task = n.task => queue[m] = 0
           /\ \A v \in Worker : ~ Carries(v, n.task)'
  PROVE  OneToken'
<1>0. queue \in [Msg -> Nat]
  BY DEF TypeOK
<1>1. OneCopy'
  <2> SUFFICES ASSUME NEW k \in Msg, NEW m \in Msg, k.task = m.task, Dependent(k.task),
                      queue'[k] > 0
               PROVE  queue'[k] = 1 /\ (queue'[m] > 0 => k = m)
    BY DEF OneCopy, Dependent
  <2>1. CASE k.task = n.task
    <3>1. queue[k] = 0 /\ queue[m] = 0
      BY <2>1
    <3>2. k = n /\ queue'[k] = 1
      BY <3>1
    <3>3. queue'[m] > 0 => m = n
      BY <3>1
    <3> QED BY <3>2, <3>3
  <2>2. CASE k.task # n.task
    <3>1. queue'[k] = queue[k] /\ queue'[m] = queue[m]
      BY <2>2
    <3> QED BY <3>1, OneTokenParts DEF OneCopy
  <2> QED BY <2>1, <2>2
<1>2. CopyOrCarrier'
  <2> SUFFICES ASSUME NEW m \in Msg, NEW v \in Worker, Dependent(m.task), queue'[m] > 0,
                      Carries(v, m.task)'
               PROVE  FALSE
    BY DEF CopyOrCarrier, Dependent, Carries, Doing
  <2>1. m.task # n.task
    BY DEF Carries, Doing
  <2>2. queue'[m] = queue[m]
    BY <2>1
  <2>3. Carries(v, m.task)
    BY DEF Carries, Doing
  <2> QED BY <2>2, <2>3, OneTokenParts DEF CopyOrCarrier
<1>3. OneCarrier'
  BY OneTokenParts DEF OneCarrier, Dependent
<1> QED BY <1>1, <1>2, <1>3, OneTokenPartsNext

(* Giving the message back makes room for it.                              *)
LEMMA GiveBackTokens ==
  ASSUME TypeOK, OneToken, NEW w \in Worker, GivesBack(w)
  PROVE  OneToken'
<1>1. PICK n \in Msg : n.task = Doing(w) /\ \A m \in Msg :
         queue'[m] = queue[m] \/ (m = n /\ queue'[m] = queue[m] + 1)
  BY DEF GivesBack
<1>2. Carries(w, n.task)
  BY <1>1 DEF GivesBack, Carries
<1>3. \A v \in Worker : \A t : Carries(v, t)' => v # w /\ Carries(v, t)
  BY DEF GivesBack, Carries, Doing
<1>4. ASSUME Dependent(n.task)
      PROVE  /\ \A m \in Msg : m.task = n.task => queue[m] = 0
             /\ \A v \in Worker : ~ Carries(v, n.task)'
  <2>1. \A m \in Msg : m.task = n.task => ~ (queue[m] > 0)
    BY <1>2, <1>4, OneTokenParts DEF CopyOrCarrier
  <2>2. \A v \in Worker : Carries(v, n.task) => v = w
    BY <1>2, <1>4, MsgParts, OneTokenParts DEF OneCarrier
  <2>3. \A v \in Worker : ~ Carries(v, n.task)'
    <3> SUFFICES ASSUME NEW v \in Worker, Carries(v, n.task)' PROVE FALSE
      OBVIOUS
    <3>1. v # w /\ Carries(v, n.task)
      BY <1>3 DEF Carries, Doing
    <3> QED BY <2>2, <3>1
  <2> QED BY <2>1, <2>3 DEF TypeOK
<1> QED BY <1>1, <1>3, <1>4, JoinTokens

(* Fetching turns the only copy of a message into its carrier.             *)
LEMMA FetchTokens ==
  ASSUME TypeOK, OneToken, NEW w \in Worker, NEW n \in Msg, Fetch(w, n)
  PROVE  OneToken'
<1>0. /\ queue \in [Msg -> Nat] /\ queue[n] > 0
      /\ queue' = [queue EXCEPT ![n] = @ - 1]
  BY DEF TypeOK, Fetch
<1>1. pc[w] = "idle" /\ pc'[w] = "check" /\ job'[w] = n
      /\ \A v \in Worker \ {w} : pc'[v] = pc[v] /\ job'[v] = job[v]
  BY DEF TypeOK, Fetch, GoTo, At
<1>2. \A m \in Msg : queue'[m] > 0 => queue[m] > 0 /\ (m # n => queue'[m] = queue[m])
         /\ (m = n => queue[n] > 1)
  BY <1>0
<1>3. \A v \in Worker : \A t : Carries(v, t)' => Carries(v, t) \/ (v = w /\ t = n.task)
  BY <1>1 DEF Carries, Doing
<1>4. ASSUME Dependent(n.task)
      PROVE  /\ \A m \in Msg : m.task = n.task => ~ (queue'[m] > 0)
             /\ \A v \in Worker : ~ Carries(v, n.task)
  <2>1. queue[n] = 1 /\ \A m \in Msg : m.task = n.task /\ queue[m] > 0 => m = n
    BY <1>0, <1>4, OneTokenParts DEF OneCopy
  <2>2. \A v \in Worker : ~ Carries(v, n.task)
    BY <1>0, <1>4, OneTokenParts DEF CopyOrCarrier
  <2> QED BY <1>2, <2>1, <2>2
<1>5. OneCopy'
  <2> SUFFICES ASSUME NEW k \in Msg, NEW m \in Msg, k.task = m.task, Dependent(k.task),
                      queue'[k] > 0
               PROVE  queue'[k] = 1 /\ (queue'[m] > 0 => k = m)
    BY DEF OneCopy, Dependent
  <2>1. k.task # n.task
    BY <1>4
  <2>2. queue'[k] = queue[k] /\ (queue'[m] > 0 => queue[m] > 0)
    BY <1>2, <2>1
  <2> QED BY <2>2, OneTokenParts DEF OneCopy
<1>6. CopyOrCarrier'
  <2> SUFFICES ASSUME NEW m \in Msg, NEW v \in Worker, Dependent(m.task), queue'[m] > 0,
                      Carries(v, m.task)'
               PROVE  FALSE
    BY DEF CopyOrCarrier, Dependent, Carries, Doing
  <2>1. m.task # n.task /\ queue[m] > 0
    BY <1>2, <1>4
  <2>2. Carries(v, m.task)
    BY <1>3, <2>1 DEF Carries, Doing
  <2> QED BY <2>1, <2>2, OneTokenParts DEF CopyOrCarrier
<1>7. OneCarrier'
  <2> SUFFICES ASSUME NEW t \in Task, NEW u \in Worker, NEW v \in Worker, Dependent(t),
                      Carries(u, t)', Carries(v, t)'
               PROVE  u = v
    BY DEF OneCarrier, Dependent, Carries, Doing
  <2>1. Carries(u, t) \/ (u = w /\ t = n.task)
    BY <1>3 DEF Carries, Doing
  <2>2. Carries(v, t) \/ (v = w /\ t = n.task)
    BY <1>3 DEF Carries, Doing
  <2> QED BY <1>4, <2>1, <2>2, OneTokenParts DEF OneCarrier
<1> QED BY <1>5, <1>6, <1>7, OneTokenPartsNext

-----------------------------------------------------------------------------
(* Only published tasks have one.                                          *)

(* A worker writes states of published dependent tasks only.               *)
LEMMA WorkPublished ==
  ASSUME CrossTypeOK, OnlyPublished, OwnDelivery, NEW w \in Worker,
         Poll(w) \/ Work(w) \/ NoCallback(w) \/ ChannelLost(w)
  PROVE  OnlyPublished'
<1>0. TypeOK /\ UNCHANGED <<adv, batch, victim>>
  BY OthersLeaveVerdict DEF CrossTypeOK, advVars
<1>1. OwnStates(w)
  BY <1>0, WorkOwnStates
<1>2. \A t \in Task : Published(t) => Published(t)'
  BY <1>0, <1>1 DEF OwnStates, Published
<1>3. \A t \in Task : Dependent(t) /\ ~ Published(t) => ~ Published(t)'
  BY <1>0, <1>1 DEF OwnStates, Carries, Published, OnlyPublished, At
<1>4. \A v \in Worker : pc[v] # "idle" => job[v] \in Msg /\ Doing(v) \in Task
  BY <1>0, MsgParts DEF TypeOK, Doing
<1>5. \A v \in Worker : unacked[v] \subseteq IF At(v, "idle") THEN {} ELSE {job[v]}
  BY DEF OwnDelivery, At
<1>6. MovesOnly(w)
  BY <1>0, WorkMoves
<1>7. ASSUME NEW m \in Msg, Dependent(m.task), queue'[m] > 0
      PROVE  Published(m.task)'
  <2>1. queue[m] > 0 \/ (~ At(w, "idle") /\ m.task = Doing(w))
    BY <1>5, <1>6, <1>7 DEF MovesOnly, Doing
  <2>2. Published(m.task) /\ m.task \in Task
    BY <1>7, <2>1, MsgParts DEF OnlyPublished
  <2> QED BY <1>2, <2>2 DEF Published
<1>8. ASSUME NEW v \in Worker, pc'[v] # "idle", Dependent(Doing(v))'
      PROVE  Published(Doing(v))'
  <2>1. (pc[v] # "idle" /\ job'[v] = job[v]) \/ (job'[v] \in Msg /\ queue[job'[v]] > 0)
    BY <1>6, <1>8 DEF MovesOnly
  <2>2. PICK t \in Task : t = job'[v].task /\ Published(t)
    BY <1>4, <1>8, <2>1, MsgParts DEF OnlyPublished, At, Doing, Dependent
  <2>3. Published(t)'
    BY <1>2, <2>2
  <2> QED BY <2>2, <2>3 DEF Published, Doing
<1>9. ASSUME NEW m \in batch, Dependent(m.task)
      PROVE  ~ Published(m.task)'
  <2>1. m.task \in Task
    BY MsgParts DEF CrossTypeOK
  <2> QED BY <1>3, <1>9, <2>1 DEF OnlyPublished, Published
<1>10. \A m \in Msg : Dependent(m.task)' /\ queue'[m] > 0 => Published(m.task)'
  BY <1>7 DEF Dependent
<1>11. \A v \in Worker : ~ At(v, "idle")' /\ Dependent(Doing(v))' => Published(Doing(v))'
  BY <1>8 DEF At
<1>12. \A m \in batch : Dependent(m.task)' => ~ Published(m.task)'
  BY <1>9 DEF Dependent
<1> QED BY <1>0, <1>10, <1>11, <1>12 DEF OnlyPublished

(* What publishing leaves alone.                                           *)
LEMMA PublishedKept ==
  ASSUME OnlyPublished, UNCHANGED <<workVars, batch>>,
         \A t : Published(t) => Published(t)',
         \A m \in batch : Dependent(m.task) => ~ Published(m.task)',
         batch # {} => adv' \in {"publish", "mark"},
         \A m \in Msg : queue'[m] > 0 => queue[m] > 0 \/ ~ Dependent(m.task)
  PROVE  OnlyPublished'
<1>1. \A m \in Msg : Dependent(m.task) /\ queue'[m] > 0 => Published(m.task)'
  <2> SUFFICES ASSUME NEW m \in Msg, Dependent(m.task), queue'[m] > 0 PROVE Published(m.task)'
    OBVIOUS
  <2>1. Published(m.task)
    BY DEF OnlyPublished
  <2> QED BY <2>1 DEF Published
<1>2. \A v \in Worker : ~ At(v, "idle")' /\ Dependent(Doing(v))' => Published(Doing(v))'
  <2> SUFFICES ASSUME NEW v \in Worker, ~ At(v, "idle"), Dependent(Doing(v))
               PROVE  Published(Doing(v))'
    BY DEF At, Doing, workVars, Dependent
  <2>1. Published(Doing(v))
    BY DEF OnlyPublished
  <2> QED BY <2>1 DEF Published, Doing, workVars
<1> QED BY <1>1, <1>2 DEF OnlyPublished, Dependent, Published

(* The tokens outlive every step of a worker.                              *)
LEMMA WorkerTokens ==
  ASSUME CrossTypeOK, TokenInv, [Next]_vars, crashes' = 0,
         NEW w \in Worker, Poll(w) \/ Work(w) \/ NoCallback(w) \/ ChannelLost(w)
  PROVE  TokenInv'
<1>0. TypeOK /\ OneToken /\ OnlyPublished /\ OwnDelivery
  BY DEF CrossTypeOK, TokenInv
<1>1. OneToken'
  <2>1. CASE Poll(w)
    BY <1>0, <2>1, FetchTokens DEF Poll
  <2>2. CASE Work(w) \/ NoCallback(w) \/ ChannelLost(w)
    BY <1>0, <2>2, WorkCarries, KeepTokens, GiveBackTokens
  <2> QED BY <2>1, <2>2
<1>2. OnlyPublished'
  BY <1>0, WorkPublished
<1>3. OwnDelivery'
  BY <1>0, OwnDeliveryStep
<1> QED BY <1>1, <1>2, <1>3 DEF TokenInv

(* The advancer publishes a dependent task once.                           *)
LEMMA AdvancerTokens ==
  ASSUME CrossTypeOK, TokenInv, [Next]_vars, crashes' = 0, AdvanceStep
  PROVE  TokenInv'
<1>0. TypeOK /\ OneToken /\ OnlyPublished /\ OwnDelivery
  BY DEF CrossTypeOK, TokenInv
<1>1. OwnDelivery'
  BY <1>0, OwnDeliveryStep
<1>2. UNCHANGED <<pc, job, unacked>>
  BY DEF AdvanceStep, Select, MarkDispatched, SelectStuck, SweepRow, SweepResult,
     Finalize, WriteVerdict, PublishReady, SweepState, wvars, busVars, workVars
<1>3. \A v \in Worker : \A t : Carries(v, t)' <=> Carries(v, t)
  BY <1>2 DEF Carries, Doing
<1>4. queue' = queue => OneToken'
  BY <1>0, <1>2, KeepTokens DEF NoNewCarrier
<1>5. ASSUME NEW n \in Msg, PublishReady(n)
      PROVE  OneToken' /\ OnlyPublished'
  <2>1. /\ adv = "publish" /\ n \in batch /\ batch' = batch \ {n}
        /\ queue' = [queue EXCEPT ![n] = @ + 1]
        /\ victim' = n.task /\ adv' = "mark" /\ es' = es
    BY <1>5 DEF PublishReady, Enqueue, storeVars
  <2>2. \A m \in Msg : queue'[m] = queue[m] \/ (m = n /\ queue'[m] = queue[m] + 1)
    BY <1>0, <2>1 DEF TypeOK
  <2>3. Dependent(n.task) => ~ Published(n.task)
    BY <1>0, <2>1 DEF OnlyPublished
  <2>4. ASSUME Dependent(n.task)
        PROVE  /\ \A m \in Msg : m.task = n.task => queue[m] = 0
               /\ \A v \in Worker : ~ Carries(v, n.task)
    <3>1. \A m \in Msg : m.task = n.task => ~ (queue[m] > 0)
      BY <1>0, <2>3, <2>4 DEF OnlyPublished
    <3>2. \A v \in Worker : ~ Carries(v, n.task)
      BY <1>0, <2>3, <2>4 DEF OnlyPublished, Carries, At
    <3> QED BY <1>0, <3>1, <3>2 DEF TypeOK
  <2>5. \A v \in Worker : Dependent(n.task) => ~ Carries(v, n.task)'
    BY <1>2, <2>4 DEF Carries, Doing
  <2>6. OneToken'
    BY <1>0, <1>3, <2>2, <2>4, <2>5, JoinTokens
  <2>7. \A t : Published(t)' <=> Published(t) \/ t = n.task
    BY <2>1 DEF Published
  <2>8. \A m \in Msg : Dependent(m.task)' /\ queue'[m] > 0 => Published(m.task)'
    <3> SUFFICES ASSUME NEW m \in Msg, Dependent(m.task), queue'[m] > 0 PROVE Published(m.task)'
      BY DEF Dependent
    <3>1. Published(m.task) \/ m.task = n.task
      BY <1>0, <2>2 DEF OnlyPublished
    <3> QED BY <2>1, <3>1 DEF Published
  <2>9. \A v \in Worker : ~ At(v, "idle")' /\ Dependent(Doing(v))' => Published(Doing(v))'
    BY <1>0, <1>2, <2>1 DEF OnlyPublished, At, Doing, Dependent, Published
  <2>10. \A m \in batch' : Dependent(m.task)' => ~ Published(m.task)'
    <3> SUFFICES ASSUME NEW m \in batch, m # n, Dependent(m.task) PROVE ~ Published(m.task)'
      BY <2>1 DEF Dependent
    <3>1. m.task # n.task /\ ~ Published(m.task)
      BY <1>0, <2>1 DEF OnlyPublished
    <3> QED BY <2>1, <3>1 DEF Published
  <2>11. OnlyPublished'
    BY <1>0, <2>1, <2>8, <2>9, <2>10 DEF OnlyPublished
  <2> QED BY <2>6, <2>11
<1>6. CASE Select
  <2>1. /\ adv = "select" /\ adv' = "publish" /\ UNCHANGED <<es, queue, pc, job>>
        /\ batch' = {[task |-> t, attempt |-> attempt[t]] : t \in Dispatchable}
    BY <1>6 DEF Select, wvars, storeVars, busVars, workVars
  <2>2. \A t : Published(t)' <=> Published(t)
    BY <2>1 DEF Published
  <2>3. \A m \in batch' : es[m.task] = "created"
    BY <2>1 DEF Dispatchable
  <2>4. \A m, n \in batch' : m.task = n.task => m = n
    BY <2>1
  <2>5. \A m \in Msg : Dependent(m.task)' /\ queue'[m] > 0 => Published(m.task)'
    BY <1>0, <2>1, <2>2 DEF OnlyPublished, Dependent, Published
  <2>6. \A v \in Worker : ~ At(v, "idle")' /\ Dependent(Doing(v))' => Published(Doing(v))'
    BY <1>0, <2>1 DEF OnlyPublished, At, Doing, Dependent, Published
  <2>7. \A m \in batch' : Dependent(m.task)' => ~ Published(m.task)'
    BY <2>1, <2>3 DEF Published
  <2> QED BY <1>1, <1>4, <2>1, <2>4, <2>5, <2>6, <2>7 DEF OnlyPublished, TokenInv
<1>7. CASE MarkDispatched
  <2>1. /\ adv = "mark" /\ adv' = "publish" /\ UNCHANGED <<queue, workVars, batch>>
        /\ victim \in Task /\ es' = [es EXCEPT ![victim] = "queued"] /\ victim' = NoTask
    BY <1>7 DEF MarkDispatched, SetState, busVars, CrossTypeOK
  <2>2. \A t \in Task : Published(t)' <=> Published(t)
    BY <1>0, <2>1 DEF Published, TypeOK
  <2>3. \A m \in Msg : m.task \in Task
    BY MsgParts
  <2>4. \A m \in Msg : Dependent(m.task)' /\ queue'[m] > 0 => Published(m.task)'
    <3> SUFFICES ASSUME NEW m \in Msg, Dependent(m.task), queue[m] > 0 PROVE Published(m.task)'
      BY <2>1 DEF Dependent
    <3>1. PICK t \in Task : t = m.task /\ Published(t)
      BY <1>0, <2>3 DEF OnlyPublished
    <3> QED BY <2>2, <3>1 DEF Published
  <2>5. \A v \in Worker : ~ At(v, "idle")' /\ Dependent(Doing(v))' => Published(Doing(v))'
    <3> SUFFICES ASSUME NEW v \in Worker, pc[v] # "idle", Dependent(Doing(v))
                 PROVE  Published(Doing(v))'
      BY <1>2 DEF At, Doing, Dependent
    <3>1. job[v] \in Msg
      BY <1>0 DEF TypeOK
    <3>2. PICK t \in Task : t = Doing(v) /\ Published(t)
      BY <1>0, <2>3, <3>1 DEF OnlyPublished, Doing, At
    <3> QED BY <1>2, <2>2, <3>2 DEF Published, Doing
  <2>6. \A m \in batch' : Dependent(m.task)' => ~ Published(m.task)'
    <3> SUFFICES ASSUME NEW m \in batch, Dependent(m.task) PROVE ~ Published(m.task)'
      BY <2>1 DEF Dependent
    <3>1. PICK t \in Task : t = m.task /\ ~ Published(t)
      BY <1>0, <2>3 DEF OnlyPublished, CrossTypeOK
    <3> QED BY <2>2, <3>1 DEF Published
  <2> QED BY <1>0, <1>1, <1>4, <2>1, <2>4, <2>5, <2>6 DEF OnlyPublished, TokenInv
<1>8. CASE AdvanceStep /\ ~ Select /\ ~ MarkDispatched /\ ~ (\E m \in Msg : PublishReady(m))
  <2>1. batch = {} /\ batch' = {} /\ queue' = queue /\ adv # "mark"
    BY <1>0, <1>8 DEF OnlyPublished, AdvanceStep, SelectStuck, SweepRow, SweepResult,
       Finalize, WriteVerdict, SweepState, wvars, busVars
  <2>2. \A t \in Task : es[t] # "created" => es'[t] # "created"
    BY <1>0, <1>8 DEF AdvanceStep, SelectStuck, SweepRow, SweepResult, Finalize, WriteVerdict,
       SweepState, SetState, wvars, storeVars, TypeOK
  <2>3. \A t \in Task : Published(t) => Published(t)'
    BY <2>1, <2>2 DEF Published
  <2>4. \A m \in Msg : Dependent(m.task)' /\ queue'[m] > 0 => Published(m.task)'
    <3> SUFFICES ASSUME NEW m \in Msg, Dependent(m.task), queue[m] > 0 PROVE Published(m.task)'
      BY <2>1 DEF Dependent
    <3>1. PICK t \in Task : t = m.task /\ Published(t)
      BY <1>0, MsgParts DEF OnlyPublished
    <3> QED BY <2>3, <3>1 DEF Published
  <2>5. \A v \in Worker : ~ At(v, "idle")' /\ Dependent(Doing(v))' => Published(Doing(v))'
    <3> SUFFICES ASSUME NEW v \in Worker, pc[v] # "idle", Dependent(Doing(v))
                 PROVE  Published(Doing(v))'
      BY <1>2 DEF At, Doing, Dependent
    <3>1. job[v] \in Msg
      BY <1>0 DEF TypeOK
    <3>2. PICK t \in Task : t = Doing(v) /\ Published(t)
      BY <1>0, MsgParts, <3>1 DEF OnlyPublished, Doing, At
    <3> QED BY <1>2, <2>3, <3>2 DEF Published, Doing
  <2>6. OnlyPublished'
    BY <2>1, <2>4, <2>5 DEF OnlyPublished
  <2> QED BY <1>1, <1>4, <2>1, <2>6 DEF TokenInv
<1> QED BY <1>1, <1>5, <1>6, <1>7, <1>8 DEF TokenInv

(* Submission and reads add no token of a dependent task.                  *)
LEMMA TokenStep ==
  ASSUME CrossTypeOK, SubmitInv, TokenInv, [Next]_vars, crashes' = 0
  PROVE  TokenInv'
<1>0. TypeOK /\ OneToken /\ OnlyPublished /\ OwnDelivery /\ crashes = 0
  BY CrashesGrow DEF CrossTypeOK, TokenInv
<1>1. OwnDelivery'
  BY <1>0, OwnDeliveryStep
<1>2. CASE UNCHANGED <<es, queue, workVars, adv, batch, victim>>
  <2>1. OneToken'
    BY <1>0, <1>2, KeepTokens DEF NoNewCarrier, workVars
  <2>2. OnlyPublished'
    BY <1>0, <1>2, PublishedKept DEF Published, OnlyPublished
  <2> QED BY <1>1, <2>1, <2>2 DEF TokenInv
<1>3. CASE \E t \in Task : PublishRoot(t)
  <2> PICK t \in Task : PublishRoot(t)
    BY <1>3
  <2> DEFINE n == [task |-> t, attempt |-> attempt[t]]
  <2>1. n \in Msg /\ n.task = t /\ ~ Dependent(t)
    BY <1>0 DEF Msg, TypeOK, PublishRoot, SubmitInv, Roots, Dependent
  <2>2. UNCHANGED <<es, workVars, adv, batch, victim>> /\ queue' = [queue EXCEPT ![n] = @ + 1]
    BY DEF PublishRoot, Enqueue, storeVars, advVars
  <2> HIDE DEF n
  <2>3. \A m \in Msg : queue'[m] = queue[m] \/ (m = n /\ queue'[m] = queue[m] + 1)
    BY <1>0, <2>2 DEF TypeOK
  <2>4. \A v \in Worker : \A u : Carries(v, u)' => Carries(v, u)
    BY <2>2 DEF Carries, Doing, workVars
  <2>5. OneToken'
    BY <1>0, <2>1, <2>3, <2>4, JoinTokens
  <2>6. OnlyPublished'
    BY <1>0, <2>1, <2>2, <2>3, PublishedKept DEF Published, OnlyPublished
  <2> QED BY <1>1, <2>5, <2>6 DEF TokenInv
<1>4. CASE SubmitStep /\ ~ \E t \in Task : PublishRoot(t)
  BY <1>2, <1>4 DEF SubmitStep, CreateTask, AddDependency, wvars, storeVars,
     busVars, advVars
<1>5. CASE UNCHANGED vars \/ ReadWorkflow \/ AnswerRead
  BY <1>2, <1>5 DEF ReadWorkflow, AnswerRead, vars, wvars, storeVars, busVars, advVars
<1>6. ~ AdvancerCrash /\ \A w \in Worker : ~ WorkerCrash(w)
  BY <1>0, CrossAssumption DEF CrossTypeOK, AdvancerCrash, WorkerCrash
<1> QED BY <1>3, <1>4, <1>5, <1>6, WorkerTokens, AdvancerTokens DEF Next

(* So while no process crashes a dependent task has one token.             *)
LEMMA Tokens ==
  ASSUME MaxCrashes = 0
  PROVE  Spec => []TokenInv
<1>1. Init => TokenInv
  BY DEF Init, WorkerInit, TokenInv, OneToken, OnlyPublished, OwnDelivery, Carries, At
<1>2. CrossTypeOK' => crashes' = 0
  BY DEF CrossTypeOK
<1>3. CrossTypeOK /\ SubmitInv /\ TokenInv /\ [Next]_vars => TokenInv'
  BY <1>2, CrossNextTypeOK, TokenStep
<1> QED BY <1>1, <1>3, SubmitOrder, PTL DEF Spec

(* A task with dependencies runs its handler in at most one worker at a    *)
(* time (worker.py:161), whatever channels are lost, breakers refuse or    *)
(* clocks are skewed, for every graph and any number of workers: the       *)
(* advancer marks what it publishes, and from then on one message or one   *)
(* worker carries the task, as long as no process crashes.                 *)
THEOREM DependentTasksRunAlone ==
  ASSUME MaxCrashes = 0
  PROVE  Spec => []DependentRunsAlone
<1>1. TokenInv => DependentRunsAlone
  BY DEF TokenInv, OneToken, Dependent, Carries, DependentRunsAlone, Runs, At
<1> QED BY <1>1, Tokens, PTL

-----------------------------------------------------------------------------
(* A published task is underway until it ends.                             *)

(* The labels Tracked speaks about.                                        *)
Claims == {"claimed", "begin", "run", "done", "retry", "dead", "failState"}
Opens == {"claimed", "begin", "run", "done", "retry", "retryMark", "retryRow"}
Endings == {"doneResult", "doneAck", "onDone", "failResult", "deadAck", "onFail"}

Has(w, t, labels) == pc[w] \in labels /\ Doing(w) = t

(* What Tracked says when w is the one worker that may own t.              *)
TrackedBy(w, t) ==
  /\ Published(t) =>
       \/ Terminal(t) \/ Carries(w, t)
       \/ \E m \in Msg : m.task = t /\ queue[m] > 0
       \/ adv = "failRow" /\ victim = t
  /\ es[t] = "completed" => Terminal(t) \/ Has(w, t, {"doneRow"})
  /\ es[t] = "running" => Has(w, t, Claims)
  /\ Has(w, t, Opens) => es[t] # "completed"
  /\ Has(w, t, Endings) => Terminal(t)

(* Every label Tracked speaks about is one of an owner,                    *)
LEMMA PhaseOwned ==
  ASSUME NEW w \in Worker, NEW t, NEW L \in {Claims, Opens, Endings, {"doneRow"}}, Has(w, t, L)
  PROVE  Owns(w, t)
BY DEF Has, Owns, Claims, Opens, Endings

(* so is the next one,                                                     *)
LEMMA PhaseOwnedNext ==
  ASSUME NEW w \in Worker, NEW t, NEW L \in {Claims, Opens, Endings, {"doneRow"}}, Has(w, t, L)'
  PROVE  Owns(w, t)'
BY DEF Has, Owns, Claims, Opens, Endings

(* and the only owner is the one Tracked is about.                         *)
LEMMA TrackedByOne ==
  ASSUME NEW t, NEW w \in Worker, \A v \in Worker : Owns(v, t) => v = w, Carries(w, t),
         Tracked(t)
  PROVE  TrackedBy(w, t)
<1>1. \A L \in {Claims, Opens, Endings, {"doneRow"}} : InPhase(t, L) <=> Has(w, t, L)
  BY PhaseOwned DEF InPhase, Has
<1>2. /\ InPhase(t, Claims) <=> Has(w, t, Claims)
      /\ InPhase(t, Opens) <=> Has(w, t, Opens)
      /\ InPhase(t, Endings) <=> Has(w, t, Endings)
      /\ InPhase(t, {"doneRow"}) <=> Has(w, t, {"doneRow"})
  BY <1>1
<1>3. /\ es[t] = "completed" => Terminal(t) \/ InPhase(t, {"doneRow"})
      /\ es[t] = "running" => InPhase(t, Claims)
      /\ InPhase(t, Opens) => es[t] # "completed"
      /\ InPhase(t, Endings) => Terminal(t)
  BY DEF Tracked, Claims, Opens, Endings
<1> QED BY <1>2, <1>3 DEF TrackedBy

(* The other way round in the next state.                                  *)
LEMMA TrackedByOneNext ==
  ASSUME NEW t, NEW w \in Worker, \A v \in Worker : Owns(v, t)' => v = w, TrackedBy(w, t)'
  PROVE  Tracked(t)'
<1>1. \A L \in {Claims, Opens, Endings, {"doneRow"}} : InPhase(t, L)' <=> Has(w, t, L)'
  BY PhaseOwnedNext DEF InPhase, Has
<1>2. /\ InPhase(t, Claims)' <=> Has(w, t, Claims)'
      /\ InPhase(t, Opens)' <=> Has(w, t, Opens)'
      /\ InPhase(t, Endings)' <=> Has(w, t, Endings)'
      /\ InPhase(t, {"doneRow"})' <=> Has(w, t, {"doneRow"})'
  BY <1>1
<1>3. /\ Published(t)' => Terminal(t)' \/ Underway(t)'
      /\ es'[t] = "completed" => Terminal(t)' \/ InPhase(t, {"doneRow"})'
      /\ es'[t] = "running" => InPhase(t, Claims)'
      /\ InPhase(t, Opens)' => es'[t] # "completed"
      /\ InPhase(t, Endings)' => Terminal(t)'
  BY <1>2 DEF TrackedBy, Underway
<1> QED BY <1>3 DEF Tracked, Claims, Opens, Endings

(* A step that leaves the records of t and its owner alone.                *)
LEMMA AsideKeeps ==
  ASSUME NEW t, Tracked(t), es'[t] = es[t], status'[t] = status[t],
         Published(t)' => Published(t),
         Underway(t) => Terminal(t) \/ Underway(t)',
         \A v \in Worker, L \in {Claims, Opens, Endings, {"doneRow"}} :
            Has(v, t, L)' <=> Has(v, t, L)
  PROVE  Tracked(t)'
<1>1. \A L \in {Claims, Opens, Endings, {"doneRow"}} : InPhase(t, L)' <=> InPhase(t, L)
  BY DEF InPhase, Has
<1>2. Terminal(t)' <=> Terminal(t)
  BY DEF Terminal
<1>3. /\ InPhase(t, Claims)' <=> InPhase(t, Claims)
      /\ InPhase(t, Opens)' <=> InPhase(t, Opens)
      /\ InPhase(t, Endings)' <=> InPhase(t, Endings)
      /\ InPhase(t, {"doneRow"})' <=> InPhase(t, {"doneRow"})
  BY <1>1
<1> QED BY <1>2, <1>3 DEF Tracked, Claims, Opens, Endings

(* The owner of t moves it on, or puts it back.                            *)
LEMMA OwnerKeeps ==
  ASSUME TypeOK, OwnDelivery, NEW t \in Task, NEW w \in Worker, DlqBound \/ ~ Unroutable(w),
         Owns(w, t), TrackedBy(w, t),
         Work(w) \/ NoCallback(w) \/ ChannelLost(w)
  PROVE  TrackedBy(w, t)'
<1>0. /\ job[w] \in Msg /\ Doing(w) = t /\ job[w].task = t /\ pc[w] \in WorkerPC
      /\ pc[w] \notin {"idle", "check", "refused", "claim", "retryAck"}
  BY DEF TypeOK, Owns, Doing
<1> USE DEF TrackedBy, Has, Carries, Published, Terminal, Claims, Opens, Endings
<1>1. ~ SkipCompleted(w) /\ ~ Admit(w) /\ ~ Refuse(w)
  BY <1>0 DEF SkipCompleted, Admit, Refuse, At
<1>2. ~ PutBack(w) /\ ~ Claim(w) /\ ~ LoseClaim(w)
  BY <1>0 DEF PutBack, Claim, LoseClaim, At
<1>6. CASE MarkRunning(w)
  BY <1>0, <1>6 DEF TypeOK, MarkRunning, SetRow, GoTo, At, Doing
<1>7. CASE ExecuteStep(w)
  <2>1. CASE Begin(w) \/ HandlerSucceeds(w)
    BY <1>0, <2>1 DEF TypeOK, Begin, HandlerSucceeds, SetState, GoTo, At, Doing
  <2>2. CASE VerifierRejects(w) \/ HandlerRaises(w)
    <3>1. pc[w] = "run" /\ pc'[w] \in {"retry", "dead"} /\ UNCHANGED <<status, job>>
      BY <2>2 DEF TypeOK, VerifierRejects, HandlerRaises, FailureRoute, GoTo, storeVars, At
    <3>2. es'[t] \in {es[t], "running"}
      BY <1>0, <2>2 DEF TypeOK, VerifierRejects, HandlerRaises, SetState, storeVars
    <3> QED BY <1>0, <3>1, <3>2 DEF Doing
  <2> QED BY <1>7, <2>1, <2>2 DEF ExecuteStep
<1>8. CASE CompleteState(w) \/ CompleteRow(w)
  BY <1>0, <1>8 DEF TypeOK, CompleteState, CompleteRow, SetState, SetRow, GoTo, At, Doing
<1>9. CASE CompleteResult(w) \/ AckCompleted(w)
  BY <1>0, <1>9 DEF TypeOK, CompleteResult, AckCompleted, GoTo, storeVars, At, Doing
<1>10. CASE RetryState(w) \/ RetryMark(w)
  BY <1>0, <1>10 DEF TypeOK, RetryState, RetryMark, SetState, GoTo, At, Doing
<1>11. CASE RetryRow(w)
  BY <1>0, <1>11 DEF TypeOK, RetryRow, SetRow, GoTo, At, Doing
<1>12. CASE Requeue(w)
  <2> DEFINE n == [task |-> Doing(w), attempt |-> job[w].attempt + 1]
  <2>1. n \in Msg /\ n.task = t
    BY <1>0, <1>12, MsgParts, WorkerAssumption DEF TypeOK, Requeue, At, Retrying, Msg
  <2>2. queue'[n] > 0
    BY <1>12, <2>1 DEF TypeOK, Requeue, Enqueue
  <2>3. pc'[w] = "retryAck" /\ UNCHANGED <<es, status, job>> /\ pc[w] = "requeue"
    BY <1>12 DEF TypeOK, Requeue, GoTo, storeVars, At
  <2> HIDE DEF n
  <2> QED BY <1>0, <2>1, <2>2, <2>3 DEF Doing
<1>13. ~ AckRetried(w)
  BY <1>0 DEF AckRetried, At
<1>14. CASE DeadLetter(w)
  BY <1>0, <1>14 DEF TypeOK, DeadLetter, GoTo, storeVars, At, Doing
<1>15. CASE FailState(w) \/ FailRow(w)
  <2>1. target[w] = t
    BY <1>0, <1>15 DEF OwnDelivery, FailState, FailRow, At
  <2> QED BY <1>0, <1>15, <2>1 DEF TypeOK, FailState, FailRow, SetState, SetRow, GoTo, At, Doing
<1>16. CASE FailResult(w)
  <2>1. target[w] = t
    BY <1>0, <1>16 DEF OwnDelivery, FailResult, At
  <2> QED BY <1>0, <1>16, <2>1 DEF TypeOK, FailResult, GoTo, At, Doing
<1>17. CASE AckDead(w)
  BY <1>0, <1>17 DEF TypeOK, AckDead, GoTo, storeVars, At, Doing
<1>18. CASE NoCallback(w)
  BY <1>0, <1>18 DEF TypeOK, NoCallback, Release, GoTo, storeVars, At, Doing
<1>19. CASE ChannelLost(w)
  <2>1. pc[w] \in {"requeue", "check"} /\ job[w] \in unacked[w]
    BY <1>0, <1>19 DEF ChannelLost, At, OwnDelivery
  <2>2. queue'[job[w]] > 0
    BY <1>0, <1>19, <2>1 DEF TypeOK, ChannelLost, Redeliver
  <2>3. pc'[w] = "idle" /\ UNCHANGED <<es, status>>
    BY <1>19 DEF TypeOK, ChannelLost, Redeliver, Release, GoTo, storeVars
  <2> QED BY <1>0, <2>1, <2>2, <2>3
<1>20. DeadLetterRoute(w) => DeadLetter(w)
  BY DEF DeadLetterRoute
<1> QED BY <1>1, <1>2, <1>6, <1>7, <1>8, <1>9, <1>10, <1>11, <1>12, <1>13, <1>14,
           <1>15, <1>16, <1>17, <1>18, <1>19, <1>20
        DEF Work, WorkerStep, ProcessStep, CompleteStep, RetryStep, DeadLetterStep

(* The other tasks do not notice.                                          *)
LEMMA OtherTasksKept ==
  ASSUME TypeOK, OwnDelivery, NEW t \in Task, Tracked(t), NEW w \in Worker, ~ Carries(w, t),
         Work(w) \/ NoCallback(w) \/ ChannelLost(w), UNCHANGED <<adv, victim>>
  PROVE  Tracked(t)'
<1>1. OwnStates(w) /\ WritesOnly(w) /\ (NoNewCarrier \/ GivesBack(w))
  BY WorkOwnStates, WorkWrites, WorkCarries
<1>2. es'[t] = es[t] /\ status'[t] = status[t]
  BY <1>1 DEF OwnStates
<1>3. \A m \in Msg : queue[m] > 0 => queue'[m] > 0
  BY <1>1 DEF NoNewCarrier, GivesBack, TypeOK
<1>4. \A v \in Worker \ {w} : pc'[v] = pc[v] /\ job'[v] = job[v]
  BY <1>1 DEF WritesOnly
<1>5. ~ Carries(w, t)'
  BY <1>1 DEF NoNewCarrier, GivesBack, Carries, Doing
<1>6. ASSUME NEW v \in Worker, NEW L \in {Claims, Opens, Endings, {"doneRow"}}
      PROVE  Has(v, t, L)' <=> Has(v, t, L)
  <2>1. "idle" \notin L /\ "retryAck" \notin L
    BY <1>6 DEF Claims, Opens, Endings
  <2>2. CASE v = w
    BY <1>5, <2>1, <2>2 DEF Has, Carries
  <2>3. CASE v # w
    BY <1>4, <2>3 DEF Has, Doing
  <2> QED BY <2>2, <2>3
<1>7. Underway(t) => Underway(t)'
  <2>1. \A v \in Worker : Carries(v, t) => Carries(v, t)'
    BY <1>4 DEF Carries, Doing
  <2> QED BY <1>3, <2>1 DEF Underway
<1>8. Published(t)' => Published(t)
  BY <1>2 DEF Published
<1> QED BY <1>2, <1>6, <1>7, <1>8, AsideKeeps

(* A fetched message is underway in its worker.                            *)
LEMMA FetchKeeps ==
  ASSUME TypeOK, NEW t \in Task, Tracked(t), NEW w \in Worker, NEW n \in Msg, Fetch(w, n),
         UNCHANGED <<adv, victim>>
  PROVE  Tracked(t)'
<1>1. /\ pc[w] = "idle" /\ pc'[w] = "check" /\ job'[w] = n
      /\ \A v \in Worker \ {w} : pc'[v] = pc[v] /\ job'[v] = job[v]
      /\ \A m \in Msg : m # n => queue'[m] = queue[m]
      /\ es' = es /\ status' = status
  BY DEF TypeOK, Fetch, GoTo, At, storeVars
<1>2. ASSUME NEW v \in Worker, NEW L \in {Claims, Opens, Endings, {"doneRow"}}
      PROVE  Has(v, t, L)' <=> Has(v, t, L)
  <2>1. "idle" \notin L /\ "check" \notin L
    BY <1>2 DEF Claims, Opens, Endings
  <2> QED BY <1>1, <2>1 DEF Has, Doing
<1>3. Underway(t) => Underway(t)'
  <2>1. n.task = t => Carries(w, t)'
    BY <1>1 DEF Carries, Doing
  <2>2. \A v \in Worker : Carries(v, t) => Carries(v, t)'
    BY <1>1 DEF Carries, Doing
  <2> QED BY <1>1, <2>1, <2>2 DEF Underway
<1>4. Published(t)' => Published(t)
  BY <1>1 DEF Published
<1> QED BY <1>1, <1>2, <1>3, <1>4, AsideKeeps

(* The step of the only owner.                                             *)
LEMMA OwnedKept ==
  ASSUME TypeOK, OwnDelivery, NEW t \in Task, Tracked(t), SingleOwner(t),
         NEW w \in Worker, DlqBound \/ ~ Unroutable(w), Owns(w, t),
         Work(w) \/ NoCallback(w) \/ ChannelLost(w)
  PROVE  Tracked(t)'
<1>1. Carries(w, t) /\ \A v \in Worker : Owns(v, t) => v = w
  BY DEF SingleOwner, Owns, Carries
<1>2. \A v \in Worker \ {w} : pc'[v] = pc[v] /\ job'[v] = job[v]
  BY WorkWrites DEF WritesOnly
<1>3. \A v \in Worker : Owns(v, t)' => v = w
  BY <1>1, <1>2 DEF Owns, Doing
<1>4. TrackedBy(w, t)'
  BY <1>1, TrackedByOne, OwnerKeeps
<1> QED BY <1>3, <1>4, TrackedByOneNext

(* A worker that wins the claim becomes the only owner.                    *)
LEMMA ClaimKept ==
  ASSUME TypeOK, NEW t \in Task, NEW w \in Worker, Carries(w, t), Claim(w), SingleOwner(t)'
  PROVE  Tracked(t)'
<1>1. /\ pc'[w] = "claimed" /\ job' = job /\ Doing(w) = t /\ es'[t] = "running"
      /\ \A v \in Worker \ {w} : pc'[v] = pc[v]
  BY DEF TypeOK, Carries, Claim, SetState, GoTo
<1>2. Owns(w, t)' /\ Carries(w, t)'
  BY <1>1 DEF Owns, Carries, Doing
<1>3. \A v \in Worker : Owns(v, t)' => v = w
  BY <1>2 DEF SingleOwner, Owns, Doing
<1>4. TrackedBy(w, t)'
  BY <1>1, <1>2 DEF TrackedBy, Has, Claims, Opens, Endings, Doing
<1> QED BY <1>3, <1>4, TrackedByOneNext

(* A worker that has not won the claim lets go only of a task that another *)
(* one owns, that has ended, or that it puts back.                         *)
LEMMA VisitorKept ==
  ASSUME TypeOK, OwnDelivery, NEW t \in Task, Tracked(t), NEW w \in Worker, Carries(w, t),
         ~ Owns(w, t), ~ Claim(w), UNCHANGED <<adv, victim>>,
         Work(w) \/ NoCallback(w) \/ ChannelLost(w)
  PROVE  Tracked(t)'
<1>0. /\ pc[w] \in {"check", "refused", "claim"} /\ Doing(w) = t
      /\ job[w] \in Msg /\ job[w].task = t
  BY DEF TypeOK, Carries, Owns, Doing
<1>1. SkipCompleted(w) \/ Admit(w) \/ Refuse(w) \/ PutBack(w) \/ LoseClaim(w) \/ ChannelLost(w)
  BY <1>0 DEF Work, WorkerStep, ProcessStep, MarkRunning, ExecuteStep, Begin, HandlerSucceeds,
     VerifierRejects, HandlerRaises, CompleteStep, CompleteState, CompleteRow, CompleteResult,
     AckCompleted, RetryStep, RetryState, RetryMark, RetryRow, AckRetried, DeadLetterStep,
     FailState, FailRow, FailResult, AckDead, DeadLetterRoute, DeadLetter, Unroutable, Requeue,
     NoCallback, At
<1>2. /\ es' = es /\ status' = status /\ pc'[w] \in {"claim", "refused", "idle"}
      /\ \A v \in Worker \ {w} : pc'[v] = pc[v] /\ job'[v] = job[v]
  BY <1>1 DEF TypeOK, SkipCompleted, Admit, Refuse, PutBack, LoseClaim, ChannelLost, Redeliver,
     Release, GoTo, storeVars
<1>3. \A m \in Msg : queue[m] > 0 => queue'[m] > 0
  BY WorkCarries DEF NoNewCarrier, GivesBack, TypeOK
<1>4. ASSUME NEW v \in Worker, NEW L \in {Claims, Opens, Endings, {"doneRow"}}
      PROVE  Has(v, t, L)' <=> Has(v, t, L)
  <2>1. pc[w] \notin L /\ pc'[w] \notin L
    BY <1>0, <1>2 DEF Claims, Opens, Endings
  <2> QED BY <1>2, <2>1 DEF Has, Doing
<1>5. \A v \in Worker \ {w} : Carries(v, t) => Carries(v, t)'
  BY <1>2 DEF Carries, Doing
<1>6. Terminal(t) \/ Underway(t)'
  <2>1. CASE Admit(w) \/ Refuse(w)
    <3>1. Carries(w, t)'
      BY <1>0, <2>1 DEF TypeOK, Admit, Refuse, GoTo, Carries, Doing
    <3> QED BY <3>1 DEF Underway
  <2>2. CASE PutBack(w)
    <3>1. queue'[job[w]] > 0
      BY <1>0, <2>2 DEF TypeOK, PutBack, Enqueue
    <3> QED BY <1>0, <3>1 DEF Underway
  <2>3. CASE ChannelLost(w)
    <3>1. pc[w] = "check"
      BY <1>0, <2>3 DEF ChannelLost, At
    <3>2. job[w] \in unacked[w]
      BY <3>1 DEF OwnDelivery
    <3>3. queue'[job[w]] > 0
      BY <1>0, <2>3, <3>2 DEF TypeOK, ChannelLost, Redeliver
    <3> QED BY <1>0, <3>3 DEF Underway
  <2>4. CASE SkipCompleted(w) \/ LoseClaim(w)
    <3>1. es[t] \in {"completed", "running"}
      BY <1>0, <2>4 DEF SkipCompleted, LoseClaim
    <3>2. Terminal(t) \/ InPhase(t, Claims) \/ InPhase(t, {"doneRow"})
      BY <3>1 DEF Tracked, Claims
    <3>3. ASSUME NEW v \in Worker, NEW L \in {Claims, {"doneRow"}}, Has(v, t, L)
          PROVE  Underway(t)'
      <4>1. v # w
        BY <1>0, <3>3 DEF Has, Claims
      <4>2. Carries(v, t)
        BY <3>3 DEF Has, Carries, Claims
      <4> QED BY <1>5, <4>1, <4>2 DEF Underway
    <3> QED BY <3>2, <3>3 DEF InPhase, Has
  <2> QED BY <1>1, <2>1, <2>2, <2>3, <2>4
<1>7. Published(t)' => Published(t)
  BY <1>2 DEF Published
<1> QED BY <1>2, <1>4, <1>6, <1>7, AsideKeeps

(* The advancer publishes, marks and sweeps.                               *)
LEMMA AdvancerKeeps ==
  ASSUME CrossTypeOK, NEW t \in Task, Tracked(t), AdvanceStep
  PROVE  Tracked(t)'
<1>0. TypeOK /\ UNCHANGED <<pc, job>>
  BY DEF CrossTypeOK, AdvanceStep, Select, MarkDispatched, SelectStuck, SweepRow, SweepResult,
     Finalize, WriteVerdict, PublishReady, SweepState, wvars, workVars
<1>1. /\ \A v \in Worker : \A L : Has(v, t, L)' <=> Has(v, t, L)
      /\ \A L : InPhase(t, L)' <=> InPhase(t, L)
      /\ \A v \in Worker : Carries(v, t)' <=> Carries(v, t)
  BY <1>0 DEF Has, InPhase, Carries, Doing
<1>2. ASSUME NEW n \in Msg, PublishReady(n)
      PROVE  Tracked(t)'
  <2>1. /\ queue' = [queue EXCEPT ![n] = @ + 1] /\ victim' = n.task /\ adv' = "mark"
        /\ es' = es /\ status' = status /\ adv = "publish"
    BY <1>2 DEF PublishReady, Enqueue, storeVars
  <2>2. queue'[n] > 0 /\ \A m \in Msg : queue[m] > 0 => queue'[m] > 0
    BY <1>0, <2>1 DEF TypeOK
  <2>3. Underway(t) => Underway(t)'
    BY <1>1, <2>1, <2>2 DEF Underway
  <2>4. CASE n.task = t
    <3>1. Underway(t)'
      BY <2>2, <2>4 DEF Underway
    <3> QED BY <1>1, <2>1, <3>1 DEF Tracked, Terminal
  <2>5. CASE n.task # t
    <3>1. Published(t)' => Published(t)
      BY <2>1, <2>5 DEF Published
    <3> QED BY <1>1, <2>1, <2>3, <3>1, AsideKeeps
  <2> QED BY <2>4, <2>5
<1>3. CASE MarkDispatched
  <2>1. /\ UNCHANGED <<status, queue>> /\ adv = "mark" /\ adv' = "publish"
        /\ es'[t] = IF t = victim THEN "queued" ELSE es[t]
    BY <1>0, <1>3 DEF MarkDispatched, SetState, busVars, TypeOK
  <2>2. Underway(t) => Underway(t)'
    BY <1>1, <2>1 DEF Underway
  <2>3. CASE t = victim
    BY <1>1, <2>1, <2>2, <2>3 DEF Tracked, Published, Terminal
  <2>4. CASE t # victim
    <3>1. Published(t)' => Published(t)
      BY <2>1, <2>4 DEF Published
    <3> QED BY <1>1, <2>1, <2>2, <2>4, <3>1, AsideKeeps
  <2> QED BY <2>3, <2>4
<1>4. ASSUME NEW u \in Task, SweepState(u)
      PROVE  Tracked(t)'
  <2>1. /\ UNCHANGED <<status, queue>> /\ adv = "sweep" /\ adv' = "failRow" /\ victim' = u
        /\ es'[t] = IF t = u THEN "failed" ELSE es[t]
    BY <1>0, <1>4 DEF SweepState, SetState, busVars, TypeOK
  <2>2. CASE t = u
    <3>1. Underway(t)'
      BY <2>1, <2>2 DEF Underway
    <3> QED BY <1>1, <2>1, <2>2, <3>1 DEF Tracked, Terminal
  <2>3. CASE t # u
    <3>1. (Underway(t) => Underway(t)') /\ (Published(t)' => Published(t))
      BY <1>1, <2>1, <2>3 DEF Underway, Published
    <3> QED BY <1>1, <2>1, <2>3, <3>1, AsideKeeps
  <2> QED BY <2>2, <2>3
<1>5. CASE SweepRow
  <2>1. /\ UNCHANGED <<es, queue, victim>> /\ adv = "failRow" /\ adv' = "failResult"
        /\ status'[t] = IF t = victim THEN "failed" ELSE status[t]
    BY <1>0, <1>5 DEF SweepRow, SetRow, busVars, TypeOK
  <2>2. CASE t = victim
    BY <1>1, <2>1, <2>2 DEF Tracked, Terminal
  <2>3. CASE t # victim
    <3>1. (Underway(t) => Underway(t)') /\ (Published(t)' => Published(t))
      BY <1>1, <2>1, <2>3 DEF Underway, Published
    <3> QED BY <1>1, <2>1, <2>3, <3>1, AsideKeeps
  <2> QED BY <2>2, <2>3
<1>6. CASE Select \/ SelectStuck \/ SweepResult \/ Finalize \/ WriteVerdict
  <2>1. /\ UNCHANGED <<es, status, queue>>
        /\ adv \notin {"mark", "failRow"} /\ adv' \notin {"mark", "failRow"}
    BY <1>6 DEF Select, SelectStuck, SweepResult, Finalize, WriteVerdict, wvars, storeVars, busVars
  <2>2. (Underway(t) => Underway(t)') /\ (Published(t)' => Published(t))
    BY <1>1, <2>1 DEF Underway, Published
  <2> QED BY <1>1, <2>1, <2>2, AsideKeeps
<1> QED BY <1>2, <1>3, <1>4, <1>5, <1>6 DEF AdvanceStep

(* A task that one worker at most owns stays tracked, unless its dead      *)
(* letter is returned.                                                     *)
LEMMA TrackedStep ==
  ASSUME CrossTypeOK, OwnDelivery, NEW t \in Task, SingleOwner(t), SingleOwner(t)',
         DlqBound \/ \A w \in Worker : Unroutable(w) => Doing(w) # t, Tracked(t),
         [Next]_vars, crashes' = 0
  PROVE  Tracked(t)'
<1>0. TypeOK /\ crashes = 0
  BY CrashesGrow DEF CrossTypeOK
<1>1. ASSUME NEW w \in Worker, Poll(w) \/ Work(w) \/ NoCallback(w) \/ ChannelLost(w)
      PROVE  Tracked(t)'
  <2>1. UNCHANGED <<adv, victim>>
    BY <1>1, OthersLeaveVerdict DEF advVars
  <2>2. CASE Poll(w)
    BY <1>0, <2>1, <2>2, FetchKeeps DEF Poll
  <2>3. CASE (Work(w) \/ NoCallback(w) \/ ChannelLost(w)) /\ ~ Carries(w, t)
    BY <1>0, <2>1, <2>3, OtherTasksKept
  <2>4. CASE Claim(w) /\ Carries(w, t)
    BY <1>0, <2>4, ClaimKept
  <2>5. CASE (Work(w) \/ NoCallback(w) \/ ChannelLost(w)) /\ Owns(w, t)
    <3>1. DlqBound \/ ~ Unroutable(w)
      BY <2>5 DEF Owns
    <3> QED BY <1>0, <2>5, <3>1, OwnedKept
  <2>6. CASE /\ Work(w) \/ NoCallback(w) \/ ChannelLost(w)
             /\ Carries(w, t) /\ ~ Owns(w, t) /\ ~ Claim(w)
    BY <1>0, <2>1, <2>6, VisitorKept
  <2> QED BY <1>1, <2>2, <2>3, <2>4, <2>5, <2>6
<1>2. CASE AdvanceStep
  BY <1>2, AdvancerKeeps
<1>3. CASE SubmitStep \/ ReadWorkflow \/ AnswerRead \/ UNCHANGED vars
  <2>1. UNCHANGED <<es, status, pc, job, adv, victim>>
    BY <1>3 DEF SubmitStep, CreateTask, PublishRoot, AddDependency,
       ReadWorkflow, AnswerRead, vars, wvars, storeVars, workVars, advVars
  <2>2. \A m \in Msg : queue[m] > 0 => queue'[m] > 0
    <3>1. CASE \E u \in Task : PublishRoot(u)
      BY <1>0, <3>1 DEF PublishRoot, Enqueue, TypeOK
    <3>2. CASE ~ \E u \in Task : PublishRoot(u)
      BY <1>3, <3>2 DEF SubmitStep, CreateTask, AddDependency,
         ReadWorkflow, AnswerRead, vars, wvars, busVars
    <3> QED BY <3>1, <3>2
  <2>3. \A v \in Worker : \A L : Has(v, t, L)' <=> Has(v, t, L)
    BY <2>1 DEF Has, Doing
  <2>4. \A v \in Worker : Carries(v, t)' <=> Carries(v, t)
    BY <2>1 DEF Carries, Doing
  <2>5. (Underway(t) => Underway(t)') /\ (Published(t)' => Published(t))
    BY <2>1, <2>2, <2>4 DEF Underway, Published
  <2> QED BY <2>1, <2>3, <2>5, AsideKeeps
<1>4. ~ AdvancerCrash /\ \A w \in Worker : ~ WorkerCrash(w)
  BY <1>0, CrossAssumption DEF CrossTypeOK, AdvancerCrash, WorkerCrash
<1> QED BY <1>1, <1>2, <1>3, <1>4 DEF Next

(* Nothing is published to begin with.                                     *)
LEMMA TrackedInit == Init => OwnDelivery /\ \A t \in Task : Tracked(t)
BY DEF Init, WorkerInit, OwnDelivery, Tracked, Published, InPhase

(* A worker holds its own delivery until it settles it.                    *)
LEMMA DeliveriesOwned == Spec => []OwnDelivery
<1>1. CrossTypeOK /\ OwnDelivery /\ [Next]_vars => OwnDelivery'
  BY OwnDeliveryStep
<1> QED BY <1>1, TrackedInit, SubmitOrder, PTL DEF Spec

(* A task that is underway is in flight.                                   *)
LEMMA UnderwayInFlight ==
  ASSUME NEW t \in Task, Underway(t)
  PROVE  InFlight(t)
<1>1. ASSUME NEW m \in Msg, m.task = t, queue[m] > 0
      PROVE  \E a \in 1..MaxAttempts : queue[[task |-> t, attempt |-> a]] > 0
  <2>1. m = [task |-> t, attempt |-> m.attempt] /\ m.attempt \in 1..MaxAttempts
    BY <1>1 DEF Msg
  <2> QED BY <1>1, <2>1
<1>2. ASSUME NEW w \in Worker, Carries(w, t)
      PROVE  Holds(w, t)
  BY <1>2 DEF Carries, Holds, At
<1> QED BY <1>1, <1>2 DEF Underway, InFlight

(* A task that is not marred by a step has one owner before and after it.  *)
LEMMA UnmarredStep ==
  ASSUME NEW t \in Task, t \notin marred', [HistoryNext]_<<vars, history>>,
         t \notin marred => SingleOwner(t), CrossTypeOK
  PROVE  /\ t \notin marred /\ SingleOwner(t) /\ SingleOwner(t)'
         /\ [Next]_vars /\ \A w \in Worker : Unroutable(w) => Doing(w) # t
<1>1. [Next]_vars /\ t \notin marred /\ SingleOwner(t)
  BY HistoryStep, MemoryGrows
<1>2. CASE UNCHANGED <<vars, history>>
  <2>1. UNCHANGED <<pc, job>>
    BY <1>2 DEF vars, wvars, workVars
  <2>2. SingleOwner(t)'
    BY <1>1, <2>1 DEF SingleOwner, Owns, Doing
  <2>3. \A w \in Worker : ~ Unroutable(w)
    BY <2>1 DEF Unroutable, GoTo, At, CrossTypeOK, TypeOK
  <2> QED BY <1>1, <2>2, <2>3
<1>3. CASE Remember
  <2>1. SingleOwner(t)'
    BY <1>3 DEF Remember
  <2>2. ASSUME NEW w \in Worker, Unroutable(w), Doing(w) = t
        PROVE  FALSE
    <3>1. At(w, "dead") /\ pc'[w] = "deadAck"
      BY <2>2 DEF Unroutable, GoTo, CrossTypeOK, TypeOK
    <3> QED BY <1>3, <2>2, <3>1 DEF Remember
  <2> QED BY <1>1, <2>1, <2>2
<1> QED BY <1>2, <1>3, HistoryStep

(* Until a process crashes, a published task that has not ended is never   *)
(* stranded: a message for it waits or a worker holds it (worker.py:15),   *)
(* for every graph, any number of workers and whatever channels are lost.  *)
(* Two kinds of task are left out because the code does strand them: one   *)
(* that two workers owned at once, as submit and the advancer both publish *)
(* the roots, and one whose dead letter RabbitMQ returned.                 *)
THEOREM NothingIsStranded == HistorySpec => []NoTaskStranded
<1>1. HistoryInit => TrackedInv
  <2> SUFFICES ASSUME HistoryInit PROVE TrackedInv
    OBVIOUS
  <2>1. Init /\ \A w \in Worker : pc[w] = "idle"
    BY DEF HistoryInit, Init, WorkerInit
  <2> QED BY <2>1, TrackedInit DEF TrackedInv, SingleOwner, Owns
<1>2. CrossTypeOK /\ OwnDelivery /\ TrackedInv /\ [HistoryNext]_<<vars, history>> => TrackedInv'
  <2> SUFFICES ASSUME CrossTypeOK, OwnDelivery, TrackedInv, [HistoryNext]_<<vars, history>>,
                      crashes' = 0, NEW t \in Task, t \notin marred'
               PROVE  SingleOwner(t)' /\ Tracked(t)'
    BY DEF TrackedInv
  <2>1. crashes = 0
    BY HistoryStep, CrashesGrow
  <2>2. t \notin marred => SingleOwner(t) /\ Tracked(t)
    BY <2>1 DEF TrackedInv
  <2> QED BY <2>2, UnmarredStep, TrackedStep
<1>3. TrackedInv => NoTaskStranded
  BY UnderwayInFlight DEF TrackedInv, Tracked, Published, NoTaskStranded
<1> QED BY <1>1, <1>2, <1>3, HistoryImplements, SubmitOrder, DeliveriesOwned, PTL DEF HistorySpec

(* With a queue bound to the dead-letter exchange, none of the tasks that  *)
(* only the advancer publishes is stranded.                                *)
THEOREM DependentTasksNotStranded ==
  ASSUME DlqBound = TRUE, MaxCrashes = 0
  PROVE  Spec => [](\A t \in Task : Deps[t] # {} /\ ~ Terminal(t) /\ es[t] # "created"
                       => InFlight(t))
<1> DEFINE DependentsTracked == \A t \in Task : Dependent(t) => Tracked(t)
<1>1. CrossTypeOK' => crashes' = 0
  BY DEF CrossTypeOK
<1>2. Init => DependentsTracked
  BY TrackedInit
<1>3. TokenInv => \A t \in Task : Dependent(t) => SingleOwner(t)
  BY DEF TokenInv, OneToken, SingleOwner, Owns, Carries
<1>4. TokenInv' => \A t \in Task : Dependent(t) => SingleOwner(t)'
  BY DEF TokenInv, OneToken, SingleOwner, Owns, Carries, Dependent, Doing
<1>6. CrossTypeOK /\ TokenInv /\ TokenInv' /\ DependentsTracked /\ [Next]_vars
        => DependentsTracked'
  BY <1>1, <1>3, <1>4, CrossNextTypeOK, TrackedStep DEF TokenInv, Dependent
<1>7. DependentsTracked => \A t \in Task : Deps[t] # {} /\ ~ Terminal(t) /\ es[t] # "created"
                              => InFlight(t)
  BY UnderwayInFlight DEF Tracked, Published, Dependent
<1> HIDE DEF DependentsTracked
<1> QED BY <1>2, <1>6, <1>7, SubmitOrder, Tokens, PTL DEF Spec
=============================================================================
