------------------------- MODULE WorkflowRun_proofs -------------------------
(***************************************************************************)
(* Theorems about WorkflowRun for every graph, every set of workers, every *)
(* bound on attempts and every number of store faults.                     *)
(***************************************************************************)
EXTENDS WorkflowRun, TaskWorker_proofs

-----------------------------------------------------------------------------
(* Type correctness.                                                       *)

(* What the graph operators return are sets of tasks.                      *)
LEMMA GraphSets ==
  /\ Roots \subseteq Task
  /\ \A d : ReadyTasks(d) \subseteq Task
  /\ \A t : Descendants(t) \subseteq Task
BY DEF Roots, ReadyTasks, Descendants

(* The state run_workflow starts from has the types.                       *)
LEMMA InitTypeOK == Init => RunTypeOK
<1> SUFFICES ASSUME Init PROVE RunTypeOK
  OBVIOUS
<1>1. TypeOK
  BY WorkerInitTypeOK DEF Init
<1> QED BY <1>1, GraphSets DEF Init, RunTypeOK

(* The publishing and waiting loop keeps the types.                        *)
LEMMA MainTypeOK ==
  ASSUME RunTypeOK, MainStep \/ Deadline
  PROVE  RunTypeOK'
<1>1. CASE \E t \in Task : DispatchRoot(t)
  BY <1>1 DEF RunTypeOK, DispatchRoot, TypeOK, wvars, storeVars, busVars, workVars, Retrying
<1>2. CASE PublishRoot
  <2>1. [task |-> cur, attempt |-> attempt[cur]] \in Msg
    BY <1>2 DEF RunTypeOK, TypeOK, PublishRoot, Msg
  <2>2. TypeOK'
    BY <1>2, <2>1 DEF RunTypeOK, TypeOK, PublishRoot, Publish, Enqueue, storeVars,
                      workVars, Retrying
  <2> QED BY <1>2, <2>2 DEF RunTypeOK, PublishRoot
<1>3. CASE AllResolved \/ Deadline \/ CountRows \/ Report
  BY <1>3 DEF RunTypeOK, AllResolved, Deadline, CountRows, Report, TypeOK, wvars, storeVars, busVars,
              workVars, Retrying
<1> QED BY <1>1, <1>2, <1>3 DEF MainStep

(* The callbacks on_done and on_fail keep the types.                       *)
LEMMA CallbackTypeOK ==
  ASSUME RunTypeOK, NEW w \in Worker,
         CallbackStep(w) \/ RaiseInOnDone(w) \/ RaiseInOnFail(w)
  PROVE  RunTypeOK'
<1>0. job[w] \in Msg
  BY DEF RunTypeOK, TypeOK, CallbackStep, OnDone, OnFail, AdvanceTo, CascadeTo, EndCallback,
         RaiseInOnDone, RaiseInOnFail, At
<1>1. Doing(w) \in Task /\ job[w].attempt \in 1..MaxAttempts
  BY <1>0, MsgParts DEF Doing
<1>2. CASE OnDone(w)
  <2>1. TypeOK'
    BY <1>0, <1>1, <1>2 DEF RunTypeOK, TypeOK, OnDone, SetState, GoTo, busVars, WorkerPC,
                            TaskStatus, Retrying
  <2> QED BY <1>1, <1>2, <2>1, GraphSets DEF RunTypeOK, OnDone
<1>3. CASE OnFail(w)
  <2>1. TypeOK'
    BY <1>0, <1>1, <1>3 DEF RunTypeOK, TypeOK, OnFail, SetState, GoTo, busVars, WorkerPC,
                            TaskStatus, Retrying
  <2> QED BY <1>1, <1>3, <2>1, GraphSets DEF RunTypeOK, OnFail
<1>4. ASSUME NEW t \in Task, AdvanceTo(w, t)
      PROVE  RunTypeOK'
  <2>1. [task |-> t, attempt |-> attempt[t]] \in Msg
    BY DEF RunTypeOK, TypeOK, Msg
  <2>2. TypeOK'
    BY <1>4, <2>1 DEF RunTypeOK, TypeOK, AdvanceTo, Publish, Enqueue, storeVars, workVars,
                      Retrying
  <2> QED BY <1>4, <2>2 DEF RunTypeOK, AdvanceTo
<1>5. ASSUME NEW t \in Task, CascadeTo(w, t)
      PROVE  RunTypeOK'
  <2>1. TypeOK'
    BY <1>0, <1>5 DEF RunTypeOK, TypeOK, CascadeTo, GoTo, storeVars, busVars, WorkerPC, Retrying
  <2> QED BY <1>5, <2>1 DEF RunTypeOK, CascadeTo
<1>6. CASE EndCallback(w)
  <2>1. TypeOK'
    BY <1>6 DEF RunTypeOK, TypeOK, EndCallback, Release, GoTo, storeVars, busVars, WorkerPC,
                Retrying
  <2> QED BY <1>6, <2>1 DEF RunTypeOK, EndCallback
<1>7. CASE RaiseInOnDone(w)
  <2>1. faults + 1 \in 0..MaxFaults
    BY <1>7, WorkerAssumption DEF RunTypeOK, TypeOK, RaiseInOnDone
  <2>2. TypeOK'
    BY <1>0, <1>1, <1>7, <2>1 DEF RunTypeOK, TypeOK, RaiseInOnDone, FailureRoute, GoTo,
                                  storeVars, busVars, WorkerPC, Retrying
  <2>3. dag' \in [Task -> {"pending", "completed", "failed"}] /\ dispatched' \in SUBSET Task
    BY <1>1, <1>7 DEF RunTypeOK, RaiseInOnDone
  <2> QED BY <1>7, <2>2, <2>3 DEF RunTypeOK, RaiseInOnDone
<1>8. CASE RaiseInOnFail(w)
  <2>1. faults + 1 \in 0..MaxFaults
    BY <1>8, WorkerAssumption DEF RunTypeOK, TypeOK, RaiseInOnFail
  <2>2. TypeOK'
    BY <1>8, <2>1 DEF RunTypeOK, TypeOK, RaiseInOnFail, Release, GoTo, storeVars, busVars,
                      WorkerPC, Retrying
  <2> QED BY <1>1, <1>8, <2>2 DEF RunTypeOK, RaiseInOnFail
<1> QED BY <1>2, <1>3, <1>4, <1>5, <1>6, <1>7, <1>8 DEF CallbackStep

(* So every step of the run does.                                          *)
LEMMA NextTypeOK == RunTypeOK /\ [Next]_vars => RunTypeOK'
<1> SUFFICES ASSUME RunTypeOK, [Next]_vars PROVE RunTypeOK'
  OBVIOUS
<1>1. CASE MainStep \/ Deadline
  BY <1>1, MainTypeOK
<1>2. ASSUME NEW w \in Worker, Poll(w) \/ Work(w) \/ Fault(w)
      PROVE  RunTypeOK'
  <2>1. TypeOK'
    BY <1>2, WorkerTypeOK DEF RunTypeOK, Poll, Work, Fault
  <2> QED BY <1>2, <2>1 DEF RunTypeOK, Poll, Work, Fault, runVars
<1>3. ASSUME NEW w \in Worker, CallbackStep(w) \/ RaiseInOnDone(w) \/ RaiseInOnFail(w)
      PROVE  RunTypeOK'
  BY <1>3, CallbackTypeOK
<1>4. CASE UNCHANGED vars
  BY <1>4 DEF RunTypeOK, TypeOK, vars, wvars, runVars, storeVars, busVars, workVars, Retrying
<1> QED BY <1>1, <1>2, <1>3, <1>4 DEF Next

(* The state of a run has its types, whatever store calls raise: the       *)
(* attempt numbers of rows and messages stay within max_attempts           *)
(* (RetryPolicy.should_retry, retry.py:86), and mark_failed always has a   *)
(* task to be about.                                                       *)
THEOREM TypeCorrect == Spec => []RunTypeOK
BY InitTypeOK, NextTypeOK, PTL DEF Spec

-----------------------------------------------------------------------------
(* One token per task: the inductive invariant of mutual exclusion.        *)

(* No worker takes a message or picks up another one.                      *)
NoNewHolder ==
  \A w \in Worker : pc'[w] # "idle" =>
    /\ pc[w] # "idle" /\ job'[w] = job[w]
    /\ pc'[w] # "retryAck" => pc[w] # "retryAck"

(* A holder of the next state already held the task.                       *)
LEMMA HoldersShrink ==
  ASSUME NoNewHolder, NEW w \in Worker, NEW t, Holds(w, t)'
  PROVE  Holds(w, t)
BY DEF NoNewHolder, Holds, Doing

(* Once a message waits or a worker is busy, SoloStart has nothing to say. *)
LEMMA AfterStart ==
  ASSUME SoloStart, RootsLeft, UNCHANGED <<main, roots, cur>>,
         dispatched \subseteq dispatched',
         \/ \E w \in Worker : pc[w] # "idle"
         \/ \E m \in Msg : queue[m] > 0
  PROVE  SoloStart' /\ RootsLeft'
<1>1. RootsLeft'
  BY DEF RootsLeft
<1>2. \A r \in Roots : ~ (Roots = {r} /\ (r \in roots \/ (main = "publish" /\ cur = r)))
  BY DEF SoloStart
<1> QED BY <1>1, <1>2 DEF SoloStart

(* A step that moves no message and takes none keeps the tokens.           *)
LEMMA KeepTokens ==
  ASSUME TokenInv, UNCHANGED queue, dispatched \subseteq dispatched', NoNewHolder
  PROVE  OneMessage' /\ MessageOrHolder' /\ OneHolder' /\ OnlyDispatched'
<1>1. OneMessage'
  BY DEF TokenInv, OneMessage, PublishedOnce
<1>2. MessageOrHolder'
  BY HoldersShrink DEF TokenInv, MessageOrHolder, PublishedOnce
<1>3. OneHolder'
  BY HoldersShrink DEF TokenInv, OneHolder, PublishedOnce
<1>4. OnlyDispatched'
  BY DEF TokenInv, OnlyDispatched, NoNewHolder, Doing
<1> QED BY <1>1, <1>2, <1>3, <1>4

(* A message may join the bus when its task has no token left.             *)
LEMMA AddMessage ==
  ASSUME TypeOK, TokenInv, NEW n \in Msg, Enqueue(n),
         dispatched \subseteq dispatched', n.task \in dispatched', NoNewHolder,
         PublishedOnce(n.task) =>
           /\ \A m \in Msg : m.task = n.task => queue[m] = 0
           /\ \A w \in Worker : ~ Holds(w, n.task)'
  PROVE  OneMessage' /\ MessageOrHolder' /\ OneHolder' /\ OnlyDispatched'
<1>0. queue \in [Msg -> Nat] /\ queue' = [queue EXCEPT ![n] = @ + 1]
  BY DEF TypeOK, Enqueue
<1>1. OneMessage'
  <2> SUFFICES ASSUME NEW k \in Msg, NEW m \in Msg, k.task = m.task, PublishedOnce(k.task),
                      queue'[k] > 0
               PROVE  queue'[k] = 1 /\ (queue'[m] > 0 => k = m)
    BY DEF OneMessage, PublishedOnce
  <2>1. CASE k.task = n.task
    <3>1. queue[k] = 0 /\ queue[m] = 0 /\ queue[n] = 0
      BY <2>1
    <3> QED BY <1>0, <3>1
  <2>2. CASE k.task # n.task
    <3>1. queue'[k] = queue[k] /\ queue'[m] = queue[m]
      BY <1>0, <2>2
    <3> QED BY <3>1 DEF TokenInv, OneMessage
  <2> QED BY <2>1, <2>2
<1>2. MessageOrHolder'
  <2> SUFFICES ASSUME NEW m \in Msg, NEW w \in Worker, PublishedOnce(m.task), queue'[m] > 0
               PROVE  ~ Holds(w, m.task)'
    BY DEF MessageOrHolder, PublishedOnce
  <2>1. CASE m.task = n.task
    BY <2>1
  <2>2. CASE m.task # n.task
    <3>1. queue[m] > 0
      BY <1>0, <2>2
    <3> QED BY <3>1, HoldersShrink DEF TokenInv, MessageOrHolder
  <2> QED BY <2>1, <2>2
<1>3. OneHolder'
  BY HoldersShrink DEF TokenInv, OneHolder, PublishedOnce
<1>4. OnlyDispatched'
  <2>1. ASSUME NEW m \in Msg, queue'[m] > 0 PROVE m.task \in dispatched'
    <3>1. CASE m = n
      BY <3>1
    <3>2. CASE m # n
      BY <1>0, <2>1, <3>2 DEF TokenInv, OnlyDispatched
    <3> QED BY <3>1, <3>2
  <2>2. ASSUME NEW w \in Worker, pc'[w] # "idle" PROVE Doing(w)' \in dispatched'
    BY <2>2 DEF TokenInv, OnlyDispatched, NoNewHolder, Doing
  <2> QED BY <2>1, <2>2 DEF OnlyDispatched
<1> QED BY <1>1, <1>2, <1>3, <1>4

(* Fetching turns the waiting message of a task into its holder.           *)
LEMMA FetchTokens ==
  ASSUME TypeOK, TokenInv, NEW w \in Worker, NEW m \in Msg, Fetch(w, m), UNCHANGED runVars
  PROVE  TokenInv'
<1>0. /\ queue \in [Msg -> Nat] /\ queue[m] > 0 /\ queue' = [queue EXCEPT ![m] = @ - 1]
      /\ pc \in [Worker -> WorkerPC] /\ pc[w] = "idle" /\ pc' = [pc EXCEPT ![w] = "check"]
      /\ job \in [Worker -> Msg \cup {NoMsg}] /\ job' = [job EXCEPT ![w] = m]
  BY DEF TypeOK, Fetch, At, GoTo
<1>1. \A v \in Worker, t \in Task :
         Holds(v, t)' => (v = w /\ t = m.task) \/ (v # w /\ Holds(v, t))
  BY <1>0 DEF Holds, Doing
<1>2. \A k \in Msg : queue'[k] > 0 => queue[k] > 0 /\ (queue[k] = 1 => k # m)
  BY <1>0
<1>3. OneMessage'
  <2> SUFFICES ASSUME NEW k \in Msg, NEW n \in Msg, k.task = n.task, PublishedOnce(k.task),
                      queue'[k] > 0
               PROVE  queue'[k] = 1 /\ (queue'[n] > 0 => k = n)
    BY DEF OneMessage, PublishedOnce
  <2>1. queue[k] = 1 /\ k # m /\ (queue[n] > 0 => k = n)
    BY <1>2 DEF TokenInv, OneMessage
  <2> QED BY <1>0, <1>2, <2>1
<1>4. MessageOrHolder'
  <2> SUFFICES ASSUME NEW k \in Msg, NEW v \in Worker, PublishedOnce(k.task), queue'[k] > 0,
                      Holds(v, k.task)'
               PROVE  FALSE
    BY DEF MessageOrHolder, PublishedOnce
  <2>1. queue[k] = 1 /\ k # m
    BY <1>2 DEF TokenInv, OneMessage
  <2>2. CASE k.task = m.task
    BY <1>0, <2>1, <2>2 DEF TokenInv, OneMessage
  <2>3. CASE k.task # m.task
    <3>1. Holds(v, k.task)
      BY <1>1, <2>3, MsgParts
    <3> QED BY <2>1, <3>1 DEF TokenInv, MessageOrHolder
  <2> QED BY <2>2, <2>3
<1>5. OneHolder'
  <2> SUFFICES ASSUME NEW t \in Task, NEW u \in Worker, NEW v \in Worker, PublishedOnce(t),
                      Holds(u, t)', Holds(v, t)'
               PROVE  u = v
    BY DEF OneHolder, PublishedOnce
  <2>1. \A x \in Worker : t = m.task => ~ Holds(x, t)
    BY <1>0 DEF TokenInv, MessageOrHolder
  <2> QED BY <1>1, <2>1 DEF TokenInv, OneHolder
<1>6. OnlyDispatched'
  <2>1. m.task \in dispatched
    BY <1>0 DEF TokenInv, OnlyDispatched
  <2> QED BY <1>0, <1>2, <2>1 DEF TokenInv, OnlyDispatched, runVars, Doing
<1>7. SoloStart' /\ RootsLeft'
  BY <1>0, AfterStart DEF TokenInv, runVars
<1> QED BY <1>3, <1>4, <1>5, <1>6, <1>7 DEF TokenInv

(* A worker that enqueues the message of its own task gives the task up.   *)
LEMMA GiveBack ==
  ASSUME TypeOK, TokenInv, NEW w \in Worker, NEW n \in Msg, n.task = Doing(w), Enqueue(n),
         pc[w] \notin {"idle", "retryAck"}, pc' = [pc EXCEPT ![w] = pc'[w]],
         pc'[w] \in {"idle", "retryAck"},
         \A v \in Worker : pc'[v] # "idle" => job'[v] = job[v],
         UNCHANGED runVars
  PROVE  TokenInv'
<1>0. pc \in [Worker -> WorkerPC] /\ Holds(w, n.task) /\ n.task \in Task
  BY MsgParts DEF TypeOK, Holds
<1>1. NoNewHolder
  BY <1>0 DEF NoNewHolder
<1>2. n.task \in dispatched
  BY <1>0 DEF TokenInv, OnlyDispatched, Holds
<1>3. ASSUME PublishedOnce(n.task)
      PROVE  /\ \A m \in Msg : m.task = n.task => queue[m] = 0
             /\ \A v \in Worker : ~ Holds(v, n.task)'
  <2>1. \A m \in Msg : m.task = n.task => queue[m] = 0
    BY <1>0, <1>3 DEF TypeOK, TokenInv, MessageOrHolder
  <2>2. ASSUME NEW v \in Worker, Holds(v, n.task)' PROVE FALSE
    <3>1. Holds(v, n.task)
      BY <1>1, <2>2, HoldersShrink
    <3>2. v = w
      BY <1>0, <1>3, <3>1 DEF TokenInv, OneHolder
    <3> QED BY <2>2, <3>2 DEF Holds
  <2> QED BY <2>1, <2>2
<1>4. OneMessage' /\ MessageOrHolder' /\ OneHolder' /\ OnlyDispatched'
  BY <1>1, <1>2, <1>3, AddMessage DEF runVars
<1>5. SoloStart' /\ RootsLeft'
  BY AfterStart DEF TokenInv, runVars
<1> QED BY <1>4, <1>5 DEF TokenInv

(* A step of a worker turns a message into a claim or a claim into a       *)
(* message, so it makes no second token.                                   *)
LEMMA WorkTokens ==
  ASSUME TypeOK, TokenInv, NEW w \in Worker, Work(w) \/ Fault(w)
  PROVE  TokenInv'
<1>0. /\ pc[w] # "idle" /\ job[w] \in Msg /\ UNCHANGED runVars
      /\ pc \in [Worker -> WorkerPC] /\ job \in [Worker -> Msg \cup {NoMsg}]
      /\ queue \in [Msg -> Nat]
  BY DEF TypeOK, Work, Fault, WorkerStep, ProcessStep, ExecuteStep, CompleteStep, RetryStep,
         DeadLetterStep, FaultStep, SkipCompleted, Admit, Refuse, PutBack, Claim, LoseClaim,
         MarkRunning, Begin, HandlerSucceeds, VerifierRejects, HandlerRaises, CompleteState,
         CompleteRow, CompleteResult, AckCompleted, RetryState, RetryMark, RetryRow, Requeue,
         AckRetried, DeadLetter, FailState, FailRow, FailResult, AckDead, RaiseInTry,
         RaiseOutside, RaiseInDeadLetter, At
<1>1. Doing(w) \in Task /\ job[w].attempt \in 1..MaxAttempts
  BY <1>0, MsgParts DEF Doing
<1>2. CASE PutBack(w)
  <2>1. job[w].task = Doing(w)
    BY DEF Doing
  <2> QED BY <1>0, <1>2, <2>1, GiveBack DEF PutBack, At, Release, GoTo, WorkerPC
<1>3. CASE Requeue(w)
  <2>1. job[w].attempt + 1 \in 1..MaxAttempts
    BY <1>1, <1>3, WorkerAssumption DEF TypeOK, Requeue, At, Retrying
  <2>2. [task |-> Doing(w), attempt |-> job[w].attempt + 1] \in Msg
    BY <1>1, <2>1 DEF Msg
  <2> QED BY <1>0, <1>3, <2>2, GiveBack DEF Requeue, At, GoTo
<1>4. ASSUME UNCHANGED queue, NoNewHolder PROVE TokenInv'
  <2>1. OneMessage' /\ MessageOrHolder' /\ OneHolder' /\ OnlyDispatched'
    BY <1>0, <1>4, KeepTokens DEF runVars
  <2>2. SoloStart' /\ RootsLeft'
    BY <1>0, AfterStart DEF TokenInv, runVars
  <2> QED BY <2>1, <2>2 DEF TokenInv
<1>5. CASE ProcessStep(w) /\ ~ PutBack(w)
  BY <1>0, <1>4, <1>5 DEF ProcessStep, SkipCompleted, Admit, Refuse, Claim, LoseClaim,
         MarkRunning, At, GoTo, Release, NoNewHolder, busVars
<1>6. CASE ExecuteStep(w) \/ CompleteStep(w)
  BY <1>0, <1>4, <1>6 DEF ExecuteStep, CompleteStep, Begin, HandlerSucceeds, VerifierRejects,
         HandlerRaises, CompleteState, CompleteRow, CompleteResult, AckCompleted, At, GoTo,
         FailureRoute, NoNewHolder, busVars
<1>7. CASE RetryStep(w)
  BY <1>0, <1>4, <1>7 DEF RetryStep, RetryState, RetryMark, RetryRow, AckRetried, At, GoTo,
         Release, NoNewHolder, busVars
<1>8. CASE DeadLetterStep(w) \/ DeadLetter(w)
  BY <1>0, <1>4, <1>8 DEF DeadLetterStep, DeadLetter, FailState, FailRow, FailResult, AckDead,
         At, GoTo, NoNewHolder, busVars
<1>9. CASE FaultStep(w)
  BY <1>0, <1>4, <1>9 DEF FaultStep, RaiseInTry, RaiseOutside, RaiseInDeadLetter, GoTo,
         FailureRoute, Release, NoNewHolder, busVars
<1> QED BY <1>2, <1>3, <1>5, <1>6, <1>7, <1>8, <1>9 DEF Work, Fault, WorkerStep

(* on_done publishes under the lock what was not dispatched before, so it  *)
(* makes no second token.                                                  *)
LEMMA CallbackTokens ==
  ASSUME TypeOK, TokenInv, NEW w \in Worker,
         CallbackStep(w) \/ RaiseInOnDone(w) \/ RaiseInOnFail(w)
  PROVE  TokenInv'
<1>0. /\ pc[w] \notin {"idle", "retryAck"} /\ job[w] \in Msg
      /\ pc \in [Worker -> WorkerPC] /\ queue \in [Msg -> Nat]
      /\ job \in [Worker -> Msg \cup {NoMsg}]
      /\ UNCHANGED <<main, roots, cur>> /\ dispatched \subseteq dispatched'
  BY DEF TypeOK, CallbackStep, OnDone, OnFail, EndCallback, AdvanceTo, CascadeTo,
         RaiseInOnDone, RaiseInOnFail, At
<1>1. SoloStart' /\ RootsLeft'
  BY <1>0, AfterStart DEF TokenInv
<1>2. ASSUME UNCHANGED queue, dispatched \subseteq dispatched', NoNewHolder PROVE TokenInv'
  BY <1>1, <1>2, KeepTokens DEF TokenInv
<1>3. CASE OnDone(w) \/ OnFail(w) \/ EndCallback(w)
  BY <1>0, <1>2, <1>3 DEF OnDone, OnFail, EndCallback, At, GoTo, Release, NoNewHolder, busVars
<1>4. ASSUME NEW t \in Task, CascadeTo(w, t) PROVE TokenInv'
  BY <1>0, <1>2, <1>4 DEF CascadeTo, At, GoTo, NoNewHolder, busVars
<1>5. CASE RaiseInOnDone(w) \/ RaiseInOnFail(w)
  BY <1>0, <1>2, <1>5 DEF RaiseInOnDone, RaiseInOnFail, At, GoTo, Release, FailureRoute,
         NoNewHolder, busVars
<1>6. ASSUME NEW t \in Task, AdvanceTo(w, t) PROVE TokenInv'
  <2>0. NoNewHolder
    BY <1>6 DEF AdvanceTo, workVars, NoNewHolder
  <2>1. CASE t \in dispatched
    BY <1>2, <1>6, <2>0, <2>1 DEF AdvanceTo
  <2>2. CASE t \notin dispatched
    <3>1. [task |-> t, attempt |-> attempt[t]] \in Msg
      BY DEF TypeOK, Msg
    <3>2. \A m \in Msg : m.task = t => queue[m] = 0
      BY <1>0, <2>2 DEF TokenInv, OnlyDispatched
    <3>3. \A v \in Worker : ~ Holds(v, t)'
      BY <2>0, <2>2, HoldersShrink DEF TokenInv, OnlyDispatched, Holds
    <3>4. OneMessage' /\ MessageOrHolder' /\ OneHolder' /\ OnlyDispatched'
      BY <1>6, <2>0, <2>2, <3>1, <3>2, <3>3, AddMessage DEF AdvanceTo, Publish
    <3> QED BY <1>1, <3>4 DEF TokenInv
  <2> QED BY <2>1, <2>2
<1> QED BY <1>3, <1>4, <1>5, <1>6 DEF CallbackStep

(* With one root the publishing loop puts that root on the empty bus only. *)
LEMMA MainTokens ==
  ASSUME RunTypeOK, TokenInv, MainStep \/ Deadline
  PROVE  TokenInv'
<1>0. TypeOK
  BY DEF RunTypeOK
<1>1. ASSUME NEW t \in Task, DispatchRoot(t) PROVE TokenInv'
  <2>1. OneMessage' /\ MessageOrHolder' /\ OneHolder' /\ OnlyDispatched'
    BY <1>1, KeepTokens DEF DispatchRoot, wvars, busVars, workVars, NoNewHolder
  <2>2. RootsLeft'
    BY <1>1 DEF DispatchRoot, TokenInv, RootsLeft
  <2>3. SoloStart'
    BY <1>1 DEF DispatchRoot, TokenInv, SoloStart, RootsLeft, wvars, busVars, workVars
  <2> QED BY <2>1, <2>2, <2>3 DEF TokenInv
<1>2. CASE PublishRoot
  <2>0. cur \in Roots /\ cur \in Task /\ cur \notin roots /\ cur \in dispatched
    BY <1>2 DEF RunTypeOK, TokenInv, RootsLeft, PublishRoot
  <2>1. PICK n \in Msg : n.task = cur /\ Enqueue(n)
    <3>1. [task |-> cur, attempt |-> attempt[cur]] \in Msg
      BY <1>0, <2>0 DEF TypeOK, Msg
    <3> QED BY <1>2, <3>1 DEF PublishRoot, Publish
  <2>2. NoNewHolder /\ dispatched' = dispatched
    BY <1>2 DEF PublishRoot, workVars, NoNewHolder
  <2>3. ASSUME PublishedOnce(n.task)
        PROVE  /\ \A m \in Msg : m.task = n.task => queue[m] = 0
               /\ \A w \in Worker : ~ Holds(w, n.task)'
    <3>1. (\A w \in Worker : pc[w] = "idle") /\ (\A m \in Msg : queue[m] = 0)
      BY <1>2, <2>0, <2>1, <2>3 DEF PublishRoot, TokenInv, SoloStart, PublishedOnce
    <3> QED BY <1>2, <3>1 DEF PublishRoot, workVars, Holds
  <2>4. OneMessage' /\ MessageOrHolder' /\ OneHolder' /\ OnlyDispatched'
    BY <1>0, <2>0, <2>1, <2>2, <2>3, AddMessage
  <2>5. RootsLeft' /\ SoloStart'
    BY <1>2, <2>0 DEF PublishRoot, TokenInv, RootsLeft, SoloStart
  <2> QED BY <2>4, <2>5 DEF TokenInv
<1>3. CASE AllResolved \/ Deadline \/ CountRows \/ Report
  BY <1>3 DEF AllResolved, Deadline, CountRows, Report, TokenInv, OneMessage, MessageOrHolder, OneHolder,
              OnlyDispatched, SoloStart, RootsLeft, PublishedOnce, Holds, Doing, wvars, busVars,
              workVars
<1> QED BY <1>1, <1>2, <1>3 DEF MainStep

(* So no step makes a second token.                                        *)
LEMMA NextTokens == RunTypeOK /\ TokenInv /\ [Next]_vars => TokenInv'
<1> SUFFICES ASSUME RunTypeOK, TokenInv, [Next]_vars PROVE TokenInv'
  OBVIOUS
<1>0. TypeOK
  BY DEF RunTypeOK
<1>1. CASE MainStep \/ Deadline
  BY <1>1, MainTokens
<1>2. ASSUME NEW w \in Worker, Poll(w) PROVE TokenInv'
  BY <1>0, <1>2, FetchTokens DEF Poll
<1>3. ASSUME NEW w \in Worker, Work(w) \/ Fault(w) PROVE TokenInv'
  BY <1>0, <1>3, WorkTokens
<1>4. ASSUME NEW w \in Worker, CallbackStep(w) \/ RaiseInOnDone(w) \/ RaiseInOnFail(w)
      PROVE  TokenInv'
  BY <1>0, <1>4, CallbackTokens
<1>5. CASE UNCHANGED vars
  BY <1>5 DEF vars, wvars, runVars, busVars, workVars, TokenInv, OneMessage, MessageOrHolder,
              OneHolder, OnlyDispatched, SoloStart, RootsLeft, PublishedOnce, Holds, Doing
<1> QED BY <1>1, <1>2, <1>3, <1>4, <1>5 DEF Next

(* There is no token before the first publish.                             *)
LEMMA InitTokens == Init => TokenInv
BY DEF Init, WorkerInit, TokenInv, OneMessage, MessageOrHolder, OneHolder, OnlyDispatched,
       SoloStart, RootsLeft, Holds

(* A task that is published once has at most one executor: whatever the    *)
(* graph, the number of workers and attempts, and the store calls that     *)
(* raise, two workers are never both between winning mark_started          *)
(* (worker.py:162) and giving the task up.                                 *)
THEOREM MutualExclusion == Spec => []AtMostOneExecutor
<1>1. Init => RunTypeOK /\ TokenInv
  BY InitTypeOK, InitTokens
<1>2. (RunTypeOK /\ TokenInv) /\ [Next]_vars => (RunTypeOK /\ TokenInv)'
  BY NextTypeOK, NextTokens
<1>3. TokenInv => AtMostOneExecutor
  BY DEF TokenInv, OneHolder, AtMostOneExecutor, Executes, ClaimHeld, Holds
<1> QED BY <1>1, <1>2, <1>3, PTL DEF Spec

-----------------------------------------------------------------------------
(* The attempt in a row is that of the task's token.                       *)

(* The attempt numbers of the rows are left alone, and so is every label   *)
(* at which they are a step ahead of the message.                          *)
NoNewAttempt ==
  /\ UNCHANGED attempt
  /\ \A w \in Worker : pc'[w] \notin {"idle", "retryAck"} => (pc'[w] = "requeue" <=> pc[w] = "requeue")

(* What waits and what is held then still carries the attempt of the row.  *)
LEMMA KeepAttempts ==
  ASSUME AttemptInv, NoNewAttempt, NoNewHolder,
         \A m \in Msg : queue'[m] > 0 => queue[m] > 0 \/ m.attempt = attempt[m.task]
  PROVE  AttemptInv'
<1>1. \A m \in Msg : PublishedOnce(m.task)' /\ queue'[m] > 0 => m.attempt = attempt'[m.task]
  BY DEF AttemptInv, NoNewAttempt, PublishedOnce
<1>2. ASSUME NEW w \in Worker, NEW t \in Task, PublishedOnce(t)', Holds(w, t)'
      PROVE  attempt'[t] = IF pc'[w] = "requeue" THEN job'[w].attempt + 1 ELSE job'[w].attempt
  <2>1. Holds(w, t) /\ PublishedOnce(t)
    BY <1>2, HoldersShrink DEF PublishedOnce
  <2>2. job'[w] = job[w] /\ (pc'[w] = "requeue" <=> pc[w] = "requeue")
    BY <1>2 DEF NoNewHolder, NoNewAttempt, Holds
  <2> QED BY <2>1, <2>2 DEF AttemptInv, NoNewAttempt
<1> QED BY <1>1, <1>2 DEF AttemptInv

(* A worker keeps the attempts in step: a retry moves its row and then its *)
(* message, and set_attempt writes the number the row already has.         *)
LEMMA WorkAttempts ==
  ASSUME TypeOK, TokenInv, AttemptInv, NEW w \in Worker, Work(w) \/ Fault(w)
  PROVE  /\ AttemptInv'
         /\ \A t \in Task : PublishedOnce(t) => attempt'[t] >= attempt[t]
<1>0. /\ pc[w] # "idle" /\ job[w] \in Msg /\ UNCHANGED runVars
      /\ pc \in [Worker -> WorkerPC] /\ job \in [Worker -> Msg \cup {NoMsg}]
      /\ queue \in [Msg -> Nat] /\ attempt \in [Task -> 1..MaxAttempts]
  BY DEF TypeOK, Work, Fault, WorkerStep, ProcessStep, ExecuteStep, CompleteStep, RetryStep,
         DeadLetterStep, FaultStep, SkipCompleted, Admit, Refuse, PutBack, Claim, LoseClaim,
         MarkRunning, Begin, HandlerSucceeds, VerifierRejects, HandlerRaises, CompleteState,
         CompleteRow, CompleteResult, AckCompleted, RetryState, RetryMark, RetryRow, Requeue,
         AckRetried, DeadLetter, FailState, FailRow, FailResult, AckDead, RaiseInTry,
         RaiseOutside, RaiseInDeadLetter, At
<1>1. Doing(w) \in Task /\ job[w].attempt \in 1..MaxAttempts /\ job[w].task = Doing(w)
  BY <1>0, MsgParts DEF Doing
<1>2. ASSUME NoNewAttempt, NoNewHolder,
             \A m \in Msg : queue'[m] > 0 => queue[m] > 0 \/ m.attempt = attempt[m.task]
      PROVE  /\ AttemptInv'
             /\ \A t \in Task : PublishedOnce(t) => attempt'[t] >= attempt[t]
  BY <1>0, <1>2, KeepAttempts DEF NoNewAttempt
<1>3. CASE ProcessStep(w) /\ ~ PutBack(w)
  BY <1>0, <1>2, <1>3 DEF ProcessStep, SkipCompleted, Admit, Refuse, Claim, LoseClaim,
         MarkRunning, At, GoTo, Release, NoNewHolder, NoNewAttempt, busVars, storeVars
<1>4. CASE ExecuteStep(w) /\ ~ Begin(w)
  BY <1>0, <1>2, <1>4 DEF ExecuteStep, HandlerSucceeds, VerifierRejects,
         HandlerRaises, At, GoTo, FailureRoute, NoNewHolder, NoNewAttempt, busVars, storeVars
<1>5. CASE CompleteStep(w)
  BY <1>0, <1>2, <1>5 DEF CompleteStep, CompleteState, CompleteRow, CompleteResult, AckCompleted,
         At, GoTo, NoNewHolder, NoNewAttempt, busVars, storeVars
<1>6. CASE RetryStep(w) /\ ~ RetryRow(w)
  BY <1>0, <1>2, <1>6 DEF RetryStep, RetryState, RetryMark, AckRetried, At, GoTo,
         Release, NoNewHolder, NoNewAttempt, busVars, storeVars
<1>7. CASE DeadLetterStep(w) \/ DeadLetter(w)
  BY <1>0, <1>2, <1>7 DEF DeadLetterStep, DeadLetter, FailState, FailRow, FailResult, AckDead,
         At, GoTo, NoNewHolder, NoNewAttempt, busVars, storeVars
<1>8. CASE FaultStep(w)
  BY <1>0, <1>2, <1>8 DEF FaultStep, RaiseInTry, RaiseOutside, RaiseInDeadLetter, GoTo,
         FailureRoute, Release, NoNewHolder, NoNewAttempt, busVars, storeVars
<1>9. CASE PutBack(w)
  <2>1. PublishedOnce(Doing(w)) => job[w].attempt = attempt[Doing(w)]
    BY <1>0, <1>1, <1>9 DEF AttemptInv, Holds, PutBack, At
  <2>2. \A m \in Msg : PublishedOnce(m.task)' /\ queue'[m] > 0 => m.attempt = attempt'[m.task]
    BY <1>0, <1>1, <1>9, <2>1 DEF AttemptInv, PutBack, Enqueue, storeVars, PublishedOnce
  <2>3. ASSUME NEW v \in Worker, NEW t \in Task, PublishedOnce(t)', Holds(v, t)'
        PROVE  attempt'[t] = IF pc'[v] = "requeue" THEN job'[v].attempt + 1 ELSE job'[v].attempt
    <3>1. v # w /\ pc'[v] = pc[v] /\ job'[v] = job[v] /\ attempt' = attempt
      BY <1>0, <1>9, <2>3 DEF PutBack, Release, GoTo, Holds, storeVars
    <3> QED BY <2>3, <3>1 DEF AttemptInv, Holds, Doing, PublishedOnce
  <2> QED BY <1>0, <1>9, <2>2, <2>3 DEF AttemptInv, PutBack, storeVars
<1>10. CASE Requeue(w)
  <2>1. PublishedOnce(Doing(w)) => job[w].attempt + 1 = attempt[Doing(w)]
    BY <1>0, <1>1, <1>10 DEF AttemptInv, Holds, Requeue, At
  <2>2. \A m \in Msg : PublishedOnce(m.task)' /\ queue'[m] > 0 => m.attempt = attempt'[m.task]
    BY <1>0, <1>1, <1>10, <2>1 DEF AttemptInv, Requeue, Enqueue, storeVars, PublishedOnce
  <2>3. ASSUME NEW v \in Worker, NEW t \in Task, PublishedOnce(t)', Holds(v, t)'
        PROVE  attempt'[t] = IF pc'[v] = "requeue" THEN job'[v].attempt + 1 ELSE job'[v].attempt
    <3>1. v # w /\ pc'[v] = pc[v] /\ job' = job /\ attempt' = attempt
      BY <1>0, <1>10, <2>3 DEF Requeue, GoTo, Holds, storeVars
    <3> QED BY <2>3, <3>1 DEF AttemptInv, Holds, Doing, PublishedOnce
  <2> QED BY <1>0, <1>10, <2>2, <2>3 DEF AttemptInv, Requeue, storeVars
<1>11. CASE Begin(w)
  <2>1. PublishedOnce(Doing(w)) => job[w].attempt = attempt[Doing(w)]
    BY <1>0, <1>1, <1>11 DEF AttemptInv, Holds, Begin, At
  <2>2. \A t \in Task : PublishedOnce(t) => attempt'[t] = attempt[t]
    BY <1>0, <1>1, <1>11, <2>1 DEF Begin
  <2>3. \A m \in Msg : PublishedOnce(m.task)' /\ queue'[m] > 0 => m.attempt = attempt'[m.task]
    BY <1>11, <2>2, MsgParts DEF AttemptInv, Begin, busVars, PublishedOnce
  <2>4. ASSUME NEW v \in Worker, NEW t \in Task, PublishedOnce(t)', Holds(v, t)'
        PROVE  attempt'[t] = IF pc'[v] = "requeue" THEN job'[v].attempt + 1 ELSE job'[v].attempt
    <3>1. PublishedOnce(t) /\ Holds(v, t) /\ (pc'[v] = "requeue" <=> pc[v] = "requeue") /\ job' = job
      BY <1>0, <1>11, <2>4 DEF Begin, At, GoTo, Holds, Doing, PublishedOnce
    <3> QED BY <2>2, <3>1 DEF AttemptInv
  <2>5. AttemptInv'
    BY <2>3, <2>4 DEF AttemptInv
  <2> QED BY <1>0, <2>2, <2>5
<1>12. CASE RetryRow(w)
  <2>0. Holds(w, Doing(w)) /\ queue' = queue /\ job' = job
    BY <1>0, <1>12 DEF RetryRow, At, Holds, busVars
  <2>1. PublishedOnce(Doing(w)) => job[w].attempt = attempt[Doing(w)]
    BY <1>0, <1>1, <1>12, <2>0 DEF AttemptInv, RetryRow, At
  <2>2. /\ attempt'[Doing(w)] = job[w].attempt + 1
        /\ \A t \in Task \ {Doing(w)} : attempt'[t] = attempt[t]
    BY <1>0, <1>1, <1>12 DEF RetryRow
  <2>3. ASSUME NEW m \in Msg, PublishedOnce(m.task)', queue'[m] > 0
        PROVE  m.attempt = attempt'[m.task]
    <3>1. m.task # Doing(w)
      BY <2>0, <2>3 DEF TokenInv, MessageOrHolder, PublishedOnce
    <3> QED BY <2>0, <2>2, <2>3, <3>1, MsgParts DEF AttemptInv, PublishedOnce
  <2>4. ASSUME NEW v \in Worker, NEW t \in Task, PublishedOnce(t)', Holds(v, t)'
        PROVE  attempt'[t] = IF pc'[v] = "requeue" THEN job'[v].attempt + 1 ELSE job'[v].attempt
    <3>1. CASE v = w
      BY <1>0, <1>12, <2>0, <2>2, <2>4, <3>1 DEF RetryRow, GoTo, Holds, Doing
    <3>2. CASE v # w
      <4>1. PublishedOnce(t) /\ Holds(v, t) /\ pc'[v] = pc[v]
        BY <1>0, <1>12, <2>0, <2>4, <3>2 DEF RetryRow, GoTo, Holds, Doing, PublishedOnce
      <4>2. t # Doing(w)
        BY <2>0, <3>2, <4>1 DEF TokenInv, OneHolder
      <4> QED BY <2>0, <2>2, <4>1, <4>2 DEF AttemptInv
    <3> QED BY <3>1, <3>2
  <2>5. AttemptInv'
    BY <2>3, <2>4 DEF AttemptInv
  <2>6. \A t \in Task : PublishedOnce(t) => attempt'[t] >= attempt[t]
    BY <1>0, <1>1, <2>1, <2>2
  <2> QED BY <2>5, <2>6
<1> QED BY <1>3, <1>4, <1>5, <1>6, <1>7, <1>8, <1>9, <1>10, <1>11, <1>12
        DEF Work, Fault, WorkerStep, ProcessStep, ExecuteStep, RetryStep

(* Taking a message keeps its attempt.                                     *)
LEMMA FetchAttempts ==
  ASSUME TypeOK, AttemptInv, NEW w \in Worker, NEW m \in Msg, Fetch(w, m)
  PROVE  AttemptInv' /\ UNCHANGED attempt
<1>0. /\ queue \in [Msg -> Nat] /\ queue[m] > 0 /\ queue' = [queue EXCEPT ![m] = @ - 1]
      /\ pc \in [Worker -> WorkerPC] /\ pc[w] = "idle" /\ pc' = [pc EXCEPT ![w] = "check"]
      /\ job \in [Worker -> Msg \cup {NoMsg}] /\ job' = [job EXCEPT ![w] = m]
      /\ attempt' = attempt
  BY DEF TypeOK, Fetch, At, GoTo, storeVars
<1>1. \A k \in Msg : queue'[k] > 0 => queue[k] > 0
  BY <1>0
<1>2. ASSUME NEW v \in Worker, NEW t \in Task, PublishedOnce(t)', Holds(v, t)'
      PROVE  attempt'[t] = IF pc'[v] = "requeue" THEN job'[v].attempt + 1 ELSE job'[v].attempt
  <2>1. CASE v = w
    BY <1>0, <1>2, <2>1 DEF AttemptInv, Holds, Doing, PublishedOnce
  <2>2. CASE v # w
    BY <1>0, <1>2, <2>2 DEF AttemptInv, Holds, Doing, PublishedOnce
  <2> QED BY <2>1, <2>2
<1> QED BY <1>0, <1>1, <1>2 DEF AttemptInv, PublishedOnce

(* The callbacks publish a task with the attempt of its row.               *)
LEMMA CallbackAttempts ==
  ASSUME TypeOK, AttemptInv, NEW w \in Worker,
         CallbackStep(w) \/ RaiseInOnDone(w) \/ RaiseInOnFail(w)
  PROVE  AttemptInv' /\ UNCHANGED attempt
<1>0. /\ pc[w] \notin {"idle", "retryAck", "requeue"} /\ attempt' = attempt
      /\ pc \in [Worker -> WorkerPC] /\ queue \in [Msg -> Nat]
      /\ job \in [Worker -> Msg \cup {NoMsg}]
  BY DEF TypeOK, CallbackStep, OnDone, OnFail, EndCallback, AdvanceTo, CascadeTo,
         RaiseInOnDone, RaiseInOnFail, At, storeVars
<1>1. CASE OnDone(w) \/ OnFail(w) \/ EndCallback(w)
  BY <1>0, <1>1, KeepAttempts DEF OnDone, OnFail, EndCallback, At, GoTo, Release, NoNewHolder,
         NoNewAttempt, busVars
<1>2. ASSUME NEW t \in Task, CascadeTo(w, t) PROVE AttemptInv'
  BY <1>0, <1>2, KeepAttempts DEF CascadeTo, At, GoTo, NoNewHolder, NoNewAttempt, busVars
<1>3. CASE RaiseInOnDone(w) \/ RaiseInOnFail(w)
  BY <1>0, <1>3, KeepAttempts DEF RaiseInOnDone, RaiseInOnFail, At, GoTo, Release, FailureRoute,
         NoNewHolder, NoNewAttempt, busVars
<1>4. ASSUME NEW t \in Task, AdvanceTo(w, t) PROVE AttemptInv'
  <2>1. NoNewHolder /\ NoNewAttempt
    BY <1>0, <1>4 DEF AdvanceTo, workVars, NoNewHolder, NoNewAttempt
  <2>2. \A m \in Msg : queue'[m] > 0 => queue[m] > 0 \/ m.attempt = attempt[m.task]
    BY <1>0, <1>4 DEF AdvanceTo, Publish, Enqueue
  <2> QED BY <2>1, <2>2, KeepAttempts
<1> QED BY <1>0, <1>1, <1>2, <1>3, <1>4 DEF CallbackStep

(* So does the main thread.                                                *)
LEMMA MainAttempts ==
  ASSUME TypeOK, AttemptInv, MainStep \/ Deadline
  PROVE  AttemptInv' /\ UNCHANGED attempt
<1>0. NoNewHolder /\ NoNewAttempt /\ queue \in [Msg -> Nat]
  BY DEF TypeOK, MainStep, DispatchRoot, PublishRoot, AllResolved, CountRows, Report, Deadline, wvars,
         storeVars, workVars, NoNewHolder, NoNewAttempt
<1>1. \A m \in Msg : queue'[m] > 0 => queue[m] > 0 \/ m.attempt = attempt[m.task]
  BY <1>0 DEF MainStep, DispatchRoot, PublishRoot, AllResolved, CountRows, Report, Deadline, wvars, busVars,
         Publish, Enqueue
<1> QED BY <1>0, <1>1, KeepAttempts DEF NoNewAttempt

(* The attempts of tasks that are published once stay in step, and grow.   *)
LEMMA NextAttempts ==
  ASSUME RunTypeOK, TokenInv, AttemptInv, [Next]_vars
  PROVE  /\ AttemptInv'
         /\ \A t \in Task : PublishedOnce(t) => attempt'[t] >= attempt[t]
<1>0. TypeOK /\ attempt \in [Task -> 1..MaxAttempts]
  BY DEF RunTypeOK, TypeOK
<1>1. CASE MainStep \/ Deadline
  BY <1>0, <1>1, MainAttempts
<1>2. ASSUME NEW w \in Worker, Poll(w)
      PROVE  AttemptInv' /\ UNCHANGED attempt
  BY <1>0, <1>2, FetchAttempts DEF Poll
<1>3. ASSUME NEW w \in Worker, Work(w) \/ Fault(w)
      PROVE  AttemptInv' /\ \A t \in Task : PublishedOnce(t) => attempt'[t] >= attempt[t]
  BY <1>0, <1>3, WorkAttempts
<1>4. ASSUME NEW w \in Worker, CallbackStep(w) \/ RaiseInOnDone(w) \/ RaiseInOnFail(w)
      PROVE  AttemptInv' /\ UNCHANGED attempt
  BY <1>0, <1>4, CallbackAttempts
<1>5. ASSUME UNCHANGED vars PROVE AttemptInv' /\ UNCHANGED attempt
  BY <1>5 DEF vars, wvars, runVars, storeVars, busVars, workVars, AttemptInv, PublishedOnce,
              Holds, Doing
<1>6. UNCHANGED attempt => \A t \in Task : attempt'[t] >= attempt[t]
  BY <1>0
<1> QED BY <1>1, <1>2, <1>3, <1>4, <1>5, <1>6 DEF Next

(* Every row starts with attempt 1 and no message waits.                   *)
LEMMA InitAttempts == Init => AttemptInv
BY DEF Init, WorkerInit, AttemptInv, Holds

(* In a graph with one source no row's attempt number ever goes back, even *)
(* when store calls raise, so RetryPolicy.should_retry (retry.py:86) cuts  *)
(* every task off after max_attempts executions.                           *)
THEOREM RetryBudgetSpentOnce ==
  ASSUME SingleSource
  PROVE  Spec => AttemptsMoveForward
<1>1. Init => RunTypeOK /\ TokenInv /\ AttemptInv
  BY InitTypeOK, InitTokens, InitAttempts
<1>2. RunTypeOK /\ TokenInv /\ AttemptInv /\ [Next]_vars
        => /\ (RunTypeOK /\ TokenInv /\ AttemptInv)'
           /\ [\A t \in Task : attempt'[t] >= attempt[t]]_vars
  BY NextTypeOK, NextTokens, NextAttempts DEF SingleSource
<1> QED BY <1>1, <1>2, PTL DEF Spec, AttemptsMoveForward
-----------------------------------------------------------------------------
(* Results before dependents, for every graph and every number of faults.  *)

(* No step takes a result away.                                            *)
LEMMA ResultsStay ==
  ASSUME RunTypeOK, [Next]_vars, NEW t \in Task
  PROVE  results[t] \subseteq results'[t]
<1>0. results \in [Task -> SUBSET {"completed", "failed"}]
  BY DEF RunTypeOK, TypeOK
<1>1. CASE MainStep \/ Deadline
  BY <1>1 DEF MainStep, DispatchRoot, PublishRoot, AllResolved, CountRows, Report, Deadline, wvars,
              storeVars
<1>2. ASSUME NEW w \in Worker, Poll(w) PROVE results' = results
  BY <1>2 DEF Poll, Fetch, storeVars
<1>3. ASSUME NEW w \in Worker, Work(w) PROVE results[t] \subseteq results'[t]
  <2>1. \/ results' = results
        \/ \E x \in Task : \E s : results' = [results EXCEPT ![x] = @ \cup {s}]
    <3>1. CASE CompleteResult(w)
      <4>1. Doing(w) \in Task
        BY <3>1, MsgParts DEF CompleteResult, At, RunTypeOK, TypeOK, Doing
      <4> QED BY <3>1, <4>1 DEF CompleteResult
    <3>2. CASE FailResult(w)
      <4>1. target[w] \in Task
        BY <3>2 DEF FailResult, At, RunTypeOK, TypeOK
      <4> QED BY <3>2, <4>1 DEF FailResult
    <3>3. CASE ProcessStep(w) \/ ExecuteStep(w)
      BY <3>3 DEF ProcessStep, SkipCompleted, Admit, Refuse, PutBack, Claim, LoseClaim, MarkRunning,
         ExecuteStep, Begin, HandlerSucceeds, VerifierRejects, HandlerRaises, storeVars
    <3>4. CASE CompleteState(w) \/ CompleteRow(w) \/ AckCompleted(w) \/ RetryStep(w) \/ Requeue(w)
      BY <3>4 DEF CompleteState, CompleteRow, AckCompleted, RetryStep, RetryState, RetryMark,
         RetryRow, AckRetried, Requeue, storeVars
    <3>5. CASE FailState(w) \/ FailRow(w) \/ AckDead(w) \/ DeadLetter(w)
      BY <3>5 DEF FailState, FailRow, AckDead, DeadLetter, storeVars
    <3> QED BY <1>3, <3>1, <3>2, <3>3, <3>4, <3>5 DEF Work, WorkerStep, CompleteStep, DeadLetterStep
  <2> QED BY <1>0, <2>1
<1>4. ASSUME NEW w \in Worker, CallbackStep(w) \/ Fault(w) \/ RaiseInOnDone(w) \/ RaiseInOnFail(w)
      PROVE  results' = results
  BY <1>4 DEF CallbackStep, OnDone, OnFail, EndCallback, AdvanceTo, CascadeTo, Fault, FaultStep,
     RaiseInTry, RaiseOutside, RaiseInDeadLetter, RaiseInOnDone, RaiseInOnFail, storeVars
<1>5. CASE UNCHANGED vars
  BY <1>5 DEF vars, wvars, storeVars
<1> QED BY <1>1, <1>2, <1>3, <1>4, <1>5 DEF Next

(* A worker that is in no callback gets to mark_completed's last commit    *)
(* only by making it.                                                      *)
LEMMA WorkLabels ==
  ASSUME RunTypeOK, NEW w \in Worker, Poll(w) \/ Work(w) \/ Fault(w)
  PROVE  \A v \in Worker :
           /\ pc'[v] # "advance" \/ pc[v] = "advance"
           /\ pc'[v] \in {"doneAck", "onDone"} =>
                \/ pc[v] \in {"doneAck", "onDone"} /\ job'[v] = job[v]
                \/ v = w /\ CompleteResult(w)
<1>0. pc \in [Worker -> WorkerPC] /\ job \in [Worker -> Msg \cup {NoMsg}]
  BY DEF RunTypeOK, TypeOK
<1>1. CASE Poll(w) \/ Fault(w)
  BY <1>0, <1>1 DEF Poll, Fetch, Fault, FaultStep, RaiseInTry, RaiseOutside, RaiseInDeadLetter,
     GoTo, Release, FailureRoute
<1>2. CASE ProcessStep(w) \/ ExecuteStep(w)
  BY <1>0, <1>2 DEF ProcessStep, SkipCompleted, Admit, Refuse, PutBack, Claim, LoseClaim,
     MarkRunning, ExecuteStep, Begin, HandlerSucceeds, VerifierRejects, HandlerRaises, GoTo, Release,
     FailureRoute
<1>3. CASE CompleteStep(w)
  BY <1>0, <1>3 DEF CompleteStep, CompleteState, CompleteRow, CompleteResult, AckCompleted, At, GoTo
<1>4. CASE RetryStep(w) \/ Requeue(w) \/ DeadLetter(w)
  BY <1>0, <1>4 DEF RetryStep, RetryState, RetryMark, RetryRow, AckRetried, Requeue, DeadLetter,
     GoTo, Release
<1>5. CASE DeadLetterStep(w)
  BY <1>0, <1>5 DEF DeadLetterStep, FailState, FailRow, FailResult, AckDead, GoTo
<1> QED BY <1>1, <1>2, <1>3, <1>4, <1>5 DEF Work, WorkerStep

(* So a worker keeps ResultsInv.                                           *)
LEMMA WorkResults ==
  ASSUME RunTypeOK, ResultsInv, NEW w \in Worker, Poll(w) \/ Work(w) \/ Fault(w)
  PROVE  ResultsInv'
<1>0. UNCHANGED <<dag, dispatched, todo>>
  BY DEF Poll, Work, Fault, runVars
<1>1. \A t \in Task : HasResult(t) => HasResult(t)'
  BY ResultsStay DEF Next, HasResult
<1>2. ASSUME CompleteResult(w) PROVE HasResult(Doing(w))' /\ job' = job
  BY <1>2, MsgParts DEF CompleteResult, At, RunTypeOK, TypeOK, Doing, HasResult
<1>3. \A v \in Worker : pc'[v] \in {"doneAck", "onDone"} => HasResult(Doing(v))'
  <2> SUFFICES ASSUME NEW v \in Worker, pc'[v] \in {"doneAck", "onDone"}
               PROVE  HasResult(Doing(v))'
    OBVIOUS
  <2>1. CASE pc[v] \in {"doneAck", "onDone"} /\ job'[v] = job[v]
    <3>1. Doing(v) \in Task /\ Doing(v)' = Doing(v)
      BY <2>1, MsgParts DEF RunTypeOK, TypeOK, Doing
    <3> QED BY <1>1, <2>1, <3>1 DEF ResultsInv, HasResult
  <2>2. CASE v = w /\ CompleteResult(w)
    BY <1>2, <2>2
  <2> QED BY <2>1, <2>2, WorkLabels
<1>4. \A t \in dispatched : \A d \in Deps[t] : HasResult(d)'
  BY <1>1, GraphAssumption DEF ResultsInv, RunTypeOK
<1>5. \A v \in Worker : pc'[v] = "advance" => \A t \in todo[v] : \A d \in Deps[t] : HasResult(d)'
  BY <1>1, WorkLabels, GraphAssumption DEF ResultsInv, RunTypeOK
<1> QED BY <1>0, <1>1, <1>3, <1>4, <1>5 DEF ResultsInv

(* on_done enters in the DAG what has its result, and looks at tasks whose *)
(* dependencies the DAG has as completed.                                  *)
LEMMA CallbackResults ==
  ASSUME RunTypeOK, ResultsInv, NEW w \in Worker,
         CallbackStep(w) \/ RaiseInOnDone(w) \/ RaiseInOnFail(w)
  PROVE  ResultsInv'
<1>0. /\ results' = results /\ job[w] \in Msg /\ Doing(w) \in Task
      /\ pc \in [Worker -> WorkerPC] /\ job \in [Worker -> Msg \cup {NoMsg}]
      /\ dag \in [Task -> {"pending", "completed", "failed"}]
      /\ todo \in [Worker -> SUBSET Task] /\ dispatched \subseteq Task
  <2>1. results' = results /\ pc[w] # "idle"
    BY DEF CallbackStep, OnDone, OnFail, EndCallback, AdvanceTo, CascadeTo, RaiseInOnDone,
       RaiseInOnFail, storeVars, At
  <2> QED BY <2>1, MsgParts DEF RunTypeOK, TypeOK, Doing
<1>1. \A t : HasResult(t)' = HasResult(t)
  BY <1>0 DEF HasResult
<1>2. ASSUME dag'[Doing(w)] = "completed" => HasResult(Doing(w)),
             \A t \in Task \ {Doing(w)} : dag'[t] = "completed" => dag[t] = "completed",
             \A t \in dispatched' : t \in dispatched \/ (pc[w] = "advance" /\ t \in todo[w]),
             \A v \in Worker : pc'[v] \in {"doneAck", "onDone"} => pc'[v] = pc[v] /\ job'[v] = job[v],
             \A v \in Worker : pc'[v] = "advance" =>
               \/ pc[v] = "advance" /\ todo'[v] \subseteq todo[v]
               \/ \A t \in todo'[v] : \A d \in Deps[t] : HasResult(d)
      PROVE  ResultsInv'
  <2>1. \A t \in Task : dag'[t] = "completed" => HasResult(t)
    BY <1>2 DEF ResultsInv
  <2>2. \A t \in dispatched' : \A d \in Deps[t] : HasResult(d)
    BY <1>2 DEF ResultsInv
  <2>3. \A v \in Worker : pc'[v] \in {"doneAck", "onDone"} => HasResult(Doing(v))'
    BY <1>1, <1>2 DEF ResultsInv, HasResult, Doing
  <2>4. \A v \in Worker : pc'[v] = "advance" => \A t \in todo'[v] : \A d \in Deps[t] : HasResult(d)
    BY <1>2 DEF ResultsInv
  <2> QED BY <1>1, <2>1, <2>2, <2>3, <2>4 DEF ResultsInv
<1>3. CASE OnDone(w)
  <2>1. HasResult(Doing(w))
    BY <1>3 DEF ResultsInv, OnDone, At
  <2>2. /\ dag' = [dag EXCEPT ![Doing(w)] = "completed"] /\ dispatched' = dispatched /\ job' = job
        /\ pc' = [pc EXCEPT ![w] = "advance"] /\ todo' = [todo EXCEPT ![w] = ReadyTasks(dag')]
    BY <1>3 DEF OnDone, GoTo
  <2>3. \A t \in Task : dag'[t] = "completed" => HasResult(t)
    BY <1>0, <2>1, <2>2 DEF ResultsInv
  <2>4. \A t \in todo'[w] : \A d \in Deps[t] : HasResult(d)
    BY <1>0, <2>2, <2>3, GraphAssumption DEF ReadyTasks
  <2>5. \A v \in Worker \ {w} : pc'[v] = pc[v] /\ todo'[v] = todo[v]
    BY <1>0, <2>2
  <2> QED BY <1>0, <1>2, <2>1, <2>2, <2>4, <2>5
<1>4. CASE OnFail(w) \/ RaiseInOnFail(w) \/ EndCallback(w)
  BY <1>0, <1>2, <1>4 DEF ResultsInv, OnFail, RaiseInOnFail, EndCallback, GoTo, Release
<1>5. ASSUME NEW t \in Task, CascadeTo(w, t) PROVE ResultsInv'
  BY <1>0, <1>2, <1>5 DEF ResultsInv, CascadeTo, GoTo, At
<1>6. ASSUME NEW t \in Task, AdvanceTo(w, t) PROVE ResultsInv'
  <2>1. /\ pc' = pc /\ job' = job /\ dag' = dag /\ todo' = [todo EXCEPT ![w] = @ \ {t}]
        /\ dispatched' \subseteq dispatched \cup {t} /\ pc[w] = "advance" /\ t \in todo[w]
    BY <1>6 DEF AdvanceTo, workVars, At
  <2>2. \A v \in Worker : todo'[v] \subseteq todo[v]
    BY <1>0, <2>1
  <2>3. dag[Doing(w)] = "completed" => HasResult(Doing(w))
    BY <1>0 DEF ResultsInv
  <2> QED BY <1>2, <2>1, <2>2, <2>3
<1>7. CASE RaiseInOnDone(w)
  <2>1. /\ job' = job /\ \E label \in {"retry", "dead"} : pc' = [pc EXCEPT ![w] = label]
        /\ todo' = [todo EXCEPT ![w] = {}]
    BY <1>7 DEF RaiseInOnDone, GoTo, FailureRoute
  <2>2. \A v \in Worker : todo'[v] \subseteq todo[v]
    BY <1>0, <2>1
  <2>3. \A v \in Worker : pc'[v] \in {"doneAck", "onDone", "advance"} => pc'[v] = pc[v]
    BY <1>0, <2>1
  <2>4. CASE At(w, "onDone")
    <3>1. HasResult(Doing(w)) /\ dag' = [dag EXCEPT ![Doing(w)] = "completed"]
          /\ dispatched' = dispatched
      BY <1>7, <2>4 DEF ResultsInv, RaiseInOnDone, At
    <3> QED BY <1>0, <1>2, <2>1, <2>2, <2>3, <3>1
  <2>5. CASE At(w, "advance")
    <3>1. dag' = dag /\ \A t \in dispatched' : t \in dispatched \/ t \in todo[w]
      BY <1>7, <2>5 DEF RaiseInOnDone, At
    <3>2. dag[Doing(w)] = "completed" => HasResult(Doing(w))
      BY <1>0 DEF ResultsInv
    <3> QED BY <1>2, <2>1, <2>2, <2>3, <2>5, <3>1, <3>2 DEF At
  <2> QED BY <1>7, <2>4, <2>5 DEF RaiseInOnDone
<1> QED BY <1>3, <1>4, <1>5, <1>6, <1>7 DEF CallbackStep

(* So no step lets a task be dispatched before its dependencies have their *)
(* results; what the main thread publishes has none.                       *)
LEMMA NextResults ==
  ASSUME RunTypeOK, TokenInv, ResultsInv, [Next]_vars
  PROVE  ResultsInv'
<1>1. CASE MainStep \/ Deadline
  <2>1. /\ UNCHANGED <<results, dag, todo, pc, job>>
        /\ \A t \in dispatched' : t \in dispatched \/ t \in roots
    BY <1>1 DEF MainStep, DispatchRoot, PublishRoot, AllResolved, CountRows, Report, Deadline, wvars,
       storeVars, workVars
  <2>2. \A t \in dispatched' : t \in dispatched \/ Deps[t] = {}
    BY <2>1 DEF TokenInv, RootsLeft, Roots
  <2> QED BY <2>1, <2>2 DEF ResultsInv, HasResult, Doing
<1>2. ASSUME NEW w \in Worker, Poll(w) \/ Work(w) \/ Fault(w) PROVE ResultsInv'
  BY <1>2, WorkResults
<1>3. ASSUME NEW w \in Worker, CallbackStep(w) \/ RaiseInOnDone(w) \/ RaiseInOnFail(w)
      PROVE  ResultsInv'
  BY <1>3, CallbackResults
<1>4. CASE UNCHANGED vars
  BY <1>4 DEF vars, wvars, runVars, storeVars, workVars, ResultsInv, HasResult, Doing
<1> QED BY <1>1, <1>2, <1>3, <1>4 DEF Next

(* Before the first publish there is nothing to check.                     *)
LEMMA InitResults == Init => ResultsInv
BY DEF Init, WorkerInit, ResultsInv

(* A worker executes a task only when all its dependencies have their      *)
(* results (TaskDAG.ready_tasks, dag.py:12), in every graph, with any      *)
(* number of roots, workers and attempts, and whatever store calls raise:  *)
(* on_done is not reached before mark_completed has made its last commit.  *)
THEOREM ResultsComeFirst == Spec => []ResultsFirst
<1>1. Init => RunTypeOK /\ TokenInv /\ ResultsInv
  BY InitTypeOK, InitTokens, InitResults
<1>2. (RunTypeOK /\ TokenInv /\ ResultsInv) /\ [Next]_vars => (RunTypeOK /\ TokenInv /\ ResultsInv)'
  BY NextTypeOK, NextTokens, NextResults
<1>3. TokenInv /\ ResultsInv => ResultsFirst
  BY DEF TokenInv, OnlyDispatched, ResultsInv, HasResult, ResultsFirst, Executes, ClaimHeld
<1> QED BY <1>1, <1>2, <1>3, PTL DEF Spec
=============================================================================
