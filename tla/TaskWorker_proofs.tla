------------------------- MODULE TaskWorker_proofs -------------------------
(***************************************************************************)
(* Type correctness of the worker life cycle, for every set of tasks and   *)
(* workers and every bound on attempts.  The modules that compose workers  *)
(* with a dispatcher cite it.                                              *)
(***************************************************************************)
EXTENDS TaskWorker, TLAPS

(* A message names a task and an attempt within max_attempts.              *)
LEMMA MsgParts ==
  ASSUME NEW m \in Msg
  PROVE  m.task \in Task /\ m.attempt \in 1..MaxAttempts
BY DEF Msg

(* Fetching a message keeps the types.                                     *)
LEMMA FetchTypeOK ==
  ASSUME TypeOK, NEW w \in Worker, NEW m \in Msg, Fetch(w, m)
  PROVE  TypeOK'
BY DEF TypeOK, Fetch, At, GoTo, storeVars, WorkerPC, Retrying

(* So does every step of _process up to the claim.                         *)
LEMMA ProcessTypeOK ==
  ASSUME TypeOK, NEW w \in Worker, ProcessStep(w)
  PROVE  TypeOK'
<1>0. job[w] \in Msg
  BY DEF TypeOK, ProcessStep, SkipCompleted, Admit, Refuse, PutBack, Claim,
         LoseClaim, MarkRunning, At
<1>1. Doing(w) \in Task /\ job[w].attempt \in 1..MaxAttempts
  BY <1>0, MsgParts DEF Doing
<1>2. CASE SkipCompleted(w) \/ LoseClaim(w)
  BY <1>0, <1>2 DEF TypeOK, SkipCompleted, LoseClaim, Ack, Release, GoTo, storeVars,
                    WorkerPC, Retrying
<1>3. CASE Admit(w) \/ Refuse(w)
  BY <1>0, <1>3 DEF TypeOK, Admit, Refuse, Ack, GoTo, storeVars, busVars, WorkerPC, Retrying
<1>4. CASE PutBack(w)
  BY <1>0, <1>4 DEF TypeOK, PutBack, Enqueue, Release, GoTo, storeVars, WorkerPC, Retrying
<1>5. CASE Claim(w)
  BY <1>0, <1>1, <1>5 DEF TypeOK, Claim, SetState, GoTo, busVars, WorkerPC, TaskStatus, Retrying
<1>6. CASE MarkRunning(w)
  BY <1>0, <1>1, <1>6 DEF TypeOK, MarkRunning, SetRow, GoTo, busVars, WorkerPC, TaskStatus, Retrying
<1> QED BY <1>2, <1>3, <1>4, <1>5, <1>6 DEF ProcessStep

(* So does every step of _execute; FailureRoute retries within             *)
(* max_attempts.                                                           *)
LEMMA ExecuteTypeOK ==
  ASSUME TypeOK, NEW w \in Worker, ExecuteStep(w)
  PROVE  TypeOK'
<1>0. job[w] \in Msg
  BY DEF TypeOK, ExecuteStep, Begin, HandlerSucceeds, VerifierRejects, HandlerRaises, At
<1>1. Doing(w) \in Task /\ job[w].attempt \in 1..MaxAttempts
  BY <1>0, MsgParts DEF Doing
<1>2. CASE Begin(w) \/ HandlerSucceeds(w)
  BY <1>0, <1>1, <1>2 DEF TypeOK, Begin, HandlerSucceeds, SetState, GoTo, busVars,
                          WorkerPC, TaskStatus, Retrying
<1>3. CASE VerifierRejects(w) \/ HandlerRaises(w)
  BY <1>0, <1>1, <1>3 DEF TypeOK, VerifierRejects, HandlerRaises, SetState, GoTo, busVars,
                          storeVars, FailureRoute, WorkerPC, TaskStatus, Retrying
<1> QED BY <1>2, <1>3 DEF ExecuteStep

(* So does every statement of mark_completed and the ack after it.         *)
LEMMA CompleteTypeOK ==
  ASSUME TypeOK, NEW w \in Worker, CompleteStep(w)
  PROVE  TypeOK'
<1>0. job[w] \in Msg
  BY DEF TypeOK, CompleteStep, CompleteState, CompleteRow, CompleteResult, AckCompleted, At
<1>1. Doing(w) \in Task
  BY <1>0, MsgParts DEF Doing
<1>2. CASE CompleteState(w) \/ CompleteRow(w)
  BY <1>0, <1>1, <1>2 DEF TypeOK, CompleteState, CompleteRow, SetState, SetRow, GoTo,
                          busVars, WorkerPC, TaskStatus, Retrying
<1>3. CASE CompleteResult(w)
  BY <1>0, <1>1, <1>3 DEF TypeOK, CompleteResult, GoTo, busVars, WorkerPC, Retrying
<1>4. CASE AckCompleted(w)
  BY <1>0, <1>4 DEF TypeOK, AckCompleted, Ack, GoTo, storeVars, WorkerPC, Retrying
<1> QED BY <1>2, <1>3, <1>4 DEF CompleteStep

(* So does every statement of the retry branch: the attempt it publishes   *)
(* is still within max_attempts.                                           *)
LEMMA RetryTypeOK ==
  ASSUME TypeOK, NEW w \in Worker, RetryStep(w) \/ Requeue(w)
  PROVE  TypeOK'
<1>0. job[w] \in Msg
  BY DEF TypeOK, RetryStep, RetryState, RetryMark, RetryRow, Requeue, AckRetried, At
<1>1. Doing(w) \in Task /\ job[w].attempt \in 1..MaxAttempts
  BY <1>0, MsgParts DEF Doing
<1>2. CASE RetryState(w) \/ RetryMark(w)
  BY <1>0, <1>1, <1>2 DEF TypeOK, RetryState, RetryMark, SetState, GoTo, At, busVars,
                          WorkerPC, TaskStatus, Retrying
<1>3. CASE RetryRow(w)
  <2>1. job[w].attempt + 1 \in 1..MaxAttempts
    BY <1>1, <1>3, WorkerAssumption DEF TypeOK, RetryRow, At, Retrying
  <2> QED BY <1>0, <1>1, <1>3, <2>1 DEF TypeOK, RetryRow, SetRow, GoTo, At, busVars,
                          WorkerPC, TaskStatus, Retrying
<1>4. CASE Requeue(w)
  <2>1. job[w].attempt + 1 \in 1..MaxAttempts
    BY <1>1, <1>4, WorkerAssumption DEF TypeOK, Requeue, At, Retrying
  <2>2. [task |-> Doing(w), attempt |-> job[w].attempt + 1] \in Msg
    BY <1>1, <2>1 DEF Msg
  <2> QED BY <1>0, <1>4, <2>2 DEF TypeOK, Requeue, Enqueue, GoTo, storeVars, WorkerPC, Retrying
<1>5. CASE AckRetried(w)
  BY <1>0, <1>5 DEF TypeOK, AckRetried, Ack, Release, GoTo, storeVars, WorkerPC, Retrying
<1> QED BY <1>2, <1>3, <1>4, <1>5 DEF RetryStep

(* So does every statement of the dead-letter branch.                      *)
LEMMA DeadLetterTypeOK ==
  ASSUME TypeOK, NEW w \in Worker, DeadLetterStep(w) \/ DeadLetter(w) \/ Unroutable(w)
  PROVE  TypeOK'
<1>0. job[w] \in Msg
  BY DEF TypeOK, DeadLetterStep, DeadLetter, Unroutable, FailState, FailRow, FailResult, AckDead, At
<1>1. Doing(w) \in Task
  BY <1>0, MsgParts DEF Doing
<1>2. CASE FailState(w) \/ FailRow(w)
  BY <1>0, <1>1, <1>2 DEF TypeOK, FailState, FailRow, SetState, SetRow, GoTo, At,
                          busVars, WorkerPC, TaskStatus, Retrying
<1>3. CASE FailResult(w)
  BY <1>0, <1>1, <1>3 DEF TypeOK, FailResult, GoTo, At, busVars, WorkerPC, Retrying
<1>4. CASE AckDead(w)
  BY <1>0, <1>4 DEF TypeOK, AckDead, Ack, GoTo, storeVars, WorkerPC, Retrying
<1>5. CASE DeadLetter(w) \/ Unroutable(w)
  BY <1>0, <1>1, <1>5 DEF TypeOK, DeadLetter, Unroutable, GoTo, storeVars, busVars, WorkerPC, Retrying
<1> QED BY <1>2, <1>3, <1>4, <1>5 DEF DeadLetterStep

(* So does a store call that raises, wherever it does.                     *)
LEMMA FaultTypeOK ==
  ASSUME TypeOK, NEW w \in Worker, FaultStep(w)
  PROVE  TypeOK'
<1>0. faults + 1 \in 0..MaxFaults
  BY WorkerAssumption DEF TypeOK, FaultStep, RaiseInTry, RaiseOutside, RaiseInDeadLetter
<1>1. job[w] \in Msg
  BY DEF TypeOK, FaultStep, RaiseInTry, RaiseOutside, RaiseInDeadLetter
<1>2. job[w].attempt \in 1..MaxAttempts
  BY <1>1, MsgParts
<1>3. CASE RaiseInTry(w)
  BY <1>0, <1>1, <1>2, <1>3 DEF TypeOK, RaiseInTry, FailureRoute, GoTo, storeVars, busVars,
                                WorkerPC, Retrying
<1>4. CASE RaiseOutside(w)
  BY <1>0, <1>4 DEF TypeOK, RaiseOutside, Release, GoTo, storeVars, busVars, WorkerPC, Retrying
<1>5. CASE RaiseInDeadLetter(w)
  BY <1>0, <1>1, <1>5 DEF TypeOK, RaiseInDeadLetter, GoTo, storeVars, busVars, WorkerPC, Retrying
<1> QED BY <1>3, <1>4, <1>5 DEF FaultStep

(* No step of a worker, with or without a store call that raises, breaks   *)
(* the types of the worker state.                                          *)
THEOREM WorkerTypeOK ==
  ASSUME TypeOK, NEW w \in Worker,
         \/ \E m \in Msg : Fetch(w, m)
         \/ WorkerStep(w) \/ Requeue(w) \/ DeadLetter(w) \/ Unroutable(w)
         \/ FaultStep(w)
  PROVE  TypeOK'
BY FetchTypeOK, ProcessTypeOK, ExecuteTypeOK, CompleteTypeOK, RetryTypeOK,
   DeadLetterTypeOK, FaultTypeOK DEF WorkerStep

(* The rows create_tasks writes, with idle workers and an empty bus.       *)
LEMMA WorkerInitTypeOK == WorkerInit => TypeOK
BY WorkerAssumption DEF WorkerInit, TypeOK, WorkerPC, TaskStatus, Retrying
=============================================================================
