----------------------------- MODULE Resilience -----------------------------
(***************************************************************************)
(* Loop 6 of the engine for one task type: the CircuitBreaker that several *)
(* workers share when the caller of run_workflow passes one, the deadline  *)
(* of run_with_timeout and the time budget of CostTracker.  The messages   *)
(* themselves are TaskWorker; here a worker always finds another one.      *)
(***************************************************************************)
EXTENDS Naturals

CONSTANTS
  Callers,    \* the workers that share the breaker
  Threshold,  \* CircuitBreaker.threshold
  Cooldown    \* CircuitBreaker.cooldown, in ticks

ASSUME BreakerAssumption ==
  /\ Threshold \in Nat \ {0}
  /\ Cooldown \in Nat

VARIABLES
  failures,    \* _failures[task_type], counted up to Threshold
  opened,      \* task_type \in _opened_at
  openFor,     \* time since _opened_at, counted up to Cooldown
  probing,     \* task_type \in _probing
  call,        \* what each worker does with a message of the task type
  sinceFailure,\* time since the last record_failure, counted up to Cooldown
  healthy,     \* environment: does the service behind the handler answer?
  budgetOver   \* elapsed_seconds() >= max_time_seconds

breakerVars   == <<failures, opened, openFor, probing>>
resilienceVars == <<breakerVars, call, sinceFailure, healthy, budgetOver>>

(* A late handler stays overdue until it returns: the with-block of the    *)
(* pool waits for it.                                                      *)
Stage == {"idle", "admitted", "running", "overdue"}

ResilienceTypeOK ==
  /\ failures \in 0..Threshold
  /\ opened => failures = Threshold
  /\ probing => opened
  /\ openFor \in 0..Cooldown /\ sinceFailure \in 0..Cooldown
  /\ call \in [Callers -> Stage]
  /\ healthy \in BOOLEAN /\ budgetOver \in BOOLEAN

ResilienceInit ==
  /\ failures = 0 /\ opened = FALSE /\ openFor = 0 /\ probing = FALSE
  /\ call = [w \in Callers |-> "idle"]
  /\ sinceFailure = Cooldown
  /\ healthy = TRUE /\ budgetOver = FALSE

-----------------------------------------------------------------------------
Move(w, from, to) == call[w] = from /\ call' = [call EXCEPT ![w] = to]

(* Fault: a single probe, as the docstring says, and a refusal while one   *)
(* is out.                                                                 *)
Allow_OneProbe(w) ==
  /\ Move(w, "idle", "admitted")
  /\ opened => openFor = Cooldown /\ ~probing
  /\ probing' = (probing \/ opened)
  /\ UNCHANGED <<failures, opened, openFor, sinceFailure, healthy, budgetOver>>

(* allow; a refused message is put back and changes nothing here           *)
Allow(w) ==
  /\ Move(w, "idle", "admitted")
  /\ opened => openFor = Cooldown
  /\ probing' = (probing \/ opened)
  /\ UNCHANGED <<failures, opened, openFor, sinceFailure, healthy, budgetOver>>

RecordSuccess ==
  /\ failures' = 0 /\ opened' = FALSE /\ probing' = FALSE
  /\ UNCHANGED <<openFor, sinceFailure>>

(* Fault: only a probe or the failure that reaches the threshold opens.    *)
RecordFailure_OnlyOnce ==
  /\ failures' = IF failures < Threshold THEN failures + 1 ELSE failures
  /\ sinceFailure' = 0
  /\ IF probing \/ (failures' = Threshold /\ ~opened)
       THEN opened' = TRUE /\ openFor' = 0 /\ probing' = FALSE
       ELSE UNCHANGED <<opened, openFor, probing>>

RecordFailure ==
  /\ failures' = IF failures < Threshold THEN failures + 1 ELSE failures
  /\ sinceFailure' = 0
  /\ IF probing \/ failures' = Threshold
       THEN opened' = TRUE /\ openFor' = 0 /\ probing' = FALSE
       ELSE UNCHANGED <<opened, openFor, probing>>

(* mark_started is lost to another worker: nothing is recorded             *)
LoseAdmitted(w) ==
  /\ Move(w, "admitted", "idle")
  /\ UNCHANGED <<breakerVars, sinceFailure, healthy, budgetOver>>

(* the claim is won and exceeded() is asked before the handler starts      *)
BeginCall(w) ==
  /\ UNCHANGED <<healthy, budgetOver>>
  /\ \/ budgetOver /\ Move(w, "admitted", "idle") /\ RecordFailure
     \/ ~budgetOver /\ Move(w, "admitted", "running")
        /\ UNCHANGED <<breakerVars, sinceFailure>>

CallSucceeds(w) ==
  /\ healthy
  /\ Move(w, "running", "idle")
  /\ RecordSuccess
  /\ UNCHANGED <<healthy, budgetOver>>

(* the handler raises or the verifier rejects its result                   *)
CallFails(w) ==
  /\ ~healthy
  /\ Move(w, "running", "idle")
  /\ RecordFailure
  /\ UNCHANGED <<healthy, budgetOver>>

(* future.result times out ...                                             *)
DeadlinePasses(w) ==
  /\ ~healthy
  /\ Move(w, "running", "overdue")
  /\ UNCHANGED <<breakerVars, sinceFailure, healthy, budgetOver>>

(* ... and TaskTimeoutError leaves the with-block when the handler is done *)
LateReturn(w) ==
  /\ Move(w, "overdue", "idle")
  /\ RecordFailure
  /\ UNCHANGED <<healthy, budgetOver>>

AgeOf(t) == IF t < Cooldown THEN t + 1 ELSE t

BreakerTick ==
  /\ openFor' = AgeOf(openFor) /\ sinceFailure' = AgeOf(sinceFailure)
  /\ UNCHANGED <<failures, opened, probing, call, healthy, budgetOver>>

ServiceChanges ==
  /\ healthy' = ~healthy
  /\ UNCHANGED <<breakerVars, call, sinceFailure, budgetOver>>

TimeBudgetEnds ==
  /\ ~budgetOver
  /\ budgetOver' = TRUE
  /\ UNCHANGED <<breakerVars, call, sinceFailure, healthy>>

CallerStep(w) ==
  \/ Allow(w) \/ LoseAdmitted(w) \/ BeginCall(w) \/ CallSucceeds(w)
  \/ CallFails(w) \/ DeadlinePasses(w) \/ LateReturn(w)

ResilienceNext ==
  \/ \E w \in Callers : CallerStep(w)
  \/ BreakerTick \/ ServiceChanges \/ TimeBudgetEnds

ResilienceSpec == ResilienceInit /\ [][ResilienceNext]_resilienceVars

-----------------------------------------------------------------------------
(* reliability.py:48: while the breaker is open a worker is let through    *)
(* only when Cooldown has passed since the last failure that anybody has   *)
(* recorded, the failures of calls admitted before it opened included.     *)
CooldownRespected ==
  [][\A w \in Callers :
       opened /\ call[w] = "idle" /\ call'[w] = "admitted"
         => sinceFailure = Cooldown]_resilienceVars

(* reliability.py:53-57: once the service answers for good and the budget  *)
(* lasts, the breaker closes for good, whatever probes were let through    *)
(* and then lost their claim, and however late old calls report failures.  *)
BreakerRecovers == <>[](healthy /\ ~budgetOver) => <>[]~opened
=============================================================================
