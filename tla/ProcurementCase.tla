--------------------------- MODULE ProcurementCase ---------------------------
(***************************************************************************)
(* One procurement case: HermesRuntime.run_procurement creates the task,   *)
(* orchestrate takes it through the life cycle of TaskStore around one or  *)
(* two runs of the task graph, then asks for the purchase approval, which  *)
(* people resolve.  The graph run itself is WorkflowRun; here it either    *)
(* returns a recommendation or raises.                                     *)
(***************************************************************************)
EXTENDS Approvals

CONSTANTS
  RetryLimits,  \* the values of Task.max_retries
  AutoLabel     \* the resolver of an automatic approval

ASSUME CaseAssumption ==
  /\ RetryLimits \subseteq Nat
  /\ AutoLabel \in Resolver \ Authorized

VARIABLES
  limit,    \* tasks.max_retries
  auto,     \* HERMES_HITL_AUTO_APPROVE
  status,   \* tasks.status
  retries,  \* tasks.retries
  run,      \* where orchestrate is
  second    \* is this the second _exec?

caseVars == <<limit, auto, status, retries, run, second>>
vars     == <<approvalVars, caseVars>>

TaskStatus ==
  {"created", "queued", "running", "handoff", "retry", "completed", "failure", "failed"}

(* Fault: a handed-off task cannot fail.                                   *)
Allowed_NoHandoffFailure(from) ==
  CASE from = "created" -> {"queued"}
    [] from = "queued"  -> {"running"}
    [] from = "running" -> {"handoff", "failure", "completed"}
    [] from = "handoff" -> {"running", "completed"}
    [] from = "failure" -> {"retry", "failed"}
    [] from = "retry"   -> {"running", "failed"}
    [] OTHER            -> {}

(* ALLOWED_TRANSITIONS                                                     *)
Allowed(from) ==
  CASE from = "created" -> {"queued"}
    [] from = "queued"  -> {"running"}
    [] from = "running" -> {"handoff", "failure", "completed"}
    [] from = "handoff" -> {"running", "completed", "failure"}
    [] from = "failure" -> {"retry", "failed"}
    [] from = "retry"   -> {"running", "failed"}
    [] OTHER            -> {}

(* The status orchestrate asks for at each of its transitions, by label.   *)
Wanted ==
  [queue |-> "queued", start |-> "running", handoff |-> "handoff", join |-> "running",
   failure |-> "failure", retry |-> "retry", resume |-> "running",
   exhausted |-> "failed", complete |-> "completed"]

(* The labels inside the try block: the first or the second _exec.         *)
Exec == {"exec", "handoff", "join", "verify"}

RunPC ==
  DOMAIN Wanted \cup Exec \cup
  {"insert", "final", "request", "autoResolve", "autoStamp", "end", "raised"}

CaseTypeOK ==
  /\ ApprovalTypeOK
  /\ status \in TaskStatus
  /\ limit \in RetryLimits
  /\ auto \in BOOLEAN
  /\ retries \in 0..limit
  /\ run \in RunPC
  /\ second \in BOOLEAN

Init ==
  /\ ApprovalInit
  /\ limit \in RetryLimits
  /\ auto \in BOOLEAN
  /\ status = "created"
  /\ retries = 0
  /\ run = "insert"
  /\ second = FALSE

-----------------------------------------------------------------------------
RunAt(from, to) == run = from /\ run' = to

(* TaskStore.transition; an illegal one raises and changes nothing.        *)
Transition(label, next) ==
  /\ run = label
  /\ \/ /\ Wanted[label] \in Allowed(status)
        /\ status' = Wanted[label]
        /\ retries' = IF Wanted[label] = "retry" THEN retries + 1 ELSE retries
        /\ run' = next
     \/ /\ Wanted[label] \notin Allowed(status)
        /\ run' = IF label \in Exec THEN "failure" ELSE "raised"
        /\ UNCHANGED <<status, retries>>
  /\ UNCHANGED <<approvalVars, limit, auto, second>>

(* TaskStore.create and its automatic created -> queued                    *)
Insert ==
  /\ RunAt("insert", "queue")
  /\ UNCHANGED <<approvalVars, limit, auto, status, retries, second>>

Queue == Transition("queue", "start")
Start == Transition("start", "exec")

(* run_procurement_case completes ...                                      *)
GraphCompletes ==
  /\ RunAt("exec", "handoff")
  /\ UNCHANGED <<approvalVars, limit, auto, status, retries, second>>

(* ... or it does not, or any store call of _exec raises.                  *)
ExecRaises ==
  /\ run \in Exec
  /\ run' = "failure"
  /\ UNCHANGED <<approvalVars, limit, auto, status, retries, second>>

Handoff == Transition("handoff", "join")
Join    == Transition("join", "verify")

SaveVerified ==
  /\ RunAt("verify", "final")
  /\ result' = [status |-> "open", by |-> Nobody]
  /\ UNCHANGED <<row, keys, tap, call, reply, limit, auto, status, retries, second>>

(* One retry, if max_retries allows any.                                   *)
AfterFailure == IF ~ second /\ retries + 1 <= limit THEN "retry" ELSE "exhausted"

RecordFailure == Transition("failure", AfterFailure)
Retry         == Transition("retry", "resume")
Exhausted     == Transition("exhausted", "raised")

Resume ==
  /\ RunAt("resume", "exec")
  /\ "running" \in Allowed(status)
  /\ status' = "running"
  /\ second' = TRUE
  /\ UNCHANGED <<approvalVars, limit, auto, retries>>

SaveFinal ==
  /\ RunAt("final", "complete")
  /\ result' = [status |-> "open", by |-> Nobody]
  /\ UNCHANGED <<row, keys, tap, call, reply, limit, auto, status, retries, second>>

(* Fault: the approval is never requested.                                 *)
Complete_NoRequest == Transition("complete", "end")

Complete == Transition("complete", "request")

(* _request_approval                                                       *)
Request ==
  /\ RunAt("request", IF auto THEN "autoResolve" ELSE "end")
  /\ CreateApproval
  /\ UNCHANGED <<keys, tap, call, reply, result, limit, auto, status, retries, second>>

AutoResolve ==
  /\ RunAt("autoResolve", "autoStamp")
  /\ ResolveRow("APPROVED", AutoLabel)
  /\ UNCHANGED <<keys, tap, call, reply, result, limit, auto, status, retries, second>>

(* The stamp is skipped when the result is no JSON.                        *)
AutoStamp ==
  /\ RunAt("autoStamp", "end")
  /\ \/ result' = [status |-> "APPROVED", by |-> AutoLabel]
     \/ UNCHANGED result
  /\ UNCHANGED <<row, keys, tap, call, reply, limit, auto, status, retries, second>>

(* The process dies, or a store call outside the try raises.               *)
Die ==
  /\ run \notin {"end", "raised"}
  /\ run' = "raised"
  /\ UNCHANGED <<approvalVars, limit, auto, status, retries, second>>

RunStep ==
  \/ Insert \/ Queue \/ Start \/ GraphCompletes \/ ExecRaises \/ Handoff \/ Join
  \/ SaveVerified \/ RecordFailure \/ Retry \/ Resume \/ Exhausted \/ SaveFinal
  \/ Complete \/ Request \/ AutoResolve \/ AutoStamp

Next ==
  \/ RunStep
  \/ Die
  \/ \E p \in Tap : (StartCall(p) \/ ServeCall(p)) /\ UNCHANGED caseVars

Spec == Init /\ [][Next]_vars

(* The process that runs the case is scheduled, and so is every call of    *)
(* resolve_approval once somebody has made it.                             *)
Fairness ==
  /\ WF_vars(RunStep)
  /\ \A p \in Tap : WF_vars(ServeCall(p) /\ UNCHANGED caseVars)

FairSpec == Spec /\ Fairness

-----------------------------------------------------------------------------
(* A call nobody else competed with, and that the policy let through.      *)
Alone(p) ==
  /\ ~ auto
  /\ call[p] \in Call
  /\ \A q \in Tap \ {p} : tap[q] = "idle"
  /\ reply[p] # "refused"
  /\ Permitted(p)

(* orchestrate never asks TaskStore for a transition the life cycle of     *)
(* tasks/schemas.py forbids, wherever an _exec has raised.                 *)
NoIllegalTransition == run \in DOMAIN Wanted => Wanted[run] \in Allowed(status)

(* A case fails for good only after its one retry, if max_retries grants   *)
(* any (orchestrator/__init__.py:57).                                      *)
FailedAfterRetry == status = "failed" => retries = IF limit = 0 THEN 0 ELSE 1

(* A purchase is put up for approval only once its case is completed and   *)
(* its recommendation saved, and the case stays so (orchestrator:70).      *)
ApprovalOnlyWhenCompleted ==
  row.status # "none" => status = "completed" /\ result.status # "none"

(* Only a resolver the policy authorizes approves a purchase, in the       *)
(* approvals row and in the task's result (approval_bot.py:144).           *)
ApprovedByAuthority ==
  /\ row.status = "APPROVED" => row.by \in Authorized \/ (auto /\ row.by = AutoLabel)
  /\ result.status = "APPROVED" => result.by \in Authorized \/ (auto /\ result.by = AutoLabel)

(* The task's result shows a decision only after the approvals row does.   *)
StampAfterDecision == result.status \in Decision => row.status \in Decision

(* A call that nobody competed with leaves one decision in the row and in  *)
(* the reply (approval_bot.py:7); the result shows the same one, or is     *)
(* still the open recommendation, where the stamp has raised               *)
(* (approval_bot.py:216).                                                  *)
LoneDecisionAgrees ==
  \A p \in Tap : tap[p] \in {"done", "unstamped"} /\ Alone(p) =>
    /\ reply[p] = row.status /\ row.status = call[p].wants
    /\ result.status = IF tap[p] = "done" THEN row.status ELSE "open"

(* A rejected purchase is never approved, however calls interleave         *)
(* (hitl.py:91).                                                           *)
RejectionIsFinal == [][row.status = "REJECTED" => row'.status = "REJECTED"]_vars

(* The first decision stands (docs/RECRUITER-EVIDENCE.md:81).              *)
ResolvedOnce == [][row.status \in Decision => row' = row]_vars

(* A completed case is offered for approval, unless its process dies.      *)
CompletedIsOffered == status = "completed" ~> (row.status # "none" \/ run = "raised")
=============================================================================
