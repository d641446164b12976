------------------------ MODULE ProcurementCase_proofs ------------------------
(***************************************************************************)
(* The safety of a procurement case for any number of resolving calls, any *)
(* resolvers and any retry limit.                                          *)
(***************************************************************************)
EXTENDS ProcurementCase, TLAPS

(* Where orchestrate is and the status it has left in the table.           *)
Phase ==
  /\ run \in {"insert", "queue"} => status = "created"
  /\ run = "start" => status = "queued"
  /\ run \in {"exec", "handoff", "verify", "final", "complete"} => status = "running"
  /\ run = "join" => status = "handoff"
  /\ run = "failure" => status \in {"running", "handoff"}
  /\ run \in {"retry", "exhausted"} => status = "failure"
  /\ run = "resume" => status = "retry"
  /\ run \in {"request", "autoResolve", "autoStamp", "end"} => status = "completed"

(* One retry at most, and only when the limit grants one.                  *)
Retried ==
  /\ second => retries = 1
  /\ ~ second /\ run \notin {"resume", "raised"} => retries = 0
  /\ run = "resume" => retries = 1
  /\ run = "retry" => ~ second /\ limit > 0
  /\ run = "exhausted" => second \/ limit = 0
  /\ status = "failed" => run = "raised" /\ retries = IF limit = 0 THEN 0 ELSE 1

(* The approvals row follows the case, and calls follow the row.           *)
Offered ==
  /\ run \notin {"autoResolve", "autoStamp", "end", "raised"} => row.status = "none"
  /\ run \in {"autoResolve", "autoStamp"} => row.status # "none" /\ auto
  /\ run = "autoStamp" => row.status \in Decision
  /\ run \in {"complete", "request"} \/ status = "completed" => result.status # "none"
  /\ row.status # "none" => status = "completed"
  /\ row.status = "none" => \A p \in Tap : tap[p] = "idle"

(* A call that has passed the policy was let through by it, and one that   *)
(* has passed the update found or left a decision; so has a used key.      *)
Passed ==
  /\ \A p \in Tap : tap[p] \in {"resolve", "reread", "key", "stamp"} => Permitted(p)
  /\ \A p \in Tap :
       tap[p] \in {"refuseKey", "reread", "key", "stamp", "answer"} => row.status \in Decision
  /\ keys # {} => row.status \in Decision

CaseInv ==
  CaseTypeOK /\ Phase /\ Retried /\ Offered /\ Passed
  /\ ApprovedByAuthority /\ StampAfterDecision

-----------------------------------------------------------------------------
(* Under the invariant every transition orchestrate asks for is legal.     *)
LEMMA Legal == CaseInv => NoIllegalTransition
<1> SUFFICES ASSUME CaseInv, run \in DOMAIN Wanted PROVE Wanted[run] \in Allowed(status)
  BY DEF NoIllegalTransition
<1>1. run \in {"queue", "start", "handoff", "join", "failure", "retry", "resume",
               "exhausted", "complete"}
  BY DEF Wanted
<1> QED BY <1>1 DEF CaseInv, Phase, Wanted, Allowed

(* A transition therefore always takes place, and counts a retry.          *)
LEMMA TransitionWorks ==
  ASSUME CaseInv, NEW label \in DOMAIN Wanted, NEW next, Transition(label, next)
  PROVE  /\ run = label /\ run' = next /\ status' = Wanted[label]
         /\ retries' = IF Wanted[label] = "retry" THEN retries + 1 ELSE retries
         /\ UNCHANGED <<row, keys, tap, call, reply, result, limit, auto, second>>
BY Legal DEF Transition, NoIllegalTransition, approvalVars

-----------------------------------------------------------------------------
(* The program counter of orchestrate has no other values than these.      *)
LEMMA Locations ==
  RunPC = {"queue", "start", "handoff", "join", "failure", "retry", "resume", "exhausted",
           "complete", "exec", "verify", "insert", "final", "request", "autoResolve",
           "autoStamp", "end", "raised"}
BY DEF RunPC, Wanted, Exec

(* The initial states satisfy the invariant.                               *)
LEMMA CaseInitial == Init => CaseInv
<1> SUFFICES ASSUME Init PROVE CaseInv
  OBVIOUS
<1> USE CaseAssumption, ApprovalAssumption DEF CaseAssumption, ApprovalAssumption, Init, ApprovalInit
<1>1. CaseTypeOK
  <2>1. ApprovalTypeOK
    BY DEF ApprovalTypeOK
  <2>2. status \in TaskStatus /\ limit \in RetryLimits /\ auto \in BOOLEAN /\ second \in BOOLEAN
    BY DEF TaskStatus
  <2>3. retries \in 0..limit /\ run \in RunPC
    BY <2>2, Locations
  <2> QED BY <2>1, <2>2, <2>3 DEF CaseTypeOK
<1>2. Phase /\ Offered /\ Passed
  BY DEF Phase, Offered, Passed
<1>4. Retried
  BY DEF Retried
<1>3. ApprovedByAuthority /\ StampAfterDecision
  BY DEF ApprovedByAuthority, StampAfterDecision, Decision
<1> QED BY <1>1, <1>2, <1>3, <1>4 DEF CaseInv

(* What the invariant says of the approval survives a step that leaves the *)
(* row, the calls and the result alone.                                    *)
LEMMA ApprovalFrame ==
  ASSUME CaseInv, UNCHANGED <<approvalVars, limit, auto>>
  PROVE  /\ ApprovalTypeOK' /\ limit' \in RetryLimits /\ auto' \in BOOLEAN
         /\ Passed' /\ ApprovedByAuthority' /\ StampAfterDecision'
<1> USE DEF CaseInv, approvalVars
<1>1. ApprovalTypeOK' /\ limit' \in RetryLimits /\ auto' \in BOOLEAN
  BY DEF CaseTypeOK, ApprovalTypeOK, Call
<1>2. Passed'
  BY DEF Passed, Permitted
<1>3. ApprovedByAuthority' /\ StampAfterDecision'
  BY DEF ApprovedByAuthority, StampAfterDecision
<1> QED BY <1>1, <1>2, <1>3

(* The life cycle, retry and offering facts survive every transition.      *)
LEMMA TransitionPreserves ==
  ASSUME CaseInv,
         \/ Queue \/ Start \/ Handoff \/ Join
         \/ RecordFailure \/ Retry \/ Exhausted \/ Complete
  PROVE  CaseInv'
<1> USE CaseAssumption DEF CaseAssumption
<1>1. UNCHANGED <<approvalVars, limit, auto, second>>
  BY DEF Queue, Start, Handoff, Join, RecordFailure, Retry, Exhausted, Complete, Transition
<1>2. /\ run \in DOMAIN Wanted /\ status' = Wanted[run]
      /\ retries' = IF Wanted[run] = "retry" THEN retries + 1 ELSE retries
  BY TransitionWorks
  DEF Queue, Start, Handoff, Join, RecordFailure, Retry, Exhausted, Complete, Wanted
<1>3. \/ run = "queue" /\ run' = "start" /\ status' = "queued" /\ retries' = retries
      \/ run = "start" /\ run' = "exec" /\ status' = "running" /\ retries' = retries
      \/ run = "handoff" /\ run' = "join" /\ status' = "handoff" /\ retries' = retries
      \/ run = "join" /\ run' = "verify" /\ status' = "running" /\ retries' = retries
      \/ run = "failure" /\ run' = AfterFailure /\ status' = "failure" /\ retries' = retries
      \/ run = "retry" /\ run' = "resume" /\ status' = "retry" /\ retries' = retries + 1
      \/ run = "exhausted" /\ run' = "raised" /\ status' = "failed" /\ retries' = retries
      \/ run = "complete" /\ run' = "request" /\ status' = "completed" /\ retries' = retries
  BY <1>2, TransitionWorks
  DEF Queue, Start, Handoff, Join, RecordFailure, Retry, Exhausted, Complete, Wanted
<1>4. limit \in Nat /\ retries \in 0..limit
  BY DEF CaseInv, CaseTypeOK
<1>5. status' \in TaskStatus /\ retries' \in 0..limit' /\ run' \in RunPC /\ second' \in BOOLEAN
  <2>1. status' \in TaskStatus
    BY <1>3 DEF TaskStatus
  <2>2. retries' \in 0..limit'
    BY <1>1, <1>3, <1>4 DEF CaseInv, Retried
  <2>3. run' \in RunPC
    BY <1>3, Locations DEF AfterFailure
  <2> QED BY <1>1, <2>1, <2>2, <2>3 DEF CaseInv, CaseTypeOK
<1>6. Phase'
  BY <1>3 DEF Phase, AfterFailure
<1>7. Retried'
  BY <1>1, <1>3, <1>4 DEF CaseInv, Phase, Retried, AfterFailure
<1>8. Offered'
  BY <1>1, <1>3 DEF CaseInv, Phase, Offered, AfterFailure, approvalVars
<1> QED BY <1>1, <1>5, <1>6, <1>7, <1>8, ApprovalFrame DEF CaseInv, CaseTypeOK

(* So they do every step of orchestrate that changes neither the status    *)
(* nor the approval.                                                       *)
LEMMA MovePreserves ==
  ASSUME CaseInv, Insert \/ GraphCompletes \/ ExecRaises \/ Resume \/ Die
  PROVE  CaseInv'
<1> USE CaseAssumption DEF CaseAssumption
<1>1. UNCHANGED <<approvalVars, limit, auto, retries>>
  BY DEF Insert, GraphCompletes, ExecRaises, Resume, Die
<1>2. \/ run = "insert" /\ run' = "queue" /\ UNCHANGED <<status, second>>
      \/ run = "exec" /\ run' = "handoff" /\ UNCHANGED <<status, second>>
      \/ run \in Exec /\ run' = "failure" /\ UNCHANGED <<status, second>>
      \/ run = "resume" /\ run' = "exec" /\ status' = "running" /\ second'
      \/ run \notin {"end", "raised"} /\ run' = "raised" /\ UNCHANGED <<status, second>>
  BY DEF Insert, GraphCompletes, ExecRaises, Resume, Die, RunAt
<1>3. limit \in Nat /\ retries \in 0..limit
  BY DEF CaseInv, CaseTypeOK
<1>4. status' \in TaskStatus /\ retries' \in 0..limit' /\ run' \in RunPC /\ second' \in BOOLEAN
  BY <1>1, <1>2, Locations DEF CaseInv, CaseTypeOK, TaskStatus, Insert, GraphCompletes, ExecRaises, Resume, Die
<1>5. Phase'
  BY <1>2 DEF CaseInv, Phase, Exec
<1>6. Retried'
  BY <1>1, <1>2, <1>3 DEF CaseInv, Phase, Retried, Exec
<1>7. Offered'
  BY <1>1, <1>2 DEF CaseInv, Phase, Offered, Exec, approvalVars
<1> QED BY <1>1, <1>4, <1>5, <1>6, <1>7, ApprovalFrame DEF CaseInv, CaseTypeOK

(* Saving a recommendation undoes no decision: none has been made yet.     *)
LEMMA SavePreserves ==
  ASSUME CaseInv, SaveVerified \/ SaveFinal
  PROVE  CaseInv'
<1>1. /\ result' = [status |-> "open", by |-> Nobody]
      /\ UNCHANGED <<row, keys, tap, call, reply, limit, auto, status, retries, second>>
      /\ \/ run = "verify" /\ run' = "final"
         \/ run = "final" /\ run' = "complete"
  BY DEF SaveVerified, SaveFinal, RunAt
<1>2. CaseTypeOK'
  <2>1. result' \in [status: {"none", "open"} \cup Decision, by: Resolver \cup {Nobody}]
    BY <1>1
  <2>2. ApprovalTypeOK'
    BY <1>1, <2>1 DEF CaseInv, CaseTypeOK, ApprovalTypeOK, Call
  <2>3. run' \in RunPC
    BY <1>1, Locations
  <2> QED BY <1>1, <2>2, <2>3 DEF CaseInv, CaseTypeOK
<1>3. Phase' /\ Retried'
  BY <1>1 DEF CaseInv, Phase, Retried
<1>4. Offered'
  BY <1>1 DEF CaseInv, Offered
<1>5. Passed'
  BY <1>1 DEF CaseInv, Passed, Permitted
<1>6. ApprovedByAuthority' /\ StampAfterDecision'
  BY <1>1 DEF CaseInv, ApprovedByAuthority, StampAfterDecision, Decision
<1> QED BY <1>2, <1>3, <1>4, <1>5, <1>6 DEF CaseInv

(* Offering the purchase creates the row, which auto-approval may resolve. *)
LEMMA OfferPreserves ==
  ASSUME CaseInv, Request \/ AutoResolve \/ AutoStamp
  PROVE  CaseInv'
<1> USE CaseAssumption DEF CaseAssumption
<1>1. UNCHANGED <<keys, tap, call, reply, limit, auto, status, retries, second>>
  BY DEF Request, AutoResolve, AutoStamp
<1>2. \/ /\ run = "request" /\ row' = [status |-> "PENDING", by |-> Nobody] /\ result' = result
         /\ run' = IF auto THEN "autoResolve" ELSE "end"
      \/ /\ run = "autoResolve" /\ run' = "autoStamp" /\ result' = result
         /\ row' = IF row.status = "PENDING" THEN [status |-> "APPROVED", by |-> AutoLabel] ELSE row
      \/ /\ run = "autoStamp" /\ run' = "end" /\ row' = row
         /\ result' = result \/ result' = [status |-> "APPROVED", by |-> AutoLabel]
  BY DEF Request, AutoResolve, AutoStamp, RunAt, CreateApproval, ResolveRow
<1>3. row \in [status: {"none", "PENDING"} \cup Decision, by: Resolver \cup {Nobody}]
  BY DEF CaseInv, CaseTypeOK, ApprovalTypeOK
<1>4. CaseTypeOK'
  <2>1. row' \in [status: {"none", "PENDING"} \cup Decision, by: Resolver \cup {Nobody}]
    BY <1>2, <1>3 DEF Decision
  <2>2. result' \in [status: {"none", "open"} \cup Decision, by: Resolver \cup {Nobody}]
    BY <1>2 DEF CaseInv, CaseTypeOK, ApprovalTypeOK, Decision
  <2>3. ApprovalTypeOK'
    BY <1>1, <2>1, <2>2 DEF CaseInv, CaseTypeOK, ApprovalTypeOK, Call
  <2>4. run' \in RunPC
    BY <1>2, Locations
  <2> QED BY <1>1, <2>3, <2>4 DEF CaseInv, CaseTypeOK
<1>5. Phase' /\ Retried'
  BY <1>1, <1>2 DEF CaseInv, Phase, Retried
<1>6. Offered'
  BY <1>1, <1>2, <1>3 DEF CaseInv, Phase, Offered, Decision
<1>7. Passed'
  BY <1>1, <1>2 DEF CaseInv, Offered, Passed, Permitted, Decision
<1>8. ApprovedByAuthority'
  BY <1>1, <1>2 DEF CaseInv, Offered, ApprovedByAuthority, Decision
<1>9. StampAfterDecision'
  BY <1>1, <1>2 DEF CaseInv, Offered, StampAfterDecision, Decision
<1> QED BY <1>4, <1>5, <1>6, <1>7, <1>8, <1>9 DEF CaseInv

-----------------------------------------------------------------------------
(* A call leaves the case alone and resolves only a row that exists.       *)
LEMMA CallPreserves ==
  ASSUME CaseInv, NEW p \in Tap, StartCall(p) \/ ServeCall(p), UNCHANGED caseVars
  PROVE  CaseInv'
<1> USE CaseAssumption, ApprovalAssumption DEF CaseAssumption, ApprovalAssumption
<1>0. UNCHANGED <<limit, auto, status, retries, run, second>>
  BY DEF caseVars
<1>1. /\ row \in [status: {"none", "PENDING"} \cup Decision, by: Resolver \cup {Nobody}]
      /\ result \in [status: {"none", "open"} \cup Decision, by: Resolver \cup {Nobody}]
      /\ tap \in [Tap -> {"idle", "read", "policy", "refuse", "refuseKey", "resolve",
                         "reread", "key", "stamp", "unstamped", "answer", "done"}]
      /\ call \in [Tap -> Call \cup {NoCall}]
      /\ tap[p] # "idle" => call[p] \in Call
  BY DEF CaseInv, CaseTypeOK, ApprovalTypeOK
<1>2. tap[p] # "idle" => call[p].who \in Resolver /\ call[p].wants \in Decision
  BY <1>1 DEF Call
<1>3. ASSUME NEW c \in Call, Press(p, c) \/ Forbid(p, c) PROVE CaseInv'
  <2>1. /\ tap[p] = "idle" /\ row.status # "none"
        /\ call' = [call EXCEPT ![p] = c]
        /\ UNCHANGED <<row, keys, result>>
        /\ tap' = [tap EXCEPT ![p] = "read"] \/ tap' = [tap EXCEPT ![p] = "done"]
    BY <1>3 DEF Press, Forbid, TapAt
  <2>2. reply' \in [Tap -> {"none", "refused"} \cup Decision]
    BY <1>3 DEF Press, Forbid, CaseInv, CaseTypeOK, ApprovalTypeOK
  <2>3. ApprovalTypeOK'
    BY <1>1, <2>1, <2>2 DEF CaseInv, CaseTypeOK, ApprovalTypeOK, Call
  <2>4. Passed'
    BY <1>1, <2>1 DEF CaseInv, Passed, Permitted
  <2> QED
    BY <1>0, <2>1, <2>3, <2>4
    DEF CaseInv, CaseTypeOK, Phase, Retried, Offered, ApprovedByAuthority, StampAfterDecision
<1>4. ASSUME ReadPending(p) \/ Evaluate(p) \/ StampLost(p) PROVE CaseInv'
  <2>1. UNCHANGED <<row, keys, call, reply, result>>
    BY <1>4 DEF ReadPending, Evaluate, StampLost
  <2>2. /\ tap[p] # "idle"
        /\ \/ tap' = [tap EXCEPT ![p] = "policy"]
           \/ tap' = [tap EXCEPT ![p] = "answer"] /\ row.status \in Decision
           \/ tap' = [tap EXCEPT ![p] = "refuse"]
           \/ tap' = [tap EXCEPT ![p] = "resolve"] /\ Permitted(p)
           \/ tap' = [tap EXCEPT ![p] = "unstamped"]
    <3>1. CASE ReadPending(p)
      BY <3>1 DEF ReadPending, TapAt
    <3>2. CASE Evaluate(p) /\ Key(p) \in keys
      BY <3>2 DEF Evaluate, TapAt, CaseInv, Passed
    <3>3. CASE Evaluate(p) /\ Key(p) \notin keys
      BY <3>3 DEF Evaluate, TapAt
    <3>4. CASE StampLost(p)
      BY <3>4 DEF StampLost, TapAt
    <3> QED BY <1>4, <3>1, <3>2, <3>3, <3>4
  <2>3. ApprovalTypeOK'
    BY <1>1, <2>1, <2>2 DEF CaseInv, CaseTypeOK, ApprovalTypeOK, Call
  <2>4. Passed'
    BY <1>1, <2>1, <2>2 DEF CaseInv, Passed, Permitted
  <2>5. Offered'
    BY <1>0, <1>1, <2>1, <2>2 DEF CaseInv, Offered
  <2> QED
    BY <1>0, <2>1, <2>3, <2>4, <2>5
    DEF CaseInv, CaseTypeOK, Phase, Retried, ApprovedByAuthority, StampAfterDecision
<1>5. ASSUME Refuse(p) \/ Resolve(p) PROVE CaseInv'
  <2>1. UNCHANGED <<keys, call, reply, result>> /\ row.status # "none"
    BY <1>5, <1>1 DEF Refuse, Resolve, TapAt, CaseInv, Offered
  <2>2. \/ /\ tap[p] = "refuse" /\ tap' = [tap EXCEPT ![p] = "refuseKey"]
           /\ row' = [status |-> "REJECTED", by |-> call[p].who]
        \/ /\ tap[p] = "resolve" /\ tap' = [tap EXCEPT ![p] = "reread"] /\ Permitted(p)
           /\ row' = IF row.status = "PENDING" THEN [status |-> call[p].wants, by |-> call[p].who]
                     ELSE row
    BY <1>5 DEF Refuse, Resolve, TapAt, ResolveRow, CaseInv, Passed
  <2>3. row'.status \in Decision /\ row' \in [status: {"none", "PENDING"} \cup Decision, by: Resolver \cup {Nobody}]
    BY <1>1, <1>2, <2>1, <2>2 DEF Decision
  <2>4. ApprovalTypeOK'
    BY <1>1, <2>1, <2>2, <2>3 DEF CaseInv, CaseTypeOK, ApprovalTypeOK, Call
  <2>5. Passed'
    BY <1>1, <2>1, <2>2, <2>3 DEF CaseInv, Passed, Permitted
  <2>6. Offered'
    <3>1. row'.status # "none"
      BY <2>3 DEF Decision
    <3> QED BY <1>0, <1>1, <2>1, <2>3, <3>1 DEF CaseInv, Offered
  <2>7. ApprovedByAuthority' /\ StampAfterDecision'
    BY <1>0, <1>2, <2>1, <2>2, <2>3 DEF CaseInv, ApprovedByAuthority, StampAfterDecision, Permitted, Decision
  <2> QED BY <1>0, <2>4, <2>5, <2>6, <2>7 DEF CaseInv, CaseTypeOK, Phase, Retried
<1>6. ASSUME RefuseKey(p) \/ StoreKey(p) PROVE CaseInv'
  <2>1. UNCHANGED <<row, call, reply, result>> /\ keys' = keys \cup {Key(p)}
    BY <1>6 DEF RefuseKey, StoreKey
  <2>2. \/ tap[p] = "refuseKey" /\ tap' = [tap EXCEPT ![p] = "answer"]
        \/ tap[p] = "key" /\ tap' = [tap EXCEPT ![p] = "stamp"]
    BY <1>6 DEF RefuseKey, StoreKey, TapAt
  <2>3. Key(p) \in Resolver \X Decision
    BY <1>2, <2>2 DEF Key
  <2>4. ApprovalTypeOK'
    BY <1>1, <2>1, <2>2, <2>3 DEF CaseInv, CaseTypeOK, ApprovalTypeOK, Call
  <2>5. Passed'
    BY <1>1, <2>1, <2>2 DEF CaseInv, Passed, Permitted
  <2>6. Offered'
    BY <1>0, <1>1, <2>1, <2>2 DEF CaseInv, Offered
  <2> QED
    BY <1>0, <2>1, <2>4, <2>5, <2>6
    DEF CaseInv, CaseTypeOK, Phase, Retried, ApprovedByAuthority, StampAfterDecision
<1>7. ASSUME Stamp(p) PROVE CaseInv'
  <2>1. /\ UNCHANGED <<row, keys, call, reply>>
        /\ tap[p] = "stamp" /\ tap' = [tap EXCEPT ![p] = "done"]
        /\ result' = [status |-> call[p].wants, by |-> call[p].who]
        /\ Permitted(p) /\ row.status \in Decision
    BY <1>7 DEF Stamp, TapAt, CaseInv, Passed
  <2>2. ApprovalTypeOK'
    <3>1. result' \in [status: {"none", "open"} \cup Decision, by: Resolver \cup {Nobody}]
      BY <1>1, <1>2, <2>1
    <3> QED BY <1>1, <2>1, <3>1 DEF CaseInv, CaseTypeOK, ApprovalTypeOK, Call
  <2>3. Passed'
    BY <1>1, <2>1 DEF CaseInv, Passed, Permitted
  <2>4. Offered'
    BY <1>0, <1>1, <1>2, <2>1 DEF CaseInv, Offered, Decision
  <2>5. ApprovedByAuthority' /\ StampAfterDecision'
    BY <1>0, <1>2, <2>1 DEF CaseInv, ApprovedByAuthority, StampAfterDecision, Permitted, Decision
  <2> QED BY <1>0, <2>2, <2>3, <2>4, <2>5 DEF CaseInv, CaseTypeOK, Phase, Retried
<1>8. ASSUME ReadResolved(p) \/ Reread(p) \/ Answer(p) PROVE CaseInv'
  <2>1. UNCHANGED <<row, keys, call, result>> /\ AnswerFromRecord(p)
    BY <1>8 DEF ReadResolved, Reread, Answer
  <2>2. /\ tap[p] # "idle"
        /\ \/ tap' = [tap EXCEPT ![p] = "done"]
           \/ tap[p] = "reread" /\ tap' = [tap EXCEPT ![p] = "key"]
    BY <1>8 DEF ReadResolved, Reread, Answer, TapAt
  <2>3. row.status \in Decision
    <3>1. tap[p] # "read" => tap[p] \in {"reread", "answer"}
      BY <1>8 DEF ReadResolved, Reread, Answer, TapAt
    <3>2. tap[p] = "read" => row.status # "PENDING"
      BY <1>8 DEF ReadResolved, Reread, Answer, TapAt
    <3>3. row.status # "none"
      BY <2>2 DEF CaseInv, Offered
    <3> QED BY <1>1, <3>1, <3>2, <3>3 DEF CaseInv, Passed
  <2>4. reply' \in [Tap -> {"none", "refused"} \cup Decision]
    BY <1>2, <2>1, <2>2, <2>3 DEF AnswerFromRecord, CaseInv, CaseTypeOK, ApprovalTypeOK
  <2>5. ApprovalTypeOK'
    BY <1>1, <2>1, <2>2, <2>4 DEF CaseInv, CaseTypeOK, ApprovalTypeOK, Call
  <2>6. Passed'
    BY <1>1, <2>1, <2>2 DEF CaseInv, Passed, Permitted
  <2>7. Offered'
    BY <1>0, <1>1, <2>1, <2>2 DEF CaseInv, Offered
  <2> QED
    BY <1>0, <2>1, <2>5, <2>6, <2>7
    DEF CaseInv, CaseTypeOK, Phase, Retried, ApprovedByAuthority, StampAfterDecision
<1> QED BY <1>3, <1>4, <1>5, <1>6, <1>7, <1>8 DEF StartCall, ServeCall

(* The invariant of the case                                               *)
LEMMA CaseInvariant == Spec => []CaseInv
<1>1. CaseInv /\ UNCHANGED vars => CaseInv'
  <2> SUFFICES ASSUME CaseInv, UNCHANGED vars PROVE CaseInv'
    OBVIOUS
  <2>1. UNCHANGED <<approvalVars, limit, auto>>
    BY DEF vars, caseVars
  <2> QED
    BY <2>1, ApprovalFrame
    DEF CaseInv, CaseTypeOK, Phase, Retried, Offered, vars, caseVars, approvalVars
<1>2. CaseInv /\ [Next]_vars => CaseInv'
  BY <1>1, TransitionPreserves, MovePreserves, SavePreserves, OfferPreserves, CallPreserves
  DEF Next, RunStep
<1> QED BY <1>2, CaseInitial, PTL DEF Spec

-----------------------------------------------------------------------------
(* The variables keep their types; retries never exceeds max_retries.      *)
THEOREM CaseTypeCorrect == Spec => []CaseTypeOK
<1>1. CaseInv => CaseTypeOK
  BY DEF CaseInv
<1> QED BY <1>1, CaseInvariant, PTL

(* orchestrate asks only for transitions ALLOWED_TRANSITIONS has           *)
(* (tasks/schemas.py:23), wherever it raises.                              *)
THEOREM LifeCycleRespected == Spec => []NoIllegalTransition
BY CaseInvariant, Legal, PTL

(* A task ends failed with no retry if max_retries is 0 and with exactly   *)
(* one otherwise, whatever max_retries says (orchestrator/__init__.py:57). *)
THEOREM OneRetry == Spec => []FailedAfterRetry
<1>1. CaseInv => FailedAfterRetry
  BY DEF CaseInv, Retried, FailedAfterRetry
<1> QED BY <1>1, CaseInvariant, PTL

(* An approval exists only for a completed case with its result saved      *)
(* (orchestrator/__init__.py:70).                                          *)
THEOREM OfferedWhenCompleted == Spec => []ApprovalOnlyWhenCompleted
<1>1. CaseInv => ApprovalOnlyWhenCompleted
  BY DEF CaseInv, Offered, ApprovalOnlyWhenCompleted
<1> QED BY <1>1, CaseInvariant, PTL

(* An approved purchase was approved by an authorized resolver or by       *)
(* auto-approval, for any number of calls (approval_bot.py:138).           *)
THEOREM Authority == Spec => []ApprovedByAuthority
<1>1. CaseInv => ApprovedByAuthority
  BY DEF CaseInv
<1> QED BY <1>1, CaseInvariant, PTL

(* The task's result never runs ahead of the approvals row.                *)
THEOREM StampFollowsDecision == Spec => []StampAfterDecision
<1>1. CaseInv => StampAfterDecision
  BY DEF CaseInv
<1> QED BY <1>1, CaseInvariant, PTL

(* A rejection stands against every later or concurrent call (hitl.py:91). *)
THEOREM RejectionStands == Spec => RejectionIsFinal
<1>1. CaseInv /\ [Next]_vars => [row.status = "REJECTED" => row'.status = "REJECTED"]_vars
  <2> SUFFICES ASSUME CaseInv, [Next]_vars, row.status = "REJECTED"
               PROVE  row'.status = "REJECTED"
    OBVIOUS
  <2>1. ASSUME RunStep \/ Die PROVE row'.status = "REJECTED"
    BY <2>1
    DEF CaseInv, Offered, RunStep, Die, Insert, Queue, Start, GraphCompletes, ExecRaises, Handoff,
        Join, SaveVerified, RecordFailure, Retry, Resume, Exhausted, SaveFinal, Complete, Request,
        AutoResolve, AutoStamp, Transition, RunAt, ResolveRow, approvalVars
  <2>2. ASSUME NEW p \in Tap, StartCall(p) \/ ServeCall(p) PROVE row'.status = "REJECTED"
    BY <2>2
    DEF StartCall, ServeCall, Press, Forbid, ReadPending, ReadResolved, Evaluate, Refuse, RefuseKey,
        Resolve, Reread, StoreKey, Stamp, StampLost, Answer, ResolveRow
  <2>3. CASE UNCHANGED vars
    BY <2>3 DEF vars, approvalVars
  <2> QED BY <2>1, <2>2, <2>3 DEF Next
<1> QED BY <1>1, CaseInvariant, PTL DEF Spec, RejectionIsFinal

-----------------------------------------------------------------------------
(* A call without competition.                                             *)

(* Nobody but p has called, and nothing resolves by itself.                *)
Solo(p) == ~ auto /\ \A q \in Tap \ {p} : tap[q] = "idle"

(* Until p decides, nothing is decided and no key is used; what p decides  *)
(* is what the row says, then the reply, then the result, which is open    *)
(* until its stamp succeeds.                                               *)
LoneInv ==
  \A p \in Tap : Solo(p) =>
    /\ tap[p] \in {"idle", "read", "policy", "resolve", "refuse"} =>
         row.status \in {"none", "PENDING"} /\ keys = {}
    /\ tap[p] \in {"refuse", "refuseKey", "answer"} => ~ Permitted(p)
    /\ tap[p] \in {"reread", "key", "stamp", "unstamped"} =>
         row.status = call[p].wants /\ result.status = "open"
    /\ tap[p] \in {"key", "stamp", "unstamped"} => reply[p] = row.status
    /\ tap[p] = "done" /\ reply[p] # "refused" /\ Permitted(p) =>
         /\ reply[p] = row.status /\ result.status = row.status
         /\ row.status = call[p].wants

(* Two calls compete as soon as the second is made.                        *)
LEMMA OnlyOwnCall ==
  ASSUME CaseInv, NEW p \in Tap, NEW q \in Tap, StartCall(q) \/ ServeCall(q), Solo(p)'
  PROVE  q = p
<1>1. tap \in [Tap -> {"idle", "read", "policy", "refuse", "refuseKey", "resolve",
                       "reread", "key", "stamp", "unstamped", "answer", "done"}]
  BY DEF CaseInv, CaseTypeOK, ApprovalTypeOK
<1>2. tap'[q] # "idle"
  BY <1>1 DEF StartCall, ServeCall, Press, Forbid, ReadPending, ReadResolved, Evaluate, Refuse,
     RefuseKey, Resolve, Reread, StoreKey, Stamp, StampLost, Answer, TapAt
<1> QED BY <1>2 DEF Solo

(* The lone call keeps its decision through every statement.               *)
LEMMA LoneCall ==
  ASSUME CaseInv, LoneInv, NEW p \in Tap, StartCall(p) \/ ServeCall(p), Solo(p), UNCHANGED caseVars
  PROVE  /\ tap'[p] \in {"idle", "read", "policy", "resolve", "refuse"} =>
              row'.status \in {"none", "PENDING"} /\ keys' = {}
         /\ tap'[p] \in {"refuse", "refuseKey", "answer"} => ~ Permitted(p)'
         /\ tap'[p] \in {"reread", "key", "stamp", "unstamped"} =>
              row'.status = call'[p].wants /\ result'.status = "open"
         /\ tap'[p] \in {"key", "stamp", "unstamped"} => reply'[p] = row'.status
         /\ tap'[p] = "done" /\ reply'[p] # "refused" /\ Permitted(p)' =>
              /\ reply'[p] = row'.status /\ result'.status = row'.status
              /\ row'.status = call'[p].wants
<1>0. /\ row \in [status: {"none", "PENDING"} \cup Decision, by: Resolver \cup {Nobody}]
      /\ tap \in [Tap -> {"idle", "read", "policy", "refuse", "refuseKey", "resolve",
                         "reread", "key", "stamp", "unstamped", "answer", "done"}]
      /\ call \in [Tap -> Call \cup {NoCall}]
      /\ reply \in [Tap -> {"none", "refused"} \cup Decision]
      /\ tap[p] # "idle" => row.status # "none"
      /\ row.status = "PENDING" => result.status = "open"
  BY DEF CaseInv, CaseTypeOK, ApprovalTypeOK, Offered, StampAfterDecision, Decision
<1>1. /\ tap[p] \in {"idle", "read", "policy", "resolve", "refuse"} =>
           row.status \in {"none", "PENDING"} /\ keys = {}
      /\ tap[p] \in {"refuse", "refuseKey", "answer"} => ~ Permitted(p)
      /\ tap[p] \in {"reread", "key", "stamp", "unstamped"} =>
           row.status = call[p].wants /\ result.status = "open"
      /\ tap[p] \in {"key", "stamp", "unstamped"} => reply[p] = row.status
      /\ tap[p] = "done" /\ reply[p] # "refused" /\ Permitted(p) =>
           /\ reply[p] = row.status /\ result.status = row.status
           /\ row.status = call[p].wants
  BY DEF LoneInv
<1>2. CASE StartCall(p)
  BY <1>0, <1>1, <1>2 DEF StartCall, Press, Forbid, TapAt
<1>3. CASE ReadPending(p) \/ ReadResolved(p)
  BY <1>0, <1>1, <1>3 DEF ReadPending, ReadResolved, TapAt
<1>4. CASE Evaluate(p)
  BY <1>0, <1>1, <1>4 DEF Evaluate, TapAt, Permitted
<1>5. CASE Refuse(p) \/ RefuseKey(p)
  BY <1>0, <1>1, <1>5 DEF Refuse, RefuseKey, TapAt, Permitted
<1>6. CASE Resolve(p)
  BY <1>0, <1>1, <1>6 DEF Resolve, ResolveRow, TapAt
<1>7. CASE Reread(p)
  BY <1>0, <1>1, <1>7 DEF Reread, AnswerFromRecord, TapAt
<1>8. CASE StoreKey(p)
  BY <1>0, <1>1, <1>8 DEF StoreKey, TapAt
<1>9. CASE Stamp(p) \/ StampLost(p)
  BY <1>0, <1>1, <1>9 DEF Stamp, StampLost, TapAt
<1>10. CASE Answer(p)
  BY <1>0, <1>1, <1>10 DEF Answer, AnswerFromRecord, TapAt, Permitted
<1> QED BY <1>2, <1>3, <1>4, <1>5, <1>6, <1>7, <1>8, <1>9, <1>10 DEF ServeCall

(* No step of anybody breaks what a lone call has established.           *)
LEMMA LoneStep == CaseInv /\ LoneInv /\ [Next]_vars => LoneInv'
<1> SUFFICES ASSUME CaseInv, LoneInv, [Next]_vars PROVE LoneInv'
  OBVIOUS
<1>1. ASSUME NEW q \in Tap, StartCall(q) \/ ServeCall(q), UNCHANGED caseVars
      PROVE  LoneInv'
  <2> SUFFICES ASSUME NEW p \in Tap, Solo(p)'
               PROVE  /\ tap'[p] \in {"idle", "read", "policy", "resolve", "refuse"} =>
                           row'.status \in {"none", "PENDING"} /\ keys' = {}
                      /\ tap'[p] \in {"refuse", "refuseKey", "answer"} => ~ Permitted(p)'
                      /\ tap'[p] \in {"reread", "key", "stamp", "unstamped"} =>
                           row'.status = call'[p].wants /\ result'.status = "open"
                      /\ tap'[p] \in {"key", "stamp", "unstamped"} => reply'[p] = row'.status
                      /\ tap'[p] = "done" /\ reply'[p] # "refused" /\ Permitted(p)' =>
                           /\ reply'[p] = row'.status /\ result'.status = row'.status
                           /\ row'.status = call'[p].wants
    BY DEF LoneInv
  <2>1. q = p
    BY <1>1, OnlyOwnCall
  <2>2. auto' = auto /\ \A r \in Tap \ {p} : tap'[r] = tap[r]
    BY <1>1, <2>1 DEF caseVars, CaseInv, CaseTypeOK, ApprovalTypeOK, StartCall, ServeCall, Press,
       Forbid, ReadPending, ReadResolved, Evaluate, Refuse, RefuseKey, Resolve, Reread, StoreKey,
       Stamp, StampLost, Answer, TapAt
  <2>3. Solo(p)
    BY <2>2 DEF Solo
  <2> QED BY <1>1, <2>1, <2>3, LoneCall
<1>2. CASE UNCHANGED approvalVars /\ auto' = auto
  BY <1>2 DEF LoneInv, Solo, Permitted, approvalVars
<1>3. CASE SaveVerified \/ SaveFinal
  <2>1. row.status = "none" /\ UNCHANGED <<row, keys, tap, call, reply, auto>>
    BY <1>3 DEF SaveVerified, SaveFinal, RunAt, CaseInv, Offered
  <2>2. \A p \in Tap : tap[p] = "idle"
    BY <2>1 DEF CaseInv, Offered
  <2> QED BY <2>1, <2>2 DEF LoneInv, Solo, Permitted
<1>4. CASE Request
  <2>1. row.status = "none" /\ row'.status = "PENDING" /\ UNCHANGED <<keys, tap, auto>>
    BY <1>4 DEF Request, CreateApproval, RunAt, CaseInv, Offered
  <2>2. \A p \in Tap : tap[p] = "idle"
    BY <2>1 DEF CaseInv, Offered
  <2> QED BY <2>1, <2>2 DEF LoneInv, Solo
<1>5. CASE AutoResolve \/ AutoStamp
  <2>1. auto /\ auto' = auto
    BY <1>5 DEF AutoResolve, AutoStamp, RunAt, CaseInv, Offered
  <2> QED BY <2>1 DEF LoneInv, Solo
<1>6. CASE Insert \/ Queue \/ Start \/ GraphCompletes \/ ExecRaises \/ Handoff \/ Join
           \/ RecordFailure \/ Retry \/ Resume \/ Exhausted \/ Complete \/ Die
  BY <1>2, <1>6 DEF Insert, Queue, Start, GraphCompletes, ExecRaises, Handoff, Join,
     RecordFailure, Retry, Resume, Exhausted, Complete, Die, Transition
<1>7. CASE UNCHANGED vars
  BY <1>2, <1>7 DEF vars, caseVars
<1> QED BY <1>1, <1>3, <1>4, <1>5, <1>6, <1>7 DEF Next, RunStep

(* A call nobody competed with, and that the policy let through, leaves    *)
(* its decision in the row and in the reply (approval_bot.py:7), whoever   *)
(* makes it and from wherever; the task's result has it too, unless the    *)
(* stamp has raised, and then it is open still (approval_bot.py:216).      *)
THEOREM LoneDecision == Spec => []LoneDecisionAgrees
<1>1. Init => LoneInv
  BY DEF Init, ApprovalInit, LoneInv
<1>2. CaseInv /\ LoneInv => LoneDecisionAgrees
  BY DEF LoneInv, LoneDecisionAgrees, Alone, Solo
<1> QED BY <1>1, <1>2, LoneStep, CaseInvariant, PTL DEF Spec
=============================================================================
