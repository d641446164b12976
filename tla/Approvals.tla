------------------------------ MODULE Approvals ------------------------------
(***************************************************************************)
(* One purchase approval: its row in ApprovalStore and the calls that try  *)
(* to resolve it.  The polling bot, the chat handler and the HTTP API all  *)
(* end in resolve_approval, whose statements commit one by one, so calls   *)
(* for the same request interleave.  The request carries no amount and no  *)
(* requester, so the policy depends on the resolver alone.                 *)
(***************************************************************************)
EXTENDS Naturals, FiniteSets

CONSTANTS
  Tap,         \* calls of resolve_approval
  Resolver,    \* resolver labels
  Authorized,  \* the labels of users the approval policy lets approve
  BotLabel,    \* the label the polling bot uses, no user's
  Nobody,      \* no resolver yet
  NoCall       \* a call that has not been made

ASSUME ApprovalAssumption ==
  /\ Authorized \subseteq Resolver
  /\ BotLabel \in Resolver \ Authorized
  /\ Nobody \notin Resolver
  /\ NoCall \notin [who: Resolver, wants: {"APPROVED", "REJECTED"},
                    via: {"bot", "chat", "api"}]

Decision == {"APPROVED", "REJECTED"}

VARIABLES
  row,    \* the approvals row: status and resolver
  keys,   \* approval_idempotency_keys
  tap,    \* where each call is
  call,   \* its resolver, its decision and where it came from
  reply,  \* what its caller is told
  result  \* tasks.result of the case: the status in it and who set that

approvalVars == <<row, keys, tap, call, reply, result>>

Call == [who: Resolver, wants: Decision, via: {"bot", "chat", "api"}]

ApprovalTypeOK ==
  /\ row \in [status: {"none", "PENDING"} \cup Decision, by: Resolver \cup {Nobody}]
  /\ keys \in SUBSET (Resolver \X Decision)
  /\ tap \in [Tap -> {"idle", "read", "policy", "refuse", "refuseKey", "resolve",
                      "reread", "key", "stamp", "unstamped", "answer", "done"}]
  /\ call \in [Tap -> Call \cup {NoCall}]
  /\ \A p \in Tap : tap[p] # "idle" => call[p] \in Call
  /\ reply \in [Tap -> {"none", "refused"} \cup Decision]
  /\ result \in [status: {"none", "open"} \cup Decision, by: Resolver \cup {Nobody}]

ApprovalInit ==
  /\ row = [status |-> "none", by |-> Nobody]
  /\ keys = {}
  /\ tap = [p \in Tap |-> "idle"]
  /\ call = [p \in Tap |-> NoCall]
  /\ reply = [p \in Tap |-> "none"]
  /\ result = [status |-> "none", by |-> Nobody]

Key(p) == <<call[p].who, call[p].wants>>

TapAt(p, from, to) == tap[p] = from /\ tap' = [tap EXCEPT ![p] = to]

-----------------------------------------------------------------------------
(* ApprovalStore.create                                                    *)
CreateApproval == row' = [status |-> "PENDING", by |-> Nobody]

(* Fault: the update does not ask for PENDING.                             *)
ResolveRow_Always(s, by) == row' = [status |-> s, by |-> by]

(* ApprovalStore.resolve: the conditional update                           *)
ResolveRow(s, by) ==
  row' = IF row.status = "PENDING" THEN [status |-> s, by |-> by] ELSE row

-----------------------------------------------------------------------------
(* A button, a chat command or a POST names an existing request.           *)
Press(p, c) ==
  /\ TapAt(p, "idle", "read")
  /\ row.status # "none"
  /\ c.via = "bot" => c.who = BotLabel
  /\ call' = [call EXCEPT ![p] = c]
  /\ UNCHANGED <<row, keys, reply, result>>

(* approval_resolve answers 403 when the user of the request headers may   *)
(* not approve, whatever the body asks for.                                *)
Forbid(p, c) ==
  /\ TapAt(p, "idle", "done")
  /\ row.status # "none"
  /\ c.via = "api"
  /\ call' = [call EXCEPT ![p] = c]
  /\ reply' = [reply EXCEPT ![p] = "refused"]
  /\ UNCHANGED <<row, keys, result>>

(* Bot and chat answer with the decision they asked for, the API with the  *)
(* record as this call has read it.                                        *)
AnswerFromRecord(p) ==
  reply' = [reply EXCEPT ![p] = IF call[p].via = "api" THEN row.status ELSE call[p].wants]

ReadPending(p) ==
  /\ TapAt(p, "read", "policy")
  /\ row.status = "PENDING"
  /\ UNCHANGED <<row, keys, call, reply, result>>

(* Already resolved: the record is returned as it is.                      *)
ReadResolved(p) ==
  /\ TapAt(p, "read", "done")
  /\ row.status # "PENDING"
  /\ AnswerFromRecord(p)
  /\ UNCHANGED <<row, keys, call, result>>

(* Fault: approving needs no role either.                                  *)
Permitted_Anyone(p) == TRUE

(* evaluate_approval and user_can_approve: only approving takes a role.    *)
Permitted(p) == call[p].wants = "REJECTED" \/ call[p].who \in Authorized

(* Fault: a permitted call goes on without updating the row.               *)
Evaluate_NoUpdate(p) ==
  /\ TapAt(p, "policy", IF Key(p) \in keys THEN "answer"
                        ELSE IF Permitted(p) THEN "reread" ELSE "refuse")
  /\ UNCHANGED <<row, keys, call, reply, result>>

(* The idempotency key was used, or the policy has its say.                *)
Evaluate(p) ==
  /\ TapAt(p, "policy", IF Key(p) \in keys THEN "answer"
                        ELSE IF Permitted(p) THEN "resolve" ELSE "refuse")
  /\ UNCHANGED <<row, keys, call, reply, result>>

(* An approval the policy refuses rejects the request, unconditionally.    *)
Refuse(p) ==
  /\ TapAt(p, "refuse", "refuseKey")
  /\ row' = [status |-> "REJECTED", by |-> call[p].who]
  /\ UNCHANGED <<keys, call, reply, result>>

RefuseKey(p) ==
  /\ TapAt(p, "refuseKey", "answer")
  /\ keys' = keys \cup {Key(p)}
  /\ UNCHANGED <<row, call, reply, result>>

Resolve(p) ==
  /\ TapAt(p, "resolve", "reread")
  /\ ResolveRow(call[p].wants, call[p].who)
  /\ UNCHANGED <<keys, call, reply, result>>

(* The record as ApprovalStore.resolve returns it                          *)
Reread(p) ==
  /\ TapAt(p, "reread", "key")
  /\ AnswerFromRecord(p)
  /\ UNCHANGED <<row, keys, call, result>>

StoreKey(p) ==
  /\ TapAt(p, "key", "stamp")
  /\ keys' = keys \cup {Key(p)}
  /\ UNCHANGED <<row, call, reply, result>>

(* Fault: the result is always stamped as approved.                        *)
Stamp_Approved(p) ==
  /\ TapAt(p, "stamp", "done")
  /\ result' = [status |-> "APPROVED", by |-> call[p].who]
  /\ UNCHANGED <<row, keys, call, reply>>

(* The task's result is stamped with this call's decision, won or lost.    *)
Stamp(p) ==
  /\ TapAt(p, "stamp", "done")
  /\ result' = [status |-> call[p].wants, by |-> call[p].who]
  /\ UNCHANGED <<row, keys, call, reply>>

(* The stamp raises, which is printed and swallowed: the call returns its  *)
(* record all the same.                                                    *)
StampLost(p) ==
  /\ TapAt(p, "stamp", "unstamped")
  /\ UNCHANGED <<row, keys, call, reply, result>>

(* The record a key already used or a refusal returns                      *)
Answer(p) ==
  /\ TapAt(p, "answer", "done")
  /\ AnswerFromRecord(p)
  /\ UNCHANGED <<row, keys, call, result>>

StartCall(p) == \E c \in Call : Press(p, c) \/ Forbid(p, c)

ServeCall(p) ==
  \/ ReadPending(p) \/ ReadResolved(p) \/ Evaluate(p) \/ Refuse(p) \/ RefuseKey(p)
  \/ Resolve(p) \/ Reread(p) \/ StoreKey(p) \/ Stamp(p) \/ StampLost(p)
  \/ Answer(p)
=============================================================================
