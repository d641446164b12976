------------------------------ MODULE ChatGate ------------------------------
(***************************************************************************)
(* The front door of the Telegram chat: dispatch_update sorts an update,   *)
(* is_allowed and _limited decide whether it is handled, classify names    *)
(* what the sender wants.  What is done then is ChatDesk.                  *)
(***************************************************************************)
EXTENDS Filters

CONSTANTS
  RateLimit,   \* _RATE_LIMIT, messages per window and chat
  RateWindow,  \* _RATE_WINDOW, in ticks
  Allowlist,   \* settings.allowed_users
  Senders      \* user ids and names of updates

ASSUME GateAssumption == RateLimit \in Nat \ {0} /\ RateWindow \in Nat \ {0}

VARIABLES
  hits,    \* _rate[chat]: the age of every remembered message, oldest first
  gateReply  \* what became of the last update

gateVars == <<hits, gateReply>>

(* What classify looks for in a text, first match first.                   *)
Cues == <<"help", "new", "webhook", "lang", "tasks", "task", "approval", "price", "buy">>

ChatIntent ==
  [help |-> "help", new |-> "new", webhook |-> "webhook", lang |-> "lang",
   tasks |-> "inbox_list", task |-> "inbox_detail", approval |-> "approval_text",
   price |-> "price_question", buy |-> "procurement"]

First(cues, from) == SelectInSeq(Cues, LAMBDA f : f \in cues /\ f \in from)

(* classify: explicit commands and price questions, then the answer to a   *)
(* specification prompt, then procurement words, then small talk           *)
Classify(cues, state) ==
  LET first == First(cues, Range(Cues) \ {"buy"})
  IN  CASE first # 0 -> ChatIntent[Cues[first]]
        [] first = 0 /\ state = "awaiting_spec" -> "procurement_followup"
        [] first = 0 /\ state # "awaiting_spec" ->
             IF "buy" \in cues THEN "procurement" ELSE "chitchat"

(* is_allowed: an empty allowlist admits everybody                         *)
IsAllowed(sender) == Allowlist = {} \/ sender \in Allowlist

GateReplies == {"none", "bad_update", "ignored", "photo", "no_permission", "rate_limited",
                "callback", "document", "message"}

GateTypeOK ==
  /\ hits \in Seq(0..RateWindow - 1) /\ Len(hits) <= RateLimit
  /\ gateReply \in GateReplies

GateInit == hits = <<>> /\ gateReply = "none"

-----------------------------------------------------------------------------
(* Fault: every message of the window is remembered.                       *)
Newest_All(s, n) == s

(* the list is cut to its last entries after each message                  *)
Newest(s, n) == IF Len(s) <= n THEN s ELSE SubSeq(s, Len(s) - n + 1, Len(s))

(* _limited: a refused message is remembered like a served one             *)
Limited ==
  LET now == Append(hits, 0)
  IN  /\ hits' = Newest(now, RateLimit)
      /\ gateReply' = IF Len(now) > RateLimit THEN "rate_limited" ELSE "message"

Answer(reply) == gateReply' = reply /\ UNCHANGED hits

(* dispatch_update: callback, document, photo, text; no update is kept, so *)
(* one that Telegram delivers twice is handled twice                       *)
Dispatch(kind, sender) ==
  CASE kind \in {"bad_update", "ignored", "photo"}  -> Answer(kind)
    [] kind \in {"callback", "document"} ->
         Answer(IF IsAllowed(sender) THEN kind ELSE "no_permission")
    [] kind = "text" -> IF IsAllowed(sender) THEN Limited ELSE Answer("no_permission")

UpdateKinds == {"bad_update", "ignored", "photo", "callback", "document", "text"}

Update == \E kind \in UpdateKinds, sender \in Senders : Dispatch(kind, sender)

(* now - t < _RATE_WINDOW keeps a message for RateWindow ticks             *)
Older(s) == LET kept == Only(s, 0..RateWindow - 2) IN [i \in DOMAIN kept |-> kept[i] + 1]

GateTick ==
  /\ hits # <<>>
  /\ hits' = Older(hits)
  /\ UNCHANGED gateReply

GateNext == Update \/ GateTick

GateSpec == GateInit /\ [][GateNext]_gateVars

=============================================================================
