------------------------------ MODULE ChatDesk ------------------------------
(***************************************************************************)
(* What ChatHandler does with the updates ChatGate lets through: sessions, *)
(* uploaded quotes, background cases and the answers to approval requests. *)
(* All coroutines share one event loop, so a step runs from one await to   *)
(* the next; the graph run and the resolution happen in threads.           *)
(***************************************************************************)
EXTENDS ChatGate, FiniteSets

CONSTANTS
  Chats,
  MaxCases,      \* bound on the cases, numbered in the order they are started
  SentTo,        \* the chat each document is sent to, in the order of sending
  PendingLimit   \* the limit of ApprovalStore.pending

ASSUME DeskAssumption ==
  /\ Chats # {} /\ SentTo \in Seq(Chats)
  /\ MaxCases \in Nat /\ PendingLimit \in Nat \ {0}

Docs   == 1..Len(SentTo)
Cases  == 1..MaxCases
NoCase == 0

VARIABLES
  session,  \* telegram_sessions: state, pending_text (is it set?), pending_approval_id
  file,     \* quotes.json of each chat
  upload,   \* handle_document, one coroutine per document
  case,     \* _procurement_bg, one coroutine per case
  record,   \* the approvals table; which way a record is resolved is Approvals
  asked,    \* the approval requests in the order of created_at
  pressed   \* handle_callback or _resolve_approval_dm between its thread and its save

deskVars == <<session, file, upload, case, record, asked, pressed>>

SessionState == {"idle", "awaiting_spec", "running", "awaiting_approval"}
UploadStage  == {"none", "fetching", "kept", "over"}
CaseStage    == {"none", "starting", "executing", "reporting", "over"}

DeskTypeOK ==
  /\ session \in [Chats -> [state : SessionState, pending : BOOLEAN,
                            approval : Cases \cup {NoCase}]]
  /\ file \in [Chats -> SUBSET Docs]
  /\ upload \in [Docs -> UploadStage]
  /\ case \in [Cases -> [stage : CaseStage, chat : Chats, due : SUBSET Docs]]
  /\ record \in [Cases -> {"none", "PENDING", "resolved"}]
  /\ asked \in Seq(Cases)
  /\ pressed \in [Chats -> BOOLEAN]

DeskInit ==
  /\ session = [c \in Chats |-> [state |-> "idle", pending |-> FALSE, approval |-> NoCase]]
  /\ file = [c \in Chats |-> {}]
  /\ upload = [d \in Docs |-> "none"]
  /\ case = [k \in Cases |-> [stage |-> "none", chat |-> CHOOSE c \in Chats : TRUE,
                              due |-> {}]]
  /\ record = [k \in Cases |-> "none"]
  /\ asked = <<>>
  /\ pressed = [c \in Chats |-> FALSE]

-----------------------------------------------------------------------------
Merged(row, fields) ==
  [f \in DOMAIN row |-> IF f \in DOMAIN fields THEN fields[f] ELSE row[f]]

(* ChatSessionStore.save: the fields that change over those that stay; no  *)
(* await separates its SELECT from its upsert                              *)
Save(c, fields) == session' = [session EXCEPT ![c] = Merged(@, fields)]

Clear(c) == Save(c, [state |-> "idle", pending |-> FALSE, approval |-> NoCase])

UploadTo(d, from, to) == upload[d] = from /\ upload' = [upload EXCEPT ![d] = to]
CaseTo(k, from, to) == case[k].stage = from /\ case' = [case EXCEPT ![k].stage = to]

Kept(c) == {d \in Docs : upload[d] = "kept" /\ SentTo[d] = c}

(* _start_procurement up to its first await, for a sender who is unknown   *)
(* or may create cases; anybody else gets an answer and changes nothing    *)
StartProcurement(c) ==
  \E k \in Cases :
    /\ case[k].stage = "none" /\ \A j \in 1..k - 1 : case[j].stage # "none"
    /\ case' = [case EXCEPT ![k] = [stage |-> "starting", chat |-> c, due |-> Kept(c)]]
    /\ Save(c, [state |-> "running", pending |-> TRUE])

(* Texts whose intent touches the session, and one that is also a price    *)
(* question; a short one names no specification.                           *)
Texts == {{}, {"help"}, {"new"}, {"buy"}, {"price", "buy"}}

HandleMessage(c) ==
  /\ UNCHANGED <<file, upload, record, asked, pressed>>
  /\ \E cues \in Texts, short \in BOOLEAN :
       LET intent == Classify(cues, session[c].state)
           bare   == intent = "procurement" /\ short /\ ~session[c].pending
       IN  \/ intent = "help" /\ Save(c, [state |-> "idle"]) /\ UNCHANGED case
           \/ intent = "new" /\ Clear(c) /\ UNCHANGED case
           \/ bare /\ Save(c, [state |-> "awaiting_spec", pending |-> TRUE]) /\ UNCHANGED case
           \/ ~bare /\ intent \in {"procurement", "procurement_followup"} /\ StartProcurement(c)

(* the start message is sent, then the background task reads the quotes    *)
(* and starts the thread of run_procurement; what is missing of what was   *)
(* due is noted for the property below                                     *)
LoadQuotes(k) ==
  /\ case[k].stage = "starting"
  /\ case' = [case EXCEPT ![k].stage = "executing", ![k].due = @ \ file[case[k].chat]]
  /\ UNCHANGED <<session, file, upload, record, asked, pressed>>

(* sending the start message raises: there is no task and the session      *)
(* stays running                                                           *)
StartFails(k) ==
  /\ CaseTo(k, "starting", "over")
  /\ UNCHANGED <<session, file, upload, record, asked, pressed>>

(* run_procurement raises                                                  *)
CaseRaises(k) ==
  /\ CaseTo(k, "executing", "over")
  /\ Save(case[k].chat, [state |-> "idle"])
  /\ UNCHANGED <<file, upload, record, asked, pressed>>

(* run_procurement asks for the purchase approval and returns ...          *)
RequestApproval(k) ==
  /\ CaseTo(k, "executing", "reporting")
  /\ record' = [record EXCEPT ![k] = "PENDING"]
  /\ asked' = Append(asked, k)
  /\ UNCHANGED <<session, file, upload, pressed>>

(* ... or returns without having asked; the report is made and sent        *)
NoApproval(k) ==
  /\ CaseTo(k, "executing", "reporting")
  /\ UNCHANGED <<session, file, upload, record, asked, pressed>>

Pending == SelectSeq(asked, LAMBDA k : record[k] = "PENDING")

(* Fault: the newest pending request, whosever it is.                      *)
LatestPendingFor_Anybody(k) ==
  IF Pending = <<>> THEN NoCase ELSE Pending[Len(Pending)]

(* _latest_pending_for: among the oldest PendingLimit pending requests     *)
LatestPendingFor(k) ==
  IF \E i \in 1..Len(Pending) : i <= PendingLimit /\ Pending[i] = k THEN k ELSE NoCase

(* the end of _procurement_bg: whatever the session has become meanwhile   *)
AnswerCase(k) ==
  LET rid == LatestPendingFor(k)
  IN  /\ CaseTo(k, "reporting", "over")
      /\ Save(case[k].chat,
              [state |-> IF rid = NoCase THEN "idle" ELSE "awaiting_approval",
               approval |-> rid])
      /\ UNCHANGED <<file, upload, record, asked, pressed>>

(* resolve_approval in a thread, for a button or a text of any chat        *)
ResolveBlocking(c, k) ==
  /\ ~pressed[c] /\ record[k] # "none"
  /\ pressed' = [pressed EXCEPT ![c] = TRUE]
  /\ record' = [record EXCEPT ![k] = "resolved"]
  /\ UNCHANGED <<session, file, upload, case, asked>>

(* the rest of handle_callback or _resolve_approval_dm                     *)
AfterResolve(c) ==
  /\ pressed[c]
  /\ pressed' = [pressed EXCEPT ![c] = FALSE]
  /\ Save(c, [state |-> "idle", approval |-> NoCase])
  /\ UNCHANGED <<file, upload, case, record, asked>>

HandleDocument(d) ==
  /\ UploadTo(d, "none", "fetching") /\ \A e \in 1..d - 1 : upload[e] # "none"
  /\ UNCHANGED <<session, file, case, record, asked, pressed>>

(* Fault: the parsed quotes replace the file.                              *)
StoreQuotes_Overwrite(d) == file' = [file EXCEPT ![SentTo[d]] = {d}]

(* quotes.json is read, extended and written without an await in between   *)
StoreQuotes(d) == file' = [file EXCEPT ![SentTo[d]] = @ \cup {d}]

(* the awaits of getFile and of the download are over: a quote is stored,  *)
(* another text goes to the second brain, or something raised              *)
Downloaded(d) ==
  /\ \/ UploadTo(d, "fetching", "kept") /\ StoreQuotes(d)
     \/ UploadTo(d, "fetching", "over") /\ UNCHANGED file
  /\ UNCHANGED <<session, case, record, asked, pressed>>

(* the server restarts: sessions, files and records survive, coroutines    *)
(* and threads do not                                                      *)
Restart ==
  /\ case' = [k \in Cases |->
       IF case[k].stage = "none" THEN case[k] ELSE [case[k] EXCEPT !.stage = "over"]]
  /\ upload' = [d \in Docs |-> IF upload[d] = "fetching" THEN "over" ELSE upload[d]]
  /\ pressed' = [c \in Chats |-> FALSE]
  /\ UNCHANGED <<session, file, record, asked>>

CaseStep(k) ==
  \/ LoadQuotes(k) \/ StartFails(k) \/ CaseRaises(k) \/ RequestApproval(k) \/ NoApproval(k)
  \/ AnswerCase(k)

DeskNext ==
  \/ \E c \in Chats : HandleMessage(c) \/ AfterResolve(c)
  \/ \E c \in Chats, k \in Cases : ResolveBlocking(c, k)
  \/ \E d \in Docs : HandleDocument(d) \/ Downloaded(d)
  \/ \E k \in Cases : CaseStep(k)
  \/ Restart

DeskSpec == DeskInit /\ [][DeskNext]_deskVars

-----------------------------------------------------------------------------
(* handler.py:240,436: a case analyses every quote whose receipt the chat  *)
(* had confirmed when the request was handled, however uploads, restarts   *)
(* and other cases interleave.                                             *)
CaseSeesUploads ==
  \A k \in Cases :
    case[k].stage \in {"executing", "reporting"} => case[k].due = {}

(* handler.py:526,653: a chat is asked to approve a purchase of its own,   *)
(* never one that another chat's case has requested in the meantime, and   *)
(* it waits for an approval only if it was asked for one.                  *)
AsksForItsOwn ==
  \A c \in Chats :
    /\ session[c].approval # NoCase => case[session[c].approval].chat = c
    /\ session[c].state = "awaiting_approval" => session[c].approval # NoCase
=============================================================================
