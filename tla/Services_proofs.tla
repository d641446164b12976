--------------------------- MODULE Services_proofs ---------------------------
(***************************************************************************)
(* What the components around the engine keep, each for any value of its   *)
(* constants: the circuit breaker, the chat, the domain services, the      *)
(* knowledge base, the recommendation of a procurement case and a resumed  *)
(* workflow; and the types of them all.                                    *)
(***************************************************************************)
EXTENDS MC_Services, Intake_proofs, TaskWorker_proofs

-----------------------------------------------------------------------------
(* The circuit breaker.                                                    *)

(* What the cooldown rests on: the breaker is open because of the last     *)
(* failure anybody recorded, and its clock started with that failure.      *)
BreakerInv ==
  /\ ResilienceTypeOK
  /\ opened => openFor = sinceFailure

(* Each worker's step keeps the breaker's clock that of the last failure.  *)
LEMMA FailureKeepsClock ==
  ASSUME BreakerInv, RecordFailure
  PROVE  /\ failures' \in 0..Threshold /\ sinceFailure' = 0 /\ openFor' \in 0..Cooldown
         /\ opened' => failures' = Threshold /\ openFor' = 0
         /\ probing' => opened'
BY BreakerAssumption DEF BreakerInv, ResilienceTypeOK, RecordFailure

(* No step breaks what the cooldown rests on.                              *)
LEMMA BreakerStep == BreakerInv /\ [ResilienceNext]_resilienceVars => BreakerInv'
<1> SUFFICES ASSUME BreakerInv, [ResilienceNext]_resilienceVars PROVE BreakerInv'
  OBVIOUS
<1> USE BreakerAssumption
<1>1. ASSUME NEW w \in Callers, CallerStep(w) PROVE BreakerInv'
  <2>1. call' \in [Callers -> Stage] /\ healthy' \in BOOLEAN /\ budgetOver' \in BOOLEAN
    BY <1>1 DEF CallerStep, BreakerInv, ResilienceTypeOK, Stage, Move, Allow, LoseAdmitted,
       BeginCall, CallSucceeds, CallFails, DeadlinePasses, LateReturn
  <2>2. CASE RecordFailure
    BY <2>1, <2>2, FailureKeepsClock DEF BreakerInv, ResilienceTypeOK
  <2>3. CASE RecordSuccess
    BY <2>1, <2>3 DEF BreakerInv, ResilienceTypeOK, RecordSuccess
  <2>4. CASE UNCHANGED <<breakerVars, sinceFailure>>
    BY <2>1, <2>4 DEF BreakerInv, ResilienceTypeOK, breakerVars
  <2>5. CASE Allow(w)
    BY <2>1, <2>5 DEF BreakerInv, ResilienceTypeOK, Allow
  <2> QED
    BY <1>1, <2>2, <2>3, <2>4, <2>5 DEF CallerStep, LoseAdmitted, BeginCall, CallSucceeds,
       CallFails, DeadlinePasses, LateReturn, breakerVars
<1>2. CASE BreakerTick
  BY <1>2 DEF BreakerInv, ResilienceTypeOK, BreakerTick, AgeOf
<1>3. CASE ServiceChanges \/ TimeBudgetEnds \/ UNCHANGED resilienceVars
  <2>1. UNCHANGED <<failures, opened, openFor, probing, call, sinceFailure>>
    BY <1>3 DEF ServiceChanges, TimeBudgetEnds, resilienceVars, breakerVars
  <2>2. healthy' \in BOOLEAN /\ budgetOver' \in BOOLEAN
    BY <1>3, Zenon DEF BreakerInv, ResilienceTypeOK, ServiceChanges, TimeBudgetEnds, resilienceVars
  <2> QED BY <2>1, <2>2 DEF BreakerInv, ResilienceTypeOK
<1> QED BY <1>1, <1>2, <1>3 DEF ResilienceNext

(* The breaker starts closed, with nothing counted.                        *)
LEMMA BreakerInitial == ResilienceInit => BreakerInv
<1> SUFFICES ASSUME ResilienceInit PROVE BreakerInv
  OBVIOUS
<1>1. failures \in 0..Threshold /\ openFor \in 0..Cooldown /\ sinceFailure \in 0..Cooldown
  BY BreakerAssumption DEF ResilienceInit
<1>2. ~ opened /\ ~ probing /\ healthy \in BOOLEAN /\ budgetOver \in BOOLEAN
  BY DEF ResilienceInit
<1>3. call \in [Callers -> Stage]
  BY DEF ResilienceInit, Stage
<1> QED BY <1>1, <1>2, <1>3 DEF BreakerInv, ResilienceTypeOK

(* A caller is let through an open breaker only when the cooldown has      *)
(* passed since the last failure anybody recorded (reliability.py:48),     *)
(* with any number of workers, any threshold and any cooldown.             *)
THEOREM CooldownHolds == ResilienceSpec => CooldownRespected
<1>1. ASSUME BreakerInv, [ResilienceNext]_resilienceVars, NEW w \in Callers,
             opened, call[w] = "idle", call'[w] = "admitted"
      PROVE  sinceFailure = Cooldown
  <2>1. call' # call
    BY <1>1
  <2>2. PICK v \in Callers : CallerStep(v)
    BY <1>1, <2>1 DEF ResilienceNext, BreakerTick, ServiceChanges, TimeBudgetEnds,
       resilienceVars, breakerVars
  <2>3. Allow(v)
    BY <1>1, <2>2 DEF CallerStep, BreakerInv, ResilienceTypeOK, Move, LoseAdmitted, BeginCall,
       CallSucceeds, CallFails, DeadlinePasses, LateReturn
  <2> QED BY <1>1, <2>3 DEF Allow, BreakerInv
<1>2. BreakerInv /\ [ResilienceNext]_resilienceVars
        => [\A w \in Callers : opened /\ call[w] = "idle" /\ call'[w] = "admitted"
              => sinceFailure = Cooldown]_resilienceVars
  BY <1>1
<1> QED BY <1>2, BreakerInitial, BreakerStep, PTL DEF ResilienceSpec, CooldownRespected

-----------------------------------------------------------------------------
(* Sessions, quotes and cases of the chat.                                 *)

(* A session, and the state the chat keeps apart from the sequence of      *)
(* approval requests.                                                      *)
SessionRow == [state : SessionState, pending : BOOLEAN, approval : Cases \cup {NoCase}]

DeskRows ==
  /\ session \in [Chats -> SessionRow]
  /\ file \in [Chats -> SUBSET Docs]
  /\ upload \in [Docs -> UploadStage]
  /\ case \in [Cases -> [stage : CaseStage, chat : Chats, due : SUBSET Docs]]

(* A quote that is kept is in its chat's file, and what is due to a case   *)
(* about to read the file is in it; once it was read nothing is missing.   *)
QuotesFiled ==
  /\ \A d \in Docs : upload[d] = "kept" => d \in file[SentTo[d]]
  /\ \A k \in Cases :
       /\ case[k].stage = "starting" => case[k].due \subseteq file[case[k].chat]
       /\ case[k].stage \in {"executing", "reporting"} => case[k].due = {}

(* A session asks about a case that was started, and of its own chat.      *)
AsksOwn ==
  \A c \in Chats :
    /\ session[c].approval # NoCase =>
         case[session[c].approval].stage # "none" /\ case[session[c].approval].chat = c
    /\ session[c].state = "awaiting_approval" => session[c].approval # NoCase

DeskInv == DeskRows /\ QuotesFiled /\ AsksOwn

(* What ChatSessionStore.save leaves of a session.                         *)
LEMMA OverFields ==
  ASSUME NEW r \in SessionRow, NEW s \in SessionState
  PROVE  /\ Merged(r, [state |-> s]) = [state |-> s, pending |-> r.pending, approval |-> r.approval]
         /\ \A p \in BOOLEAN : Merged(r, [state |-> s, pending |-> p])
              = [state |-> s, pending |-> p, approval |-> r.approval]
         /\ \A k \in Cases \cup {NoCase} : Merged(r, [state |-> s, approval |-> k])
              = [state |-> s, pending |-> r.pending, approval |-> k]
         /\ \A p \in BOOLEAN, k \in Cases \cup {NoCase} :
              Merged(r, [state |-> s, pending |-> p, approval |-> k])
                = [state |-> s, pending |-> p, approval |-> k]
<1>1. DOMAIN r = {"state", "pending", "approval"}
  BY DEF SessionRow
<1>2. r = [state |-> r.state, pending |-> r.pending, approval |-> r.approval]
  BY DEF SessionRow
<1>3. Merged(r, [state |-> s]) = [state |-> s, pending |-> r.pending, approval |-> r.approval]
  <2>1. DOMAIN [state |-> s] = {"state"}
    OBVIOUS
  <2> QED BY <1>1, <1>2, <2>1 DEF Merged
<1>4. ASSUME NEW p \in BOOLEAN
      PROVE  Merged(r, [state |-> s, pending |-> p])
               = [state |-> s, pending |-> p, approval |-> r.approval]
  <2>1. DOMAIN [state |-> s, pending |-> p] = {"state", "pending"}
    OBVIOUS
  <2> QED BY <1>1, <1>2, <2>1 DEF Merged
<1>5. ASSUME NEW k \in Cases \cup {NoCase}
      PROVE  Merged(r, [state |-> s, approval |-> k])
               = [state |-> s, pending |-> r.pending, approval |-> k]
  <2>1. DOMAIN [state |-> s, approval |-> k] = {"state", "approval"}
    OBVIOUS
  <2> QED BY <1>1, <1>2, <2>1 DEF Merged
<1>6. ASSUME NEW p \in BOOLEAN, NEW k \in Cases \cup {NoCase}
      PROVE  Merged(r, [state |-> s, pending |-> p, approval |-> k])
               = [state |-> s, pending |-> p, approval |-> k]
  <2>1. DOMAIN [state |-> s, pending |-> p, approval |-> k] = {"state", "pending", "approval"}
    OBVIOUS
  <2> QED BY <1>1, <1>2, <2>1 DEF Merged
<1> QED BY <1>3, <1>4, <1>5, <1>6

(* A session is saved in one of two ways: it stops waiting for an approval *)
(* it is not asked for, or it is asked for k's.                            *)
Rests(c) ==
  /\ session' \in [Chats -> SessionRow]
  /\ \A e \in Chats \ {c} : session'[e] = session[e]
  /\ session'[c].approval \in {session[c].approval, NoCase}
  /\ session'[c].state # "awaiting_approval"

IsAsked(c, k) ==
  /\ session' \in [Chats -> SessionRow]
  /\ \A e \in Chats \ {c} : session'[e] = session[e]
  /\ session'[c].approval = k
  /\ session'[c].state = "awaiting_approval"

(* Whatever fields are saved, a session that is not asked rests.           *)
LEMMA SaveRests ==
  ASSUME DeskRows, NEW c \in Chats, NEW s \in SessionState \ {"awaiting_approval"},
         \/ Save(c, [state |-> s])
         \/ \E p \in BOOLEAN : Save(c, [state |-> s, pending |-> p])
         \/ Save(c, [state |-> s, approval |-> NoCase])
         \/ \E p \in BOOLEAN : Save(c, [state |-> s, pending |-> p, approval |-> NoCase])
  PROVE  Rests(c)
<1>1. session[c] \in SessionRow /\ session \in [Chats -> SessionRow]
  BY DEF DeskRows
<1>2. session[c].pending \in BOOLEAN /\ session[c].approval \in Cases \cup {NoCase}
  BY <1>1 DEF SessionRow
<1>3. ASSUME NEW new \in SessionRow, session' = [session EXCEPT ![c] = new],
             new.state = s, new.approval \in {session[c].approval, NoCase}
      PROVE  Rests(c)
  BY <1>1, <1>3 DEF Rests
<1>4. CASE Save(c, [state |-> s])
  <2>1. session' = [session EXCEPT ![c] = Merged(session[c], [state |-> s])]
    BY <1>4 DEF Save
  <2>2. Merged(session[c], [state |-> s])
          = [state |-> s, pending |-> session[c].pending, approval |-> session[c].approval]
    BY <1>1, OverFields
  <2>3. [state |-> s, pending |-> session[c].pending, approval |-> session[c].approval]
          \in SessionRow
    BY <1>2 DEF SessionRow
  <2> DEFINE new == [state |-> s, pending |-> session[c].pending, approval |-> session[c].approval]
  <2>4. new.state = s /\ new.approval \in {session[c].approval, NoCase}
    OBVIOUS
  <2> QED BY <1>3, <2>1, <2>2, <2>3, <2>4
<1>5. ASSUME NEW p \in BOOLEAN, Save(c, [state |-> s, pending |-> p]) PROVE Rests(c)
  <2>1. session' = [session EXCEPT ![c] = Merged(session[c], [state |-> s, pending |-> p])]
    BY <1>5 DEF Save
  <2>2. Merged(session[c], [state |-> s, pending |-> p])
          = [state |-> s, pending |-> p, approval |-> session[c].approval]
    BY <1>1, OverFields
  <2>3. [state |-> s, pending |-> p, approval |-> session[c].approval] \in SessionRow
    BY <1>2 DEF SessionRow
  <2> DEFINE new == [state |-> s, pending |-> p, approval |-> session[c].approval]
  <2>4. new.state = s /\ new.approval \in {session[c].approval, NoCase}
    OBVIOUS
  <2> QED BY <1>3, <2>1, <2>2, <2>3, <2>4
<1>6. CASE Save(c, [state |-> s, approval |-> NoCase])
  <2>1. session' = [session EXCEPT ![c] = Merged(session[c], [state |-> s, approval |-> NoCase])]
    BY <1>6 DEF Save
  <2>2. Merged(session[c], [state |-> s, approval |-> NoCase])
          = [state |-> s, pending |-> session[c].pending, approval |-> NoCase]
    <3> NoCase \in Cases \cup {NoCase}
      OBVIOUS
    <3> QED BY <1>1, OverFields
  <2>3. [state |-> s, pending |-> session[c].pending, approval |-> NoCase] \in SessionRow
    BY <1>2 DEF SessionRow
  <2> DEFINE new == [state |-> s, pending |-> session[c].pending, approval |-> NoCase]
  <2>4. new.state = s /\ new.approval \in {session[c].approval, NoCase}
    OBVIOUS
  <2> QED BY <1>3, <2>1, <2>2, <2>3, <2>4
<1>7. ASSUME NEW p \in BOOLEAN, Save(c, [state |-> s, pending |-> p, approval |-> NoCase])
      PROVE  Rests(c)
  <2>1. session' = [session EXCEPT ![c] = Merged(session[c], [state |-> s, pending |-> p,
                                                            approval |-> NoCase])]
    BY <1>7 DEF Save
  <2>2. Merged(session[c], [state |-> s, pending |-> p, approval |-> NoCase])
          = [state |-> s, pending |-> p, approval |-> NoCase]
    <3>1. \A q \in BOOLEAN, k \in Cases \cup {NoCase} :
            Merged(session[c], [state |-> s, pending |-> q, approval |-> k])
              = [state |-> s, pending |-> q, approval |-> k]
      BY <1>1, OverFields
    <3> QED BY <1>7, <3>1, Zenon
  <2>3. [state |-> s, pending |-> p, approval |-> NoCase] \in SessionRow
    BY <1>2 DEF SessionRow
  <2> DEFINE new == [state |-> s, pending |-> p, approval |-> NoCase]
  <2>4. new.state = s /\ new.approval \in {session[c].approval, NoCase}
    OBVIOUS
  <2> QED BY <1>3, <2>1, <2>2, <2>3, <2>4
<1> QED BY <1>4, <1>5, <1>6, <1>7

(* A session that is saved to wait is asked for the approval it names.     *)
LEMMA SaveAsks ==
  ASSUME DeskRows, NEW c \in Chats, NEW k \in Cases,
         Save(c, [state |-> "awaiting_approval", approval |-> k])
  PROVE  IsAsked(c, k)
<1>1. session[c] \in SessionRow /\ session \in [Chats -> SessionRow]
  BY DEF DeskRows
<1>2. session' = [session EXCEPT ![c] = [state |-> "awaiting_approval",
                                         pending |-> session[c].pending, approval |-> k]]
  <2>1. session' = [session EXCEPT ![c] = Merged(session[c], [state |-> "awaiting_approval",
                                                            approval |-> k])]
    BY DEF Save
  <2>2. "awaiting_approval" \in SessionState
    BY DEF SessionState
  <2>3. Merged(session[c], [state |-> "awaiting_approval", approval |-> k])
          = [state |-> "awaiting_approval", pending |-> session[c].pending, approval |-> k]
    <3> k \in Cases \cup {NoCase}
      OBVIOUS
    <3> QED BY <1>1, <2>2, OverFields
  <2> QED BY <2>1, <2>3
<1>3. [state |-> "awaiting_approval", pending |-> session[c].pending, approval |-> k] \in SessionRow
  BY <1>1 DEF SessionRow, SessionState
<1> QED BY <1>1, <1>2, <1>3 DEF IsAsked

(* What the cases are when nobody starts one: each goes on, or stops, for  *)
(* its own chat.                                                           *)
CasesGoOn ==
  /\ case' \in [Cases -> [stage : CaseStage, chat : Chats, due : SUBSET Docs]]
  /\ \A k \in Cases :
       /\ case'[k].chat = case[k].chat
       /\ (case'[k].stage = "none") <=> (case[k].stage = "none")
       /\ case'[k].stage = "starting" => case'[k].due = case[k].due /\ case[k].stage = "starting"
       /\ case'[k].stage \in {"executing", "reporting"} =>
            \/ case'[k].due = case[k].due /\ case[k].stage \in {"executing", "reporting"}
            \/ case'[k].due = case[k].due \ file[case[k].chat] /\ case[k].stage = "starting"

(* A step of a case reads or ends it, and saves the session of its own     *)
(* chat at most.                                                           *)
LEMMA CaseTurns ==
  ASSUME DeskInv, NEW k \in Cases, CaseStep(k)
  PROVE  /\ CasesGoOn /\ UNCHANGED <<file, upload>>
         /\ \/ UNCHANGED session
            \/ Rests(case[k].chat)
            \/ IsAsked(case[k].chat, k) /\ case[k].stage # "none"
<1>0. case \in [Cases -> [stage : CaseStage, chat : Chats, due : SUBSET Docs]]
      /\ k # NoCase /\ case[k].chat \in Chats
  BY DeskAssumption DEF DeskInv, DeskRows, NoCase, Cases
<1>1. CasesGoOn /\ UNCHANGED <<file, upload>>
  <2>1. CASE LoadQuotes(k)
    BY <1>0, <2>1 DEF LoadQuotes, CasesGoOn, CaseStage
  <2>2. ASSUME \/ CaseTo(k, "starting", "over") \/ CaseTo(k, "executing", "over")
               \/ CaseTo(k, "executing", "reporting") \/ CaseTo(k, "reporting", "over")
        PROVE  CasesGoOn
    BY <1>0, <2>2 DEF CaseTo, CasesGoOn, CaseStage
  <2> QED BY <2>1, <2>2 DEF CaseStep, LoadQuotes, StartFails, CaseRaises, RequestApproval,
             NoApproval, AnswerCase
<1>2. \/ UNCHANGED session
      \/ Rests(case[k].chat)
      \/ IsAsked(case[k].chat, k) /\ case[k].stage # "none"
  <2>1. CASE LoadQuotes(k) \/ StartFails(k) \/ RequestApproval(k) \/ NoApproval(k)
    BY <2>1 DEF LoadQuotes, StartFails, RequestApproval, NoApproval
  <2>2. CASE CaseRaises(k)
    <3>1. Save(case[k].chat, [state |-> "idle"])
      BY <2>2 DEF CaseRaises
    <3>2. "idle" \in SessionState \ {"awaiting_approval"}
      BY DEF SessionState
    <3> QED BY <1>0, <3>1, <3>2, SaveRests DEF DeskInv
  <2>3. CASE AnswerCase(k)
    <3>1. LatestPendingFor(k) \in {k, NoCase}
      BY DEF LatestPendingFor
    <3>2. CASE LatestPendingFor(k) = k
      BY <1>0, <2>3, <3>2, SaveAsks DEF AnswerCase, DeskInv, CaseTo
    <3>3. CASE LatestPendingFor(k) = NoCase
      <4>1. Save(case[k].chat, [state |-> "idle", approval |-> NoCase])
        BY <2>3, <3>3 DEF AnswerCase
      <4>2. "idle" \in SessionState \ {"awaiting_approval"}
        BY DEF SessionState
      <4> QED BY <1>0, <4>1, <4>2, SaveRests DEF DeskInv
    <3> QED BY <3>1, <3>2, <3>3
  <2> QED BY <2>1, <2>2, <2>3 DEF CaseStep
<1> QED BY <1>1, <1>2

(* A message starts a case that is due what the chat has kept, or changes  *)
(* the session alone.                                                      *)
Starts(c, k) ==
  /\ case[k].stage = "none"
  /\ case' = [case EXCEPT ![k] = [stage |-> "starting", chat |-> c, due |-> Kept(c)]]

(* A message never asks its chat for an approval, and starts one case at   *)
(* most.                                                                   *)
LEMMA MessageRests ==
  ASSUME DeskInv, NEW c \in Chats, HandleMessage(c)
  PROVE  /\ UNCHANGED <<file, upload>> /\ Rests(c)
         /\ UNCHANGED case \/ \E k \in Cases : Starts(c, k)
<1>1. PICK cues \in Texts, short \in BOOLEAN :
        LET intent == Classify(cues, session[c].state)
            bare   == intent = "procurement" /\ short /\ ~session[c].pending
        IN  \/ intent = "help" /\ Save(c, [state |-> "idle"]) /\ UNCHANGED case
            \/ intent = "new" /\ Clear(c) /\ UNCHANGED case
            \/ bare /\ Save(c, [state |-> "awaiting_spec", pending |-> TRUE]) /\ UNCHANGED case
            \/ ~bare /\ intent \in {"procurement", "procurement_followup"} /\ StartProcurement(c)
  BY DEF HandleMessage
<1>2. \/ Save(c, [state |-> "idle"]) /\ UNCHANGED case
      \/ Save(c, [state |-> "idle", pending |-> FALSE, approval |-> NoCase]) /\ UNCHANGED case
      \/ Save(c, [state |-> "awaiting_spec", pending |-> TRUE]) /\ UNCHANGED case
      \/ Save(c, [state |-> "running", pending |-> TRUE]) /\ \E k \in Cases : Starts(c, k)
  BY <1>1, Zenon DEF Clear, StartProcurement, Starts
<1>3. {"idle", "awaiting_spec", "running"} \subseteq SessionState \ {"awaiting_approval"}
  BY DEF SessionState
<1>4. Rests(c)
  <2>1. CASE Save(c, [state |-> "idle"])
    BY <1>3, <2>1, SaveRests DEF DeskInv
  <2>2. CASE Save(c, [state |-> "idle", pending |-> FALSE, approval |-> NoCase])
    BY <1>3, <2>2, SaveRests DEF DeskInv
  <2>3. CASE Save(c, [state |-> "awaiting_spec", pending |-> TRUE])
    BY <1>3, <2>3, SaveRests DEF DeskInv
  <2>4. CASE Save(c, [state |-> "running", pending |-> TRUE])
    BY <1>3, <2>4, SaveRests DEF DeskInv
  <2> QED BY <1>2, <2>1, <2>2, <2>3, <2>4
<1> QED BY <1>2, <1>4 DEF HandleMessage

(* Whoever is asked stays asked for a case of the same chat.               *)
LEMMA AskingKept ==
  ASSUME DeskInv,
         \A k \in Cases : case[k].stage # "none" =>
           case'[k].stage # "none" /\ case'[k].chat = case[k].chat,
         \/ UNCHANGED session
         \/ \E c \in Chats : Rests(c)
         \/ \E k \in Cases : IsAsked(case[k].chat, k) /\ case[k].stage # "none"
  PROVE  session' \in [Chats -> SessionRow] /\ AsksOwn'
<1>0. \A c \in Chats : session[c].approval \in Cases \cup {NoCase}
  BY DEF DeskInv, DeskRows, SessionRow
<1>1. CASE UNCHANGED session
  BY <1>0, <1>1 DEF DeskInv, DeskRows, AsksOwn
<1>2. ASSUME NEW c \in Chats, Rests(c) PROVE session' \in [Chats -> SessionRow] /\ AsksOwn'
  BY <1>0, <1>2 DEF DeskInv, AsksOwn, Rests
<1>3. ASSUME NEW k \in Cases, IsAsked(case[k].chat, k), case[k].stage # "none"
      PROVE  session' \in [Chats -> SessionRow] /\ AsksOwn'
  <2>1. k # NoCase
    BY DeskAssumption DEF Cases, NoCase
  <2> QED BY <1>0, <1>3, <2>1 DEF DeskInv, AsksOwn, IsAsked
<1> QED BY <1>1, <1>2, <1>3

(* A case that goes on has nothing new due and reads the file as it is.    *)
LEMMA CasesKept ==
  ASSUME DeskInv, CasesGoOn, UNCHANGED file,
         \A d \in Docs : upload'[d] = "kept" => upload[d] = "kept"
  PROVE  QuotesFiled'
BY DEF DeskInv, DeskRows, QuotesFiled, CasesGoOn

(* No message, document, case, button or restart breaks any of this.       *)
LEMMA DeskStep == DeskInv /\ [DeskNext]_deskVars => DeskInv'
<1> SUFFICES ASSUME DeskInv, [DeskNext]_deskVars PROVE DeskInv'
  OBVIOUS
<1>0. /\ session \in [Chats -> SessionRow] /\ file \in [Chats -> SUBSET Docs]
      /\ upload \in [Docs -> UploadStage]
      /\ case \in [Cases -> [stage : CaseStage, chat : Chats, due : SUBSET Docs]]
      /\ \A d \in Docs : SentTo[d] \in Chats
  BY DeskAssumption DEF DeskInv, DeskRows, Docs
<1>1. ASSUME NEW k \in Cases, CaseStep(k) PROVE DeskInv'
  <2>1. /\ CasesGoOn /\ UNCHANGED <<file, upload>>
        /\ \/ UNCHANGED session
           \/ Rests(case[k].chat)
           \/ IsAsked(case[k].chat, k) /\ case[k].stage # "none"
    BY <1>1, CaseTurns
  <2>2. session' \in [Chats -> SessionRow] /\ AsksOwn'
    BY <1>0, <2>1, AskingKept DEF CasesGoOn
  <2>3. QuotesFiled'
    BY <2>1, CasesKept
  <2> QED BY <1>0, <2>1, <2>2, <2>3 DEF DeskInv, DeskRows, CasesGoOn
<1>2. ASSUME NEW c \in Chats, HandleMessage(c) PROVE DeskInv'
  <2>1. UNCHANGED <<file, upload>> /\ Rests(c)
    BY <1>2, MessageRests
  <2>2. CASE UNCHANGED case
    BY <1>0, <2>1, <2>2, AskingKept DEF DeskInv, DeskRows, QuotesFiled
  <2>3. ASSUME NEW k \in Cases, Starts(c, k) PROVE DeskInv'
    <3>1. Kept(c) \subseteq file[c] /\ Kept(c) \subseteq Docs
      BY <1>0 DEF Kept, DeskInv, QuotesFiled
    <3>2. case' \in [Cases -> [stage : CaseStage, chat : Chats, due : SUBSET Docs]]
      BY <1>0, <2>3, <3>1 DEF Starts, CaseStage
    <3>3. QuotesFiled'
      BY <1>0, <2>1, <2>3, <3>1 DEF Starts, DeskInv, QuotesFiled
    <3>4. session' \in [Chats -> SessionRow] /\ AsksOwn'
      BY <1>0, <2>1, <2>3, AskingKept DEF Starts
    <3> QED BY <1>0, <2>1, <3>2, <3>3, <3>4 DEF DeskInv, DeskRows
  <2> QED BY <1>2, <2>2, <2>3, MessageRests
<1>3. ASSUME NEW c \in Chats, AfterResolve(c) PROVE DeskInv'
  <2>1. Rests(c)
    <3>1. "idle" \in SessionState \ {"awaiting_approval"}
      BY DEF SessionState
    <3>2. Save(c, [state |-> "idle", approval |-> NoCase])
      BY <1>3 DEF AfterResolve
    <3> QED BY <3>1, <3>2, SaveRests DEF DeskInv
  <2>2. UNCHANGED <<file, upload, case>>
    BY <1>3 DEF AfterResolve
  <2> QED BY <1>0, <2>1, <2>2, AskingKept DEF DeskInv, DeskRows, QuotesFiled
<1>4. ASSUME NEW d \in Docs, HandleDocument(d) \/ Downloaded(d) PROVE DeskInv'
  <2>1. UNCHANGED <<session, case>> /\ AsksOwn'
    BY <1>4 DEF HandleDocument, Downloaded, DeskInv, AsksOwn
  <2>2. /\ upload' \in [Docs -> UploadStage] /\ file' \in [Chats -> SUBSET Docs]
        /\ \A e \in Chats : file[e] \subseteq file'[e]
        /\ \A e \in Docs : upload'[e] = "kept" => e \in file'[SentTo[e]]
    BY <1>0, <1>4 DEF HandleDocument, Downloaded, UploadTo, StoreQuotes, UploadStage, DeskInv,
       QuotesFiled
  <2>3. QuotesFiled'
    BY <1>0, <2>1, <2>2 DEF DeskInv, QuotesFiled
  <2> QED BY <1>0, <2>1, <2>2, <2>3 DEF DeskInv, DeskRows
<1>5. CASE Restart
  <2>1. CasesGoOn
    BY <1>0, <1>5 DEF Restart, CasesGoOn, CaseStage
  <2>2. /\ upload' \in [Docs -> UploadStage] /\ UNCHANGED <<session, file>>
        /\ \A d \in Docs : upload'[d] = "kept" => upload[d] = "kept"
    BY <1>0, <1>5 DEF Restart, UploadStage
  <2>3. QuotesFiled' /\ AsksOwn'
    BY <2>1, <2>2, CasesKept, AskingKept DEF CasesGoOn
  <2> QED BY <1>0, <2>1, <2>2, <2>3 DEF DeskInv, DeskRows, CasesGoOn
<1>6. CASE UNCHANGED <<session, file, upload, case>>
  BY <1>6 DEF DeskInv, DeskRows, QuotesFiled, AsksOwn
<1> QED
  BY <1>1, <1>2, <1>3, <1>4, <1>5, <1>6 DEF DeskNext, ResolveBlocking, deskVars

(* Nobody has written yet: every session is idle and no case was started.  *)
LEMMA DeskInitial == DeskInit => DeskInv
<1> SUFFICES ASSUME DeskInit PROVE DeskInv
  OBVIOUS
<1>1. (CHOOSE c \in Chats : TRUE) \in Chats
  BY DeskAssumption
<1>2. case \in [Cases -> [stage : CaseStage, chat : Chats, due : SUBSET Docs]]
      /\ \A k \in Cases : case[k].stage = "none"
  BY <1>1 DEF DeskInit, CaseStage
<1>3. session \in [Chats -> SessionRow]
      /\ \A c \in Chats : session[c].approval = NoCase /\ session[c].state = "idle"
  BY DEF DeskInit, SessionRow, SessionState
<1>4. upload \in [Docs -> UploadStage] /\ file \in [Chats -> SUBSET Docs]
      /\ \A d \in Docs : upload[d] = "none"
  BY DEF DeskInit, UploadStage
<1> QED BY <1>2, <1>3, <1>4 DEF DeskInv, DeskRows, QuotesFiled, AsksOwn

(* All states of the chat satisfy it.                                      *)
LEMMA DeskInvariant == DeskSpec => []DeskInv
BY DeskInitial, DeskStep, PTL DEF DeskSpec

(* A case analyses every quote whose receipt its chat had confirmed when   *)
(* the request was handled (handler.py:240, :436), with any number of      *)
(* chats, documents and cases, and however often the server restarts.      *)
THEOREM CasesSeeUploads == DeskSpec => []CaseSeesUploads
<1>1. DeskInv => CaseSeesUploads
  BY DEF DeskInv, QuotesFiled, CaseSeesUploads
<1> QED BY <1>1, DeskInvariant, PTL

(* No chat is asked to approve what another chat's case has requested      *)
(* (handler.py:526, :653), with any limit on the pending requests read.    *)
THEOREM ChatsAskForTheirOwn == DeskSpec => []AsksForItsOwn
<1>1. DeskInv => AsksForItsOwn
  BY DEF DeskInv, AsksOwn, AsksForItsOwn
<1> QED BY <1>1, DeskInvariant, PTL

-----------------------------------------------------------------------------
(* The domain services.                                                    *)

(* One set of services.                                                    *)
DeskOf == [targets : SUBSET Competitors, findings : SUBSET Competitors, age : 0..FreshFor + 1,
           sources : SUBSET Range(Kinds)]

(* Every thread uses a set of services that was built.                     *)
ServiceInv ==
  /\ services \in Threads \cup {"none"}
  /\ desk \in [Threads -> DeskOf]
  /\ asking \in [Threads -> Threads \cup {"idle", "building"}]

(* A new set of services watches the defaults.                             *)
LEMMA NewDeskTyped == NewDesk \in DeskOf
BY ServiceAssumption DEF NewDesk, DeskOf

(* What a request does to the services it uses: it may watch one more      *)
(* competitor and never one less, and it builds nothing.                   *)
HasServices(t) ==
  /\ services' = services
  /\ asking' \in [Threads -> Threads \cup {"idle", "building"}]
  /\ \A u \in Threads : asking'[u] = "building" => asking[u] = "building"
  /\ desk' \in [Threads -> DeskOf]
  /\ \A u \in Threads : desk[u].targets \subseteq desk'[u].targets

(* Every request that has its services does no more than that.             *)
LEMMA RequestServes ==
  ASSUME ServiceInv, NEW t \in Threads,
         \/ ChatBrief(t) \/ ApiBrief(t) \/ Attend(t)
         \/ \E c \in Competitors : Watch(t, c)
         \/ \E kind \in Range(Kinds) : Connect(t, kind)
  PROVE  HasServices(t)
<1>1. /\ services' = services /\ Serving(t) /\ Done(t)
  BY DEF ChatBrief, ApiBrief, Attend, Watch, Connect
<1>2. /\ asking' \in [Threads -> Threads \cup {"idle", "building"}]
      /\ \A u \in Threads : asking'[u] = "building" => asking[u] = "building"
  BY <1>1 DEF ServiceInv, Done
<1> DEFINE d == desk[asking[t]]
<1>3. d \in DeskOf
  BY <1>1 DEF ServiceInv, Serving
<1>4. ASSUME NEW new \in DeskOf, d.targets \subseteq new.targets, OnDesk(t, new)
      PROVE  /\ desk' \in [Threads -> DeskOf]
             /\ \A u \in Threads : desk[u].targets \subseteq desk'[u].targets
  BY <1>1, <1>4 DEF ServiceInv, OnDesk, Serving
<1>5. CASE \E c \in Competitors : Watch(t, c)
  <2>1. PICK c \in Competitors : OnDesk(t, [d EXCEPT !.targets = @ \cup {c}])
    BY <1>5 DEF Watch
  <2>2. [d EXCEPT !.targets = @ \cup {c}] \in DeskOf
        /\ d.targets \subseteq [d EXCEPT !.targets = @ \cup {c}].targets
    BY <1>3 DEF DeskOf
  <2> QED BY <1>1, <1>2, <1>4, <2>1, <2>2 DEF HasServices
<1>6. CASE ChatBrief(t)
  <2>1. PICK findings \in IF d.age > FreshFor THEN Collected(d.targets) ELSE {d.findings} :
          OnDesk(t, [d EXCEPT !.findings = findings, !.age = IF @ > FreshFor THEN 0 ELSE @])
    BY <1>6 DEF ChatBrief
  <2>2. findings \in SUBSET Competitors
    BY <1>3 DEF DeskOf, Collected
  <2> DEFINE new == [d EXCEPT !.findings = findings, !.age = IF @ > FreshFor THEN 0 ELSE @]
  <2>3. new \in DeskOf /\ new.targets = d.targets
    <3>1. ASSUME NEW b \in 0..FreshFor + 1
          PROVE  /\ [d EXCEPT !.findings = findings, !.age = b] \in DeskOf
                 /\ [d EXCEPT !.findings = findings, !.age = b].targets = d.targets
      BY <1>3, <2>2 DEF DeskOf
    <3>2. (IF d.age > FreshFor THEN 0 ELSE d.age) \in 0..FreshFor + 1
      BY <1>3, ServiceAssumption DEF DeskOf
    <3> QED BY <3>1, <3>2, Zenon
  <2> HIDE DEF new
  <2>4. OnDesk(t, new)
    BY <2>1 DEF new
  <2> QED BY <1>1, <1>2, <1>4, <2>3, <2>4 DEF HasServices
<1>7. CASE \E kind \in Range(Kinds) : Connect(t, kind)
  <2>1. PICK sources \in SUBSET Range(Kinds) : OnDesk(t, [d EXCEPT !.sources = sources])
    <3>1. PICK kind \in Range(Kinds) : Connect(t, kind)
      BY <1>7
    <3>2. /\ d.sources \cup {kind} \in SUBSET Range(Kinds)
          /\ d.sources \ {kind} \in SUBSET Range(Kinds)
      BY <1>3 DEF DeskOf
    <3> QED BY <3>1, <3>2 DEF Connect
  <2>2. [d EXCEPT !.sources = sources] \in DeskOf
        /\ [d EXCEPT !.sources = sources].targets = d.targets
    BY <1>3 DEF DeskOf
  <2> QED BY <1>1, <1>2, <1>4, <2>1, <2>2 DEF HasServices
<1>8. CASE UNCHANGED desk
  BY <1>1, <1>2, <1>8 DEF HasServices, ServiceInv
<1> QED BY <1>5, <1>6, <1>7, <1>8 DEF ApiBrief, Attend

(* What every step does to the set in use.                                 *)
LEMMA ServiceStep ==
  ASSUME ServiceInv, [ServiceNext]_serviceVars
  PROVE  /\ ServiceInv'
         /\ Settled => /\ Settled' /\ services' = services
                       /\ desk[services].targets \subseteq desk'[services].targets
<1>1. ASSUME NEW t \in Threads, HasServices(t)
      PROVE  /\ ServiceInv'
             /\ Settled => /\ Settled' /\ services' = services
                           /\ desk[services].targets \subseteq desk'[services].targets
  BY <1>1 DEF HasServices, ServiceInv, Settled
<1>2. ASSUME NEW t \in Threads, Enter(t)
      PROVE  /\ ServiceInv'
             /\ Settled => /\ Settled' /\ services' = services
                           /\ desk[services].targets \subseteq desk'[services].targets
  BY <1>2, ServiceAssumption DEF Enter, ServiceInv, Settled
<1>3. ASSUME NEW t \in Threads, Build(t)
      PROVE  ServiceInv' /\ ~ Settled
  BY <1>3, NewDeskTyped DEF Build, ServiceInv, Settled
<1>4. CASE ServiceTick
  <2>1. ASSUME NEW t \in Threads
        PROVE  desk'[t] \in DeskOf /\ desk'[t].targets = desk[t].targets
    <3>1. desk'[t] = [desk[t] EXCEPT !.age = IF @ > FreshFor THEN @ ELSE @ + 1]
      BY <1>4 DEF ServiceTick
    <3>2. desk[t] \in DeskOf
      BY DEF ServiceInv
    <3> QED BY <3>1, <3>2, ServiceAssumption DEF DeskOf
  <2>2. desk' \in [Threads -> DeskOf]
    BY <1>4, <2>1 DEF ServiceTick
  <2> QED BY <1>4, <2>1, <2>2 DEF ServiceTick, ServiceInv, Settled
<1>5. CASE UNCHANGED serviceVars
  BY <1>5 DEF serviceVars, ServiceInv, Settled
<1> QED BY <1>1, <1>2, <1>3, <1>4, <1>5, RequestServes DEF ServiceNext

(* Once one set of services is in place and no request is still building,  *)
(* that set stays and keeps what it watches (runtime.py:79,                *)
(* handler.py:617), with any number of threads and competitors.            *)
THEOREM ServicesStay == ServiceSpec => WatchesKept
<1>1. ServiceInit => ServiceInv
  BY NewDeskTyped DEF ServiceInit, ServiceInv
<1>2. ServiceInv /\ [ServiceNext]_serviceVars => ServiceInv'
  BY ServiceStep
<1>3. ServiceInv /\ [ServiceNext]_serviceVars
        => [Settled => /\ Settled' /\ services' = services
                       /\ desk[services].targets \subseteq desk'[services].targets]_serviceVars
  BY ServiceStep
<1> QED BY <1>1, <1>2, <1>3, PTL DEF ServiceSpec, WatchesKept

-----------------------------------------------------------------------------
(* The knowledge base.                                                     *)

(* The full-text index files each document under the words it has now.     *)
KnowledgeInv ==
  /\ DOMAIN kbDocs \subseteq DocIds /\ IsFiniteSet(DOMAIN kbDocs)
  /\ kbDocs = [id \in DOMAIN kbDocs |-> kbDocs[id]]
  /\ \A id \in DOMAIN kbDocs : kbDocs[id] \in KnowledgeDoc
  /\ kbFts = {<<id, kbDocs[id].content>> : id \in DOMAIN kbDocs}

(* Before an id is filed again nothing is filed under it.                  *)
LEMMA RefileClears ==
  ASSUME KnowledgeInv, NEW id
  PROVE  Refile(id) = {<<d, kbDocs[d].content>> : d \in DOMAIN kbDocs \ {id}}
BY DEF KnowledgeInv, Refile, Filed

(* put of a document leaves the index of the documents there are then.     *)
LEMMA PutFiles ==
  ASSUME KnowledgeInv, NEW id \in DocIds, NEW put \in KnowledgeDoc, Put(id, put)
  PROVE  KnowledgeInv'
<1>1. DOMAIN kbDocs' = DOMAIN kbDocs \cup {id}
  BY DEF Put
<1>2. /\ kbDocs'[id] = put
      /\ \A d \in DOMAIN kbDocs \ {id} : kbDocs'[d] = kbDocs[d]
  BY DEF Put
<1>3. kbFts' = {<<d, kbDocs[d].content>> : d \in DOMAIN kbDocs \ {id}} \cup {<<id, put.content>>}
  BY RefileClears DEF Put, Filed
<1>4. kbFts' = {<<d, kbDocs'[d].content>> : d \in DOMAIN kbDocs'}
  BY <1>1, <1>2, <1>3
<1>5. IsFiniteSet(DOMAIN kbDocs \cup {id})
  BY FS_AddElement DEF KnowledgeInv
<1>6. kbDocs' = [d \in DOMAIN kbDocs' |-> kbDocs'[d]]
  BY <1>1 DEF Put
<1> QED BY <1>1, <1>2, <1>4, <1>5, <1>6 DEF KnowledgeInv

(* No insert, update or deletion leaves the index behind.                  *)
LEMMA KnowledgeStep == KnowledgeInv /\ [KnowledgeNext]_knowledgeVars => KnowledgeInv'
<1> SUFFICES ASSUME KnowledgeInv, [KnowledgeNext]_knowledgeVars PROVE KnowledgeInv'
  OBVIOUS
<1>1. CASE IngestDoc
  <2>1. PICK id \in DocIds \ DOMAIN kbDocs, t \in KbTenants, s \in Scopes, u \in Readers,
             c \in Contents :
          Put(id, [tenant |-> t, scope |-> s, content |-> c, shared |-> {},
                   owner |-> IF s = "personal" THEN u ELSE <<>>])
    BY <1>1 DEF IngestDoc
  <2>2. [tenant |-> t, scope |-> s, content |-> c, shared |-> {},
         owner |-> IF s = "personal" THEN u ELSE <<>>] \in KnowledgeDoc
    BY DEF KnowledgeDoc
  <2> QED BY <2>1, <2>2, PutFiles
<1>2. CASE Rewrite
  <2>1. PICK id \in DOMAIN kbDocs, c \in Contents, with \in SUBSET Readers :
          Put(id, [kbDocs[id] EXCEPT !.content = c,
                     !.shared = IF kbDocs[id].scope = "personal" THEN with ELSE {}])
    BY <1>2 DEF Rewrite
  <2>2. kbDocs[id] \in KnowledgeDoc /\ id \in DocIds
    BY DEF KnowledgeInv
  <2>3. [kbDocs[id] EXCEPT !.content = c,
           !.shared = IF kbDocs[id].scope = "personal" THEN with ELSE {}] \in KnowledgeDoc
    BY <2>2 DEF KnowledgeDoc
  <2> QED BY <2>1, <2>2, <2>3, PutFiles
<1>3. CASE DeleteDoc
  <2>1. PICK id \in DOMAIN kbDocs : /\ kbDocs' = [d \in DOMAIN kbDocs \ {id} |-> kbDocs[d]]
                                    /\ kbFts' = Refile(id)
    BY <1>3 DEF DeleteDoc
  <2>2. /\ DOMAIN kbDocs' = DOMAIN kbDocs \ {id}
        /\ \A d \in DOMAIN kbDocs \ {id} : kbDocs'[d] = kbDocs[d]
    BY <2>1
  <2>3. kbFts' = {<<d, kbDocs'[d].content>> : d \in DOMAIN kbDocs'}
    BY <2>1, <2>2, RefileClears
  <2>4. IsFiniteSet(DOMAIN kbDocs \ {id})
    BY FS_RemoveElement DEF KnowledgeInv
  <2>5. kbDocs' = [d \in DOMAIN kbDocs' |-> kbDocs'[d]]
    BY <2>1, <2>2
  <2> QED BY <2>2, <2>3, <2>4, <2>5 DEF KnowledgeInv
<1>4. CASE UNCHANGED knowledgeVars
  BY <1>4 DEF knowledgeVars, KnowledgeInv
<1> QED BY <1>1, <1>2, <1>3, <1>4 DEF KnowledgeNext

(* The ids shared with, joined and split again, hold a reader whole.       *)
LEMMA VisibleIsShared ==
  ASSUME NEW put \in KnowledgeDoc, NEW u \in Readers, PersonalVisible(put, u)
  PROVE  put.owner = u \/ \E v \in put.shared : Range(u) \subseteq Range(v)
<1>1. CASE Len(u) = 1 /\ u[1] \in SharedParts(put.shared)
  <2>1. PICK v \in put.shared : u[1] \in Range(v)
    BY <1>1 DEF SharedParts
  <2>2. Range(u) = {u[1]}
    BY <1>1, KnowledgeAssumption DEF Range
  <2> QED BY <2>1, <2>2
<1> QED BY <1>1 DEF PersonalVisible

(* A search answers from the documents as they are now                     *)
(* (knowledge/store.py:31, :104), with any number of documents, tenants    *)
(* and readers, any contents and any limit.                                *)
THEOREM SearchesAreCurrent == KnowledgeSpec => []AnswersAreCurrent
<1>1. KnowledgeInit => KnowledgeInv
  BY FS_EmptySet DEF KnowledgeInit, KnowledgeInv
<1>2. KnowledgeInv => AnswersAreCurrent
  <2> SUFFICES ASSUME KnowledgeInv,
                      NEW query \in Contents, NEW t \in KbTenants, NEW s \in Scopes,
                      NEW u \in Readers
               PROVE  LET has(id) == kbDocs[id].content \cap query # {}
                                       /\ kbDocs[id].tenant = t /\ kbDocs[id].scope = s
                          mine(id) == s = "team" \/ kbDocs[id].owner = u
                      IN  \A reply \in Query(query, t, s, u) :
                            /\ \A id \in reply.sources :
                                 has(id) /\ (mine(id) \/ \E v \in kbDocs[id].shared :
                                                            Range(u) \subseteq Range(v))
                            /\ Cardinality({id \in DOMAIN kbDocs : has(id)}) <= Limit =>
                                 {id \in DOMAIN kbDocs : has(id) /\ mine(id)}
                                   \subseteq reply.sources
    BY Zenon DEF AnswersAreCurrent
  <2> DEFINE has(id) == kbDocs[id].content \cap query # {} /\ kbDocs[id].tenant = t
                          /\ kbDocs[id].scope = s
             mine(id) == s = "team" \/ kbDocs[id].owner = u
             matching == {id \in DOMAIN kbDocs : has(id)}
             n == Cardinality(matching)
             visible(id) == s = "personal" => PersonalVisible(kbDocs[id], u)
  <2> SUFFICES ASSUME NEW reply \in Query(query, t, s, u)
               PROVE  /\ \A id \in reply.sources :
                           has(id) /\ (mine(id) \/ \E v \in kbDocs[id].shared :
                                                      Range(u) \subseteq Range(v))
                      /\ n <= Limit =>
                           {id \in DOMAIN kbDocs : has(id) /\ mine(id)} \subseteq reply.sources
    OBVIOUS
  <2>1. matching = {id \in DOMAIN kbDocs :
                      /\ \E row \in kbFts : row[1] = id /\ row[2] \cap query # {}
                      /\ kbDocs[id].tenant = t /\ kbDocs[id].scope = s}
    <3>1. \A id \in DOMAIN kbDocs :
            (\E row \in kbFts : row[1] = id /\ row[2] \cap query # {})
              <=> kbDocs[id].content \cap query # {}
      <4>1. \A row \in kbFts : \E d \in DOMAIN kbDocs : row[1] = d /\ row[2] = kbDocs[d].content
        BY DEF KnowledgeInv
      <4>2. \A id \in DOMAIN kbDocs : \E row \in kbFts : row[1] = id /\ row[2] = kbDocs[id].content
        <5> SUFFICES ASSUME NEW id \in DOMAIN kbDocs
                     PROVE  \E row \in kbFts : row[1] = id /\ row[2] = kbDocs[id].content
          OBVIOUS
        <5>1. <<id, kbDocs[id].content>> \in kbFts
          BY DEF KnowledgeInv
        <5> QED BY <5>1
      <4> QED BY <4>1, <4>2
    <3> QED BY <3>1
  <2>2. PICK rows \in kSubset(IF n < Limit THEN n ELSE Limit, matching) :
          reply.sources = {id \in rows : visible(id)}
    BY <2>1 DEF Query, Search
  <2>3. rows \subseteq matching /\ Cardinality(rows) = IF n < Limit THEN n ELSE Limit
    BY <2>2 DEF kSubset
  <2>4. IsFiniteSet(matching) /\ n \in Nat
    BY FS_Subset, FS_CardinalityType DEF KnowledgeInv
  <2>5. ASSUME n <= Limit PROVE rows = matching
    BY <2>3, <2>4, <2>5, FS_Subset, KnowledgeAssumption
  <2>6. ASSUME NEW id \in reply.sources
        PROVE  has(id) /\ (mine(id) \/ \E v \in kbDocs[id].shared : Range(u) \subseteq Range(v))
    <3>1. id \in matching /\ visible(id) /\ kbDocs[id] \in KnowledgeDoc
      BY <2>2, <2>3, <2>6 DEF KnowledgeInv
    <3> QED BY <3>1, VisibleIsShared DEF Scopes
  <2>7. ASSUME NEW id \in DOMAIN kbDocs, has(id), mine(id) PROVE visible(id)
    BY <2>7, KnowledgeAssumption DEF PersonalVisible
  <2> QED BY <2>2, <2>5, <2>6, <2>7
<1> QED BY <1>1, <1>2, KnowledgeStep, PTL DEF KnowledgeSpec
-----------------------------------------------------------------------------
(* The recommendation of a procurement case: the policy's arithmetic first. *)

(* Any finite list of totals has a highest one.                            *)
LEMMA HighestThere ==
  ASSUME NEW n \in Nat, n > 0, NEW f, \A i \in 1..n : f[i] \in Int
  PROVE  \E i \in 1..n : \A j \in 1..n : f[j] <= f[i]
<1> DEFINE Bad == {m \in Nat : m \in 1..n /\ \A i \in 1..m : \E j \in 1..m : ~ (f[j] <= f[i])}
<1> SUFFICES ASSUME Bad # {} PROVE FALSE
  <2>1. n \in 1..n
    OBVIOUS
  <2> QED BY <2>1
<1>1. PICK m \in Bad : \A k \in Bad : ~ (<<k, m>> \in OpToRel(<, Nat))
  <2>1. Bad \subseteq Nat
    OBVIOUS
  <2>2. IsWellFoundedOn(OpToRel(<, Nat), Nat)
    BY NatLessThanWellFounded
  <2> HIDE DEF Bad
  <2> QED BY <2>1, <2>2, WFMin
<1>2. \A k \in Bad : ~ (k < m)
  BY <1>1 DEF OpToRel
<1>3. m \in 1..n /\ \A i \in 1..m : \E j \in 1..m : ~ (f[j] <= f[i])
  OBVIOUS
<1>4. m # 1
  BY <1>3
<1>5. m - 1 \in 1..n /\ m - 1 \in Nat /\ m - 1 < m /\ m - 1 \notin Bad
  <2>1. m \in Nat /\ m - 1 \in 1..n /\ m - 1 \in Nat /\ m - 1 < m
    BY <1>3, <1>4
  <2> HIDE DEF Bad
  <2> QED BY <1>2, <2>1
<1>6. PICK i \in 1..(m - 1) : \A j \in 1..(m - 1) : f[j] <= f[i]
  BY <1>5
<1>7. CASE f[m] <= f[i]
  <2>1. \A j \in 1..m : j = m \/ j \in 1..(m - 1)
    BY <1>3
  <2>2. i \in 1..m
    BY <1>3
  <2>3. \A j \in 1..m : f[j] <= f[i]
    BY <1>6, <1>7, <2>1
  <2> QED BY <2>2, <2>3, <1>3
<1>8. CASE ~ (f[m] <= f[i])
  <2>1. f[m] \in Int /\ f[i] \in Int /\ m \in 1..m
    BY <1>3
  <2>2. \A j \in 1..m : j = m \/ (j \in 1..(m - 1) /\ f[j] \in Int)
    BY <1>3
  <2>3. \A j \in 1..m : f[j] <= f[m]
    <3> SUFFICES ASSUME NEW j \in 1..m PROVE f[j] <= f[m]
      OBVIOUS
    <3>1. CASE j = m
      BY <2>1, <3>1
    <3>2. CASE j \in 1..(m - 1) /\ f[j] \in Int
      BY <1>6, <1>8, <2>1, <3>2
    <3> QED BY <2>2, <3>1, <3>2
  <2> QED BY <2>1, <2>3, <1>3
<1> QED BY <1>7, <1>8

(* Totals are integers and there is a lowest and a highest one.            *)
LEMMA SpreadThere ==
  ASSUME NEW q \in Seq(Offers), q # <<>>
  PROVE  /\ Totals(q) \subseteq Int
         /\ Lowest(q) \in Totals(q) /\ \A t \in Totals(q) : Lowest(q) <= t
         /\ Highest(q) \in Totals(q) /\ \A t \in Totals(q) : Highest(q) >= t
<1> DEFINE n == Len(q)
<1>1. /\ n \in Nat /\ n > 0 /\ DOMAIN q = 1..n
      /\ \A i \in 1..n : q[i].total \in Int
  <2>1. n \in Nat /\ n > 0 /\ DOMAIN q = 1..n /\ \A i \in 1..n : q[i] \in Offers
    OBVIOUS
  <2> QED BY <2>1 DEF Offers
<1>2. Totals(q) \subseteq Int
  BY <1>1 DEF Totals
<1>3. \E t \in Totals(q) : \A u \in Totals(q) : t >= u
  <2> DEFINE f == [i \in 1..n |-> q[i].total]
  <2>1. \A i \in 1..n : f[i] \in Int
    BY <1>1
  <2>2. PICK i \in 1..n : \A j \in 1..n : f[j] <= f[i]
    <3> HIDE DEF f, n
    <3> QED BY <1>1, <2>1, HighestThere
  <2> QED BY <1>1, <2>2 DEF Totals
<1>4. \E t \in Totals(q) : \A u \in Totals(q) : t <= u
  <2> DEFINE f == [i \in 1..n |-> 0 - q[i].total]
  <2>1. \A i \in 1..n : f[i] \in Int
    BY <1>1
  <2>2. PICK i \in 1..n : \A j \in 1..n : f[j] <= f[i]
    <3> HIDE DEF f, n
    <3> QED BY <1>1, <2>1, HighestThere
  <2>3. \A j \in 1..n : q[i].total <= q[j].total
    BY <1>1, <2>2
  <2> QED BY <1>1, <2>3 DEF Totals
<1> QED BY <1>2, <1>3, <1>4 DEF Lowest, Highest

(* Of a set of positions one is the first.                                 *)
LEMMA FirstThere ==
  ASSUME NEW n \in Nat, NEW I \in SUBSET (1..n), I # {}
  PROVE  Min(I) \in I /\ \A j \in I : Min(I) <= j
<1>1. I \subseteq Nat
  OBVIOUS
<1>2. PICK i \in I : \A k \in I : ~ (<<k, i>> \in OpToRel(<, Nat))
  BY <1>1, WFMin, NatLessThanWellFounded
<1>3. \A k \in I : ~ (k < i)
  BY <1>1, <1>2 DEF OpToRel
<1>4. \A k \in I : k \in Nat /\ i \in Nat /\ i <= k
  BY <1>1, <1>3
<1> QED BY <1>4 DEF Min

(* What an offer is worth apart from its price.                            *)
Worth(quote, terms, score) ==
  23 * ( 20 * NormalizeWarranty(terms.warranty) + 15 * NormalizeSpec(score)
         + 10 * NormalizePayment(terms.payment) + TierBonus[quote.tier] )
  + 15 * NormalizeSla(terms.sla)

Terms == [payment : STRING, warranty : Int, sla : Int]

(* A larger factor never makes a product of naturals smaller.              *)
LEMMA ScaleUp ==
  ASSUME NEW s \in Nat, NEW a \in Int, NEW b \in Int, a >= b
  PROVE  s * a >= s * b
OBVIOUS

(* Every part of a score is an integer.                                    *)
LEMMA PartsTyped ==
  ASSUME NEW o \in Offers, NEW terms \in Terms, NEW score \in Int
  PROVE  /\ TierBonus[o.tier] \in Int /\ NormalizeWarranty(terms.warranty) \in Int
         /\ NormalizeSla(terms.sla) \in Int /\ NormalizePayment(terms.payment) \in Int
         /\ NormalizeSpec(score) \in Int
<1>1. TierBonus[o.tier] \in Int
  BY DEF Offers, TierBonus
<1>2. NormalizeWarranty(terms.warranty) \in Int /\ NormalizeSla(terms.sla) \in Int
  BY DEF Terms, NormalizeWarranty, NormalizeSla, Lesser
<1>3. NormalizePayment(terms.payment) \in Int
  BY DEF NormalizePayment
<1>4. NormalizeSpec(score) \in Int
  BY DEF NormalizeSpec, Lesser, Greater
<1> QED BY <1>1, <1>2, <1>3, <1>4

(* The worth of an offer is an integer.                                    *)
LEMMA WorthTyped ==
  ASSUME NEW o \in Offers, NEW terms \in Terms, NEW score \in Int
  PROVE  Worth(o, terms, score) \in Int
BY PartsTyped DEF Worth

(* The normalised price and the spread are naturals, the spread positive.  *)
LEMMA PriceTyped ==
  ASSUME NEW q \in Seq(Offers), q # <<>>, NEW t \in Totals(q)
  PROVE  /\ Spread(q) \in Nat \ {0} /\ NormalizePrice(t, q) \in Nat
         /\ Highest(q) \in Int /\ Lowest(q) \in Int /\ t \in Int
<1>1. /\ Lowest(q) \in Int /\ Highest(q) \in Int /\ t \in Int
      /\ Lowest(q) <= t /\ t <= Highest(q)
  BY SpreadThere
<1>2. Spread(q) \in Nat \ {0}
  BY <1>1 DEF Spread, Greater
<1>3. NormalizePrice(t, q) \in Nat
  BY <1>1 DEF NormalizePrice
<1> QED BY <1>1, <1>2, <1>3

(* A score is the price, weighed, and the spread times what else counts.   *)
LEMMA ScoreParts ==
  ASSUME NEW q \in Seq(Offers), NEW o \in Offers, q # <<>>, o.total \in Totals(q),
         NEW terms \in Terms, NEW score \in Int
  PROVE  Score(o, terms, score, q)
           = 920 * NormalizePrice(o.total, q) + Spread(q) * Worth(o, terms, score)
<1>1. NormalizePrice(o.total, q) \in Int /\ Spread(q) \in Int
  BY PriceTyped
<1>2. /\ Weights.price = 40 /\ Weights.warranty = 20 /\ Weights.sla = 15 /\ Weights.spec = 15
      /\ Weights.payment = 10
  BY DEF Weights
<1>3. Score(o, terms, score, q)
        = 23 * 40 * NormalizePrice(o.total, q) + Spread(q) * Worth(o, terms, score)
  BY <1>2 DEF Score, Worth
<1> QED BY <1>1, <1>3

(* A longer warranty scores no less.                                       *)
LEMMA LongerWarranty ==
  ASSUME NEW x \in Int, NEW y \in Int, x >= y
  PROVE  NormalizeWarranty(x) >= NormalizeWarranty(y)
BY DEF NormalizeWarranty, Lesser

(* A shorter service level scores no less.                                 *)
LEMMA ShorterSla ==
  ASSUME NEW x \in Int, NEW y \in Int, 0 < x, x <= y
  PROVE  NormalizeSla(x) >= NormalizeSla(y)
BY DEF NormalizeSla, Lesser

(* Nor does a higher specification score,                                  *)
LEMMA HigherSpec ==
  ASSUME NEW x \in Int, NEW y \in Int, x >= y
  PROVE  NormalizeSpec(x) >= NormalizeSpec(y)
BY DEF NormalizeSpec, Lesser, Greater

(* nor, of the terms the policy accepts, the prompter payment.             *)
LEMMA PromptPayment ==
  ASSUME NEW x \in {"Net_30", "Net_45"}, NEW y \in {"Net_30", "Net_45"},
         y = "Net_30" => x = "Net_30"
  PROVE  NormalizePayment(x) >= NormalizePayment(y)
BY DEF NormalizePayment

(* The parts are weighed and added up.                                     *)
LEMMA Weighed ==
  ASSUME NEW w \in Int, NEW x \in Int, w >= x, NEW p \in Int, NEW q \in Int, p >= q,
         NEW m \in Int, NEW n \in Int, m >= n, NEW t \in Int, NEW u \in Int, t >= u,
         NEW s \in Int, NEW z \in Int, s >= z
  PROVE  23 * (20 * w + 15 * p + 10 * m + t) + 15 * s
           >= 23 * (20 * x + 15 * q + 10 * n + u) + 15 * z
OBVIOUS

(* More warranty, a shorter positive SLA, a higher score, a payment term   *)
(* as good and a tier as high are worth no less.                           *)
LEMMA WorthMore ==
  ASSUME NEW a \in Offers, NEW b \in Offers, NEW ta \in Terms, NEW tb \in Terms,
         NEW sa \in Int, NEW sb \in Int,
         ta.warranty >= tb.warranty, 0 < ta.sla, ta.sla <= tb.sla, sa >= sb,
         ta.payment \in {"Net_30", "Net_45"}, tb.payment \in {"Net_30", "Net_45"},
         tb.payment = "Net_30" => ta.payment = "Net_30",
         TierBonus[a.tier] >= TierBonus[b.tier]
  PROVE  Worth(a, ta, sa) >= Worth(b, tb, sb)
<1>1. /\ ta.warranty \in Int /\ tb.warranty \in Int /\ ta.sla \in Int /\ tb.sla \in Int
  BY DEF Terms
<1>2. NormalizeWarranty(ta.warranty) >= NormalizeWarranty(tb.warranty)
  BY <1>1, LongerWarranty
<1>3. NormalizeSla(ta.sla) >= NormalizeSla(tb.sla)
  BY <1>1, ShorterSla
<1>4. NormalizeSpec(sa) >= NormalizeSpec(sb)
  BY HigherSpec
<1>5. NormalizePayment(ta.payment) >= NormalizePayment(tb.payment)
  BY PromptPayment
<1>6. /\ TierBonus[a.tier] \in Int /\ TierBonus[b.tier] \in Int
      /\ NormalizeWarranty(ta.warranty) \in Int /\ NormalizeWarranty(tb.warranty) \in Int
      /\ NormalizeSla(ta.sla) \in Int /\ NormalizeSla(tb.sla) \in Int
      /\ NormalizePayment(ta.payment) \in Int /\ NormalizePayment(tb.payment) \in Int
      /\ NormalizeSpec(sa) \in Int /\ NormalizeSpec(sb) \in Int
  BY PartsTyped
<1> QED BY <1>2, <1>3, <1>4, <1>5, <1>6, Weighed DEF Worth

(* A positive price below another is normalised higher.                    *)
LEMMA CheaperScoresHigher ==
  ASSUME NEW q \in Seq(Offers), q # <<>>, NEW t \in Totals(q), NEW u \in Totals(q),
         0 < t, t < u
  PROVE  NormalizePrice(t, q) > NormalizePrice(u, q)
<1>1. /\ Lowest(q) \in Int /\ Highest(q) \in Int /\ t \in Int /\ u \in Int
      /\ Lowest(q) <= t /\ u <= Highest(q)
  BY SpreadThere
<1> QED BY <1>1 DEF NormalizePrice

(* The eligible quotes with the highest score, of which select_best returns *)
(* one.                                                                    *)
Winners(r) == {i \in Eligible(r) : \A j \in Eligible(r) : ScoreAt(r, j) <= ScoreAt(r, i)}

(* It returns the first of them, or 0 if there is none.                    *)
LEMMA FirstOfTheBest ==
  ASSUME NEW r, NEW n \in Nat, DOMAIN r.quotes = 1..n
  PROVE  /\ Winners(r) # {} => /\ SelectBest(r) \in Winners(r)
                               /\ \A j \in Winners(r) : SelectBest(r) <= j
         /\ Winners(r) = {} => SelectBest(r) = 0
<1> DEFINE s == [i \in DOMAIN r.quotes |-> i]
<1>1. s = [i \in 1..n |-> i]
  OBVIOUS
<1>2. s \in Seq(Nat) /\ Len(s) = n /\ \A i \in 1..n : s[i] = i
  BY <1>1
<1>3. Eligible(r) \subseteq 1..n
  BY DEF Eligible
<1>4. Winners(r) = {i \in 1..Len(s) :
          s[i] \in Eligible(r) /\ \A j \in Eligible(r) : ScoreAt(r, j) <= ScoreAt(r, s[i])}
  BY <1>2, <1>3 DEF Winners
<1>5. SelectBest(r) = IF Winners(r) # {} THEN Min(Winners(r)) ELSE 0
  BY <1>4 DEF SelectBest, SelectInSeq
<1>6. Winners(r) \in SUBSET (1..n)
  BY <1>3 DEF Winners
<1> QED BY <1>5, <1>6, FirstThere

(* Prices normalised over totals from lo to hi, times their spread.        *)
Share(x, hi, lo) == IF x <= 0 THEN 0 ELSE IF hi = lo THEN 100 ELSE 100 * (hi - x)
Width(hi, lo)    == Greater(hi - lo, 1)

(* When one total u falls to t, the extremes move with it ...              *)
Falls(u, t, hi, lo, hi2, lo2) ==
  /\ u \in Int /\ t \in Int /\ hi \in Int /\ lo \in Int /\ hi2 \in Int /\ lo2 \in Int
  /\ 0 < t /\ t <= u /\ lo <= u /\ u <= hi /\ lo2 <= t /\ t <= hi2
  /\ hi2 <= hi /\ lo2 <= lo /\ (hi2 = hi \/ hi = u) /\ (lo2 = lo \/ lo2 = t)

(* ... so that the share of any other total does not rise,                 *)
LEMMA OthersDoNotRise ==
  ASSUME NEW u, NEW t, NEW hi, NEW lo, NEW hi2, NEW lo2, Falls(u, t, hi, lo, hi2, lo2),
         NEW x \in Int, lo <= x, x <= hi, lo2 <= x, x <= hi2
  PROVE  Share(x, hi2, lo2) * Width(hi, lo) <= Share(x, hi, lo) * Width(hi2, lo2)
<1> USE DEF Falls
<1>1. CASE x <= 0
  <2>1. Width(hi, lo) \in Int /\ Width(hi2, lo2) \in Int
    BY DEF Width, Greater
  <2> QED BY <1>1, <2>1 DEF Share
<1>2. CASE 0 < x /\ hi = lo
  BY <1>2 DEF Share, Width, Greater
<1>3. CASE 0 < x /\ hi # lo /\ hi2 = lo2
  BY <1>3 DEF Share, Width, Greater
<1>4. CASE 0 < x /\ hi # lo /\ hi2 # lo2
  <2>1. /\ Share(x, hi, lo) = 100 * (hi - x) /\ Width(hi, lo) = hi - lo
        /\ Share(x, hi2, lo2) = 100 * (hi2 - x) /\ Width(hi2, lo2) = hi2 - lo2
    BY <1>4 DEF Share, Width, Greater
  <2>2. (hi2 - x) * (hi - lo) <= (hi - x) * (hi2 - lo2)
    <3>1. (hi - x) * (hi2 - lo2) >= (hi - x) * (hi2 - lo)
      BY ScaleUp
    <3>2. (hi - hi2) * (x - lo) >= 0
      <4>1. (hi - hi2) * (x - lo) >= (hi - hi2) * 0
        BY ScaleUp
      <4> QED BY <4>1
    <3>3. (hi - x) * (hi2 - lo) - (hi2 - x) * (hi - lo) = (hi - hi2) * (x - lo)
      OBVIOUS
    <3> QED BY <3>1, <3>2, <3>3
  <2> QED BY <2>1, <2>2
<1> QED BY <1>1, <1>2, <1>3, <1>4

(* and its own does not fall.                                              *)
LEMMA OwnDoesNotFall ==
  ASSUME NEW u, NEW t, NEW hi, NEW lo, NEW hi2, NEW lo2, Falls(u, t, hi, lo, hi2, lo2)
  PROVE  Share(t, hi2, lo2) * Width(hi, lo) >= Share(u, hi, lo) * Width(hi2, lo2)
<1> USE DEF Falls
<1>1. CASE hi = lo
  BY <1>1 DEF Share, Width, Greater
<1>2. CASE hi # lo /\ hi2 = lo2
  BY <1>2 DEF Share, Width, Greater
<1>3. CASE hi # lo /\ hi2 # lo2
  <2>1. /\ Share(u, hi, lo) = 100 * (hi - u) /\ Width(hi, lo) = hi - lo
        /\ Share(t, hi2, lo2) = 100 * (hi2 - t) /\ Width(hi2, lo2) = hi2 - lo2
    BY <1>3 DEF Share, Width, Greater
  <2>2. (hi2 - t) * (hi - lo) >= (hi - u) * (hi2 - lo2)
    <3>1. CASE hi = u
      <4>1. (hi2 - t) * (hi - lo) >= (hi2 - t) * 0
        BY ScaleUp
      <4> QED BY <3>1, <4>1
    <3>2. CASE hi2 = hi /\ lo2 = lo
      <4>1. (hi - lo) * (hi - t) >= (hi - lo) * (hi - u)
        BY ScaleUp
      <4> QED BY <3>2, <4>1
    <3>3. CASE hi2 = hi /\ lo2 = t
      <4>1. (hi - t) * (hi - lo) >= (hi - t) * (hi - u)
        BY <3>3, ScaleUp
      <4> QED BY <3>3, <4>1
    <3> QED BY <3>1, <3>2, <3>3
  <2> QED BY <2>1, <2>2
<1> QED BY <1>1, <1>2, <1>3

(* A price is normalised to its share of the totals.                       *)
LEMMA PriceIsShare ==
  ASSUME NEW q \in Seq(Offers), q # <<>>, NEW t \in Totals(q)
  PROVE  /\ NormalizePrice(t, q) = Share(t, Highest(q), Lowest(q))
         /\ Spread(q) = Width(Highest(q), Lowest(q))
BY PriceTyped DEF NormalizePrice, Share, Spread, Width

(* Comparing scores before and after: with shares of others that did not   *)
(* rise and an own one that did not fall, what was no more stays no more   *)
(* and what was less stays less.                                           *)
LEMMA StaysBelow ==
  ASSUME NEW d \in Nat \ {0}, NEW e \in Nat \ {0},
         NEW nj \in Nat, NEW nw \in Nat, NEW mj \in Nat, NEW mw \in Nat,
         NEW xj \in Int, NEW xw \in Int,
         mj * d <= nj * e, mw * d >= nw * e
  PROVE  /\ 920 * nj + d * xj <= 920 * nw + d * xw => 920 * mj + e * xj <= 920 * mw + e * xw
         /\ 920 * nj + d * xj < 920 * nw + d * xw => 920 * mj + e * xj < 920 * mw + e * xw
<1> DEFINE old == 920 * (nw - nj) + d * (xw - xj)
           new == 920 * (mw - mj) + e * (xw - xj)
<1>1. d * new - e * old = 920 * ((mw * d - nw * e) + (nj * e - mj * d))
  OBVIOUS
<1>2. old \in Int /\ new \in Int /\ d * new >= e * old
  <2>1. mj * d \in Int /\ nj * e \in Int /\ mw * d \in Int /\ nw * e \in Int
    OBVIOUS
  <2>2. 920 * ((mw * d - nw * e) + (nj * e - mj * d)) >= 0
    BY <2>1
  <2>3. old \in Int /\ new \in Int /\ d * new \in Int /\ e * old \in Int
    OBVIOUS
  <2> HIDE DEF old, new
  <2> QED BY <1>1, <2>2, <2>3
<1>3. old >= 0 => new >= 0
  <2> HIDE DEF old, new
  <2>1. ASSUME old >= 0, new < 0 PROVE FALSE
    <3>1. e * old >= e * 0
      BY <1>2, <2>1, ScaleUp
    <3>2. d * (0 - 1) >= d * new
      BY <1>2, <2>1, ScaleUp
    <3> QED BY <1>2, <3>1, <3>2
  <2> QED BY <1>2, <2>1
<1>4. old > 0 => new > 0
  <2> HIDE DEF old, new
  <2>1. ASSUME old > 0, new <= 0 PROVE FALSE
    <3>1. e * old >= e * 1
      BY <1>2, <2>1, ScaleUp
    <3>2. d * 0 >= d * new
      BY <1>2, <2>1, ScaleUp
    <3> QED BY <1>2, <3>1, <3>2
  <2> QED BY <1>2, <2>1
<1>5. /\ old = (920 * nw + d * xw) - (920 * nj + d * xj)
      /\ new = (920 * mw + e * xw) - (920 * mj + e * xj)
  OBVIOUS
<1>6. /\ 920 * nw + d * xw \in Int /\ 920 * nj + d * xj \in Int
      /\ 920 * mw + e * xw \in Int /\ 920 * mj + e * xj \in Int
  OBVIOUS
<1> HIDE DEF old, new
<1> QED BY <1>3, <1>4, <1>5, <1>6

(* The offers of the request, one per vendor.                              *)
OffersIn ==
  /\ request.offers \in Seq(Offers)
  /\ \A i, j \in DOMAIN request.offers :
       request.offers[i].vendor = request.offers[j].vendor => i = j

Leaves == {"price", "vendor", "contract", "spec"}

(* The specialists are the four leaves of a procurement graph.             *)
LEMMA LeavesAre == Range(LeafAgents) = Leaves
BY DEF Range, LeafAgents, Leaves

(* A score nobody asked for is full.                                       *)
Rated(o) == IF request.spec THEN o.score ELSE 100

(* What all four specialists report of an offer is what it says.           *)
LEMMA FullReport ==
  ASSUME OffersIn, NEW i \in DOMAIN request.offers
  PROVE  LET r == Reported(Range(LeafAgents))
             o == request.offers[i]
         IN  /\ r.quotes = request.offers /\ o.vendor \in DOMAIN r.scores
             /\ TermsOf(r, o.vendor) = o.terms /\ ScoreOf(r, o.vendor) = Rated(o)
<1> DEFINE r == Reported(Range(LeafAgents))
           o == request.offers[i]
<1>1. OfferOf(o.vendor) = o
  BY DEF OfferOf, OffersIn
<1>2. o.vendor \in VendorsOf(request.offers)
  BY DEF VendorsOf
<1>3. /\ r.quotes = request.offers
      /\ r.terms = [v \in VendorsOf(request.offers) |-> OfferOf(v).terms]
      /\ r.scores = [v \in VendorsOf(request.offers) |->
                       IF request.spec THEN OfferOf(v).score ELSE 100]
  BY LeavesAre DEF Reported, Leaves
<1> QED BY <1>1, <1>2, <1>3 DEF TermsOf, ScoreOf, Rated

(* An offer of the request has the parts a score is made of.               *)
LEMMA OfferTyped ==
  ASSUME OffersIn, NEW i \in DOMAIN request.offers
  PROVE  LET o == request.offers[i]
         IN  /\ o \in Offers /\ o.terms \in Terms /\ Rated(o) \in Int
             /\ o.total \in Totals(request.offers)
<1>1. request.offers[i] \in Offers
  BY DEF OffersIn
<1>2. request.offers[i].total \in Totals(request.offers)
  BY DEF Totals
<1> QED BY <1>1, <1>2 DEF Offers, Terms, Rated

(* Eligible is who makes an acceptable offer.                              *)
LEMMA EligibleOffers ==
  ASSUME OffersIn
  PROVE  Eligible(Reported(Range(LeafAgents)))
           = {i \in DOMAIN request.offers : Acceptable(request.offers[i])}
<1> DEFINE r == Reported(Range(LeafAgents))
<1>1. r.quotes = request.offers
  BY LeavesAre DEF Reported, Leaves
<1>2. ASSUME NEW i \in DOMAIN request.offers
      PROVE  i \in Eligible(r) <=> Acceptable(request.offers[i])
  <2> DEFINE o == request.offers[i]
  <2>1. o.terms \in Terms /\ Rated(o) \in Int
    BY OfferTyped
  <2>2. CheckDisqualifiers(o.terms) <=> o.terms.warranty < 3 \/ o.terms.sla > 8
    BY DEF CheckDisqualifiers, Disqualifiers, Compares
  <2>3. CheckConstraints(o.terms, Rated(o), TRUE)
          <=> /\ o.terms.warranty >= 3 /\ o.terms.sla <= 4
              /\ o.terms.payment \in {"Net_30", "Net_45"} /\ Rated(o) >= 70
    BY DEF CheckConstraints, Constraints
  <2>4. Rated(o) >= 70 <=> (request.spec => o.score >= 70)
    BY DEF Rated
  <2>5. /\ TermsOf(r, o.vendor) = o.terms /\ ScoreOf(r, o.vendor) = Rated(o)
        /\ (o.vendor \in DOMAIN r.scores) = TRUE
    BY FullReport
  <2>6. o.terms.warranty \in Int /\ o.terms.sla \in Int
    BY <2>1 DEF Terms
  <2>7. Acceptable(o) <=> /\ ~ CheckDisqualifiers(o.terms)
                          /\ CheckConstraints(o.terms, Rated(o), TRUE)
    <3>1. Acceptable(o) <=> /\ o.terms.warranty >= 3 /\ o.terms.sla <= 4
                            /\ o.terms.payment \in {"Net_30", "Net_45"}
                            /\ (request.spec => o.score >= 70)
      BY DEF Acceptable
    <3>2. o.terms.warranty >= 3 /\ o.terms.sla <= 4
            => ~ (o.terms.warranty < 3) /\ ~ (o.terms.sla > 8)
      BY <2>6
    <3> HIDE DEF o
    <3> QED BY <2>2, <2>3, <2>4, <3>1, <3>2, Zenon
  <2>8. i \in Eligible(r)
          <=> /\ ~ CheckDisqualifiers(TermsOf(r, o.vendor))
              /\ CheckConstraints(TermsOf(r, o.vendor), ScoreOf(r, o.vendor),
                                  o.vendor \in DOMAIN r.scores)
    <3> HIDE DEF r
    <3> QED BY <1>1 DEF Eligible
  <2> HIDE DEF r, o
  <2>9. i \in Eligible(r) <=> /\ ~ CheckDisqualifiers(o.terms)
                              /\ CheckConstraints(o.terms, Rated(o), TRUE)
    BY <2>5, <2>8
  <2> QED BY <2>7, <2>9 DEF o
<1>3. Eligible(r) \subseteq DOMAIN request.offers
  <2> HIDE DEF r
  <2> QED BY <1>1 DEF Eligible
<1> HIDE DEF r
<1> QED BY <1>2, <1>3 DEF r

(* The score of an offer.                                                  *)
LEMMA ScoreOfOffer ==
  ASSUME OffersIn, NEW i \in DOMAIN request.offers
  PROVE  LET q == request.offers
         IN  ScoreAt(Reported(Range(LeafAgents)), i)
               = 920 * NormalizePrice(q[i].total, q)
                 + Spread(q) * Worth(q[i], q[i].terms, Rated(q[i]))
<1> DEFINE q == request.offers
           r == Reported(Range(LeafAgents))
<1>1. ScoreAt(r, i) = Score(q[i], q[i].terms, Rated(q[i]), q)
  BY FullReport DEF ScoreAt
<1>2. q \in Seq(Offers) /\ q # <<>>
  BY DEF OffersIn
<1> QED BY <1>1, <1>2, OfferTyped, ScoreParts

(* A winner is acceptable, and beaten by no acceptable offer.              *)
LEMMA WinnerIsBest ==
  ASSUME OffersIn, NEW w \in Winners(Reported(Range(LeafAgents)))
  PROVE  /\ w \in DOMAIN request.offers /\ Acceptable(request.offers[w])
         /\ \A j \in DOMAIN request.offers :
              Acceptable(request.offers[j]) => ~ Beats(request.offers[j], request.offers[w])
<1> DEFINE q == request.offers
           r == Reported(Range(LeafAgents))
<1>1. w \in DOMAIN q /\ Acceptable(q[w])
  BY EligibleOffers DEF Winners
<1>2. ASSUME NEW j \in DOMAIN q, Acceptable(q[j]), Beats(q[j], q[w]) PROVE FALSE
  <2> DEFINE xj == Worth(q[j], q[j].terms, Rated(q[j]))
             xw == Worth(q[w], q[w].terms, Rated(q[w]))
             nj == NormalizePrice(q[j].total, q)
             nw == NormalizePrice(q[w].total, q)
  <2>1. /\ q \in Seq(Offers) /\ q # <<>>
        /\ q[j] \in Offers /\ q[j].terms \in Terms /\ Rated(q[j]) \in Int
        /\ q[w] \in Offers /\ q[w].terms \in Terms /\ Rated(q[w]) \in Int
        /\ q[j].total \in Totals(q) /\ q[w].total \in Totals(q)
        /\ q[j].score \in Int /\ q[w].score \in Int
    <3>1. q \in Seq(Offers) /\ q # <<>>
      BY <1>1 DEF OffersIn
    <3>2. \A i \in DOMAIN q : /\ q[i] \in Offers /\ q[i].terms \in Terms /\ Rated(q[i]) \in Int
                              /\ q[i].total \in Totals(q)
      BY OfferTyped
    <3>3. \A i \in DOMAIN q : q[i].score \in Int
      BY <3>2 DEF Offers
    <3> QED BY <1>1, <1>2, <3>1, <3>2, <3>3
  <2>2. nj \in Nat /\ nw \in Nat /\ Spread(q) \in Nat /\ nj > nw
    BY <1>2, <2>1, PriceTyped, CheaperScoresHigher DEF Beats
  <2>3. xj \in Int /\ xw \in Int
    BY <2>1, WorthTyped
  <2>4. xj >= xw
    <3>1. Rated(q[j]) >= Rated(q[w])
      BY <1>2, <2>1 DEF Beats, Rated
    <3>2. /\ q[j].terms.payment \in {"Net_30", "Net_45"}
          /\ q[w].terms.payment \in {"Net_30", "Net_45"}
      BY <1>1, <1>2 DEF Acceptable
    <3>3. /\ q[j].terms.warranty >= q[w].terms.warranty
          /\ 0 < q[j].terms.sla /\ q[j].terms.sla <= q[w].terms.sla
          /\ q[w].terms.payment = "Net_30" => q[j].terms.payment = "Net_30"
          /\ TierBonus[q[j].tier] >= TierBonus[q[w].tier]
      BY <1>2 DEF Beats
    <3> QED BY <2>1, <3>1, <3>2, <3>3, WorthMore
  <2>5. ScoreAt(r, j) = 920 * nj + Spread(q) * xj /\ ScoreAt(r, w) = 920 * nw + Spread(q) * xw
    BY <1>1, ScoreOfOffer
  <2>6. ScoreAt(r, j) <= ScoreAt(r, w)
    BY <1>2, EligibleOffers DEF Winners
  <2> HIDE DEF nj, nw, xj, xw, q, r
  <2>7. Spread(q) * xj >= Spread(q) * xw /\ Spread(q) * xj \in Int /\ Spread(q) * xw \in Int
    BY <2>2, <2>3, <2>4, ScaleUp
  <2> QED BY <2>2, <2>5, <2>6, <2>7
<1> QED BY <1>1, <1>2

(* What evaluate recommends is a winner.                                   *)
LEMMA RecommendsAWinner ==
  ASSUME OffersIn, Evaluate(Reported(Range(LeafAgents))).vendor # NoVendor
  PROVE  \E w \in Winners(Reported(Range(LeafAgents))) :
           Evaluate(Reported(Range(LeafAgents))).vendor = request.offers[w].vendor
<1> DEFINE r == Reported(Range(LeafAgents))
<1>1. r.quotes = request.offers
  BY LeavesAre DEF Reported, Leaves
<1>2. request.offers # <<>> /\ SelectBest(r) # 0
  BY <1>1 DEF Evaluate, Draft
<1>3. Evaluate(r).vendor = request.offers[SelectBest(r)].vendor
  <2> HIDE DEF r
  <2> QED BY <1>1, <1>2 DEF Evaluate
<1>4. Len(request.offers) \in Nat /\ DOMAIN r.quotes = 1..Len(request.offers)
  BY <1>1 DEF OffersIn
<1>5. SelectBest(r) \in Winners(r)
  <2> HIDE DEF r
  <2> QED BY <1>2, <1>4, FirstOfTheBest
<1> QED BY <1>3, <1>5

(* A simple request is answered by one specialist.                         *)
LEMMA SimpleIsLeaf ==
  ASSUME NEW text
  PROVE  Range(SimpleAgents(text)) \subseteq Leaves
<1> DEFINE table == << <<"quote_validity", "contract">>, <<"vendor_check", "vendor">>,
                       <<"price_check", "price">>, <<"spec_check", "spec">> >>
           I == {i \in 1..4 : table[i][1] \in text}
           one == IntentIn(table, text, "contract")
<1>1. Len(table) = 4
  OBVIOUS
<1>2. SelectInSeq(table, LAMBDA row : row[1] \in text) = IF I # {} THEN Min(I) ELSE 0
  BY <1>1 DEF SelectInSeq
<1>3. I # {} => Min(I) \in 1..4
  <2>1. I \in SUBSET (1..4)
    OBVIOUS
  <2> HIDE DEF I
  <2> QED BY <2>1, FirstThere
<1>4. \A i \in 1..4 : table[i][2] \in Leaves
  BY DEF Leaves
<1>5. one \in Leaves
  <2>1. one = LET i == IF I # {} THEN Min(I) ELSE 0
              IN  IF i = 0 THEN "contract" ELSE table[i][2]
    BY <1>2 DEF IntentIn
  <2>2. "contract" \in Leaves
    BY DEF Leaves
  <2> HIDE DEF table, I, one
  <2> QED BY <2>1, <2>2, <1>3, <1>4
<1>6. SimpleAgents(text) = <<one>>
  BY DEF SimpleAgents
<1> HIDE DEF one
<1> QED BY <1>5, <1>6 DEF Range

(* All six agents include the four specialists.                            *)
LEMMA AllSix == Leaves \subseteq Range(FullProcurementAgents)
<1>1. /\ DOMAIN FullProcurementAgents = 1..6
      /\ FullProcurementAgents[1] = "price" /\ FullProcurementAgents[2] = "vendor"
      /\ FullProcurementAgents[3] = "contract" /\ FullProcurementAgents[4] = "spec"
  BY DEF FullProcurementAgents, LeafAgents
<1> QED BY <1>1 DEF Range, Leaves

(* Only the full plan has an analysis.                                     *)
LEMMA OtherPlans ==
  ASSUME NEW intent, NEW text, RequiredAgents(intent, text) \notin {<<>>, FullProcurementAgents}
  PROVE  "analysis" \notin Range(RequiredAgents(intent, text))
<1>0. /\ "simple_task" \notin DOMAIN DomainAgents
      /\ "compare_task" \notin DOMAIN DomainAgents
      /\ "procurement_decision" \notin DOMAIN DomainAgents
  BY DEF DomainAgents
<1>1. CASE intent = "simple_task"
  <2>1. RequiredAgents(intent, text) = SimpleAgents(text)
    BY <1>0, <1>1 DEF RequiredAgents
  <2> QED BY <2>1, SimpleIsLeaf DEF Leaves
<1>2. CASE intent = "compare_task"
  <2>1. RequiredAgents(intent, text) = CompareAgents
    BY <1>0, <1>2 DEF RequiredAgents
  <2> QED BY <2>1 DEF CompareAgents, Range
<1>3. CASE intent \in DOMAIN DomainAgents
  <2>1. RequiredAgents(intent, text) = DomainAgents[intent]
    BY <1>0, <1>3 DEF RequiredAgents
  <2>2. \A x \in DOMAIN DomainAgents : "analysis" \notin Range(DomainAgents[x])
    BY DEF DomainAgents, Range
  <2> QED BY <1>3, <2>1, <2>2
<1>4. CASE intent = "procurement_decision"
  BY <1>0, <1>4 DEF RequiredAgents
<1>5. CASE intent \notin {"simple_task", "compare_task", "procurement_decision"}
           /\ intent \notin DOMAIN DomainAgents
  BY <1>5 DEF RequiredAgents
<1> QED BY <1>1, <1>2, <1>3, <1>4, <1>5

(* In every graph the analysis waits for all four specialists              *)
(* (pipeline.py:48).                                                       *)
LEMMA AnalysisWaits ==
  ASSUME NEW text, "analysis" \in DOMAIN BuildGraphForPlan(RouteCase(text))
  PROVE  BuildGraphForPlan(RouteCase(text))["analysis"] = Leaves
<1> DEFINE required == RouteCase(text)
           agents == IF required = <<>> THEN FullProcurementAgents ELSE required
           leaves == Range(agents) \cap Leaves
           join   == IF leaves # {} THEN Range(agents) \cap {"analysis"} ELSE {}
           check  == IF join # {} THEN Range(agents) \cap {"verification"} ELSE {}
<1>1. BuildGraphForPlan(required)
        = [t \in leaves \cup join \cup check |-> IF t = "analysis" THEN leaves ELSE {}]
  <2> HIDE DEF required
  <2> QED BY LeavesAre DEF BuildGraphForPlan
<1>2. "analysis" \in join /\ BuildGraphForPlan(required)["analysis"] = leaves
  <2>1. "analysis" \notin leaves /\ "analysis" \notin check
    BY DEF Leaves
  <2>2. "analysis" \in DOMAIN BuildGraphForPlan(required)
    OBVIOUS
  <2> HIDE DEF leaves, join, check, required
  <2> QED BY <1>1, <2>1, <2>2
<1>3. "analysis" \in Range(agents)
  <2> HIDE DEF required
  <2> QED BY <1>2
<1>4. agents = FullProcurementAgents
  BY <1>3, OtherPlans DEF RouteCase
<1> QED BY <1>2, <1>4, AllSix

(* Without an analysis there is no verification.                           *)
LEMMA CheckedIsAnalysed ==
  ASSUME "verification" \in DOMAIN Graph
  PROVE  "analysis" \in DOMAIN Graph
<1>1. Graph = BuildGraphForPlan(RouteCase(request.text))
  BY DEF Graph
<1> DEFINE required == RouteCase(request.text)
           agents == IF required = <<>> THEN FullProcurementAgents ELSE required
           leaves == Range(agents) \cap Leaves
           join   == IF leaves # {} THEN Range(agents) \cap {"analysis"} ELSE {}
           check  == IF join # {} THEN Range(agents) \cap {"verification"} ELSE {}
<1>2. BuildGraphForPlan(required)
        = [t \in leaves \cup join \cup check |-> IF t = "analysis" THEN leaves ELSE {}]
  <2> HIDE DEF required
  <2> QED BY LeavesAre DEF BuildGraphForPlan
<1>3. "verification" \notin leaves /\ "verification" \notin join /\ (check # {} => join # {})
  BY DEF Leaves
<1>4. join # {} => "analysis" \in join
  BY DEF join
<1> HIDE DEF leaves, join, check, required
<1> QED BY <1>1, <1>2, <1>3, <1>4 DEF required

(* The recommendation depends on the request only.                         *)
LEMMA SameReport ==
  ASSUME request' = request
  PROVE  Evaluate(Reported(Range(LeafAgents)))' = Evaluate(Reported(Range(LeafAgents)))
BY DEF Reported, VendorsOf, OfferOf

(* What the recommendation rests on: offers are those of a case, the       *)
(* analysis waits for all specialists and stores what the policy makes of  *)
(* their reports, and what is returned is that vendor.                     *)
GraphInv ==
  /\ request # NoRequest => request.offers \in CaseOffers
  /\ "analysis" \in Completed =>
       request # NoRequest /\ outcome["analysis"] = Evaluate(Reported(Range(LeafAgents)))
  /\ returned # NotYet => reading = NotReading
  /\ returned.vendor # NoVendor =>
       "analysis" \in Completed /\ returned.vendor = outcome["analysis"].vendor

(* No task, reading, return or next case breaks any of this.               *)
LEMMA GraphStep ==
  ASSUME GraphInv, [CaseNext]_caseVars
  PROVE  GraphInv'
<1> USE DEF GraphInv
<1>1. CASE Receive
  <2>1. /\ request = NoRequest /\ UNCHANGED <<outcome, reading, returned>>
        /\ request'.offers \in CaseOffers
    BY <1>1 DEF Receive
  <2> QED BY <2>1 DEF Completed
<1>2. CASE Analyse
  <2>1. "analysis" \in DOMAIN Graph \ Completed /\ Graph["analysis"] \subseteq Completed
        /\ returned = NotYet
    BY <1>2 DEF Analyse, MayRun
  <2>2. request # NoRequest /\ Graph = BuildGraphForPlan(RouteCase(request.text))
    BY <2>1 DEF Graph
  <2>3. Graph["analysis"] = Leaves
    BY <2>1, <2>2, AnalysisWaits
  <2>4. Completed \cap Range(LeafAgents) = Range(LeafAgents) /\ Range(LeafAgents) # {}
    BY <2>1, <2>3, LeavesAre DEF Leaves
  <2>5. Analysis(Completed \cap Range(LeafAgents)) = Evaluate(Reported(Range(LeafAgents)))
    BY <2>4 DEF Analysis
  <2>6. UNCHANGED <<request, reading, returned>>
        /\ (UNCHANGED outcome \/ outcome' = [x \in Completed \cup {"analysis"} |->
              IF x = "analysis" THEN Evaluate(Reported(Range(LeafAgents))) ELSE outcome[x]])
    BY <1>2, <2>5 DEF Analyse, Complete, Reject
  <2>7. "analysis" \in Completed' => outcome'["analysis"] = Evaluate(Reported(Range(LeafAgents)))
    BY <2>6 DEF Completed
  <2> QED BY <2>1, <2>2, <2>6, <2>7, SameReport DEF NotYet, NoVendor
<1>3. ASSUME NEW t, NEW v, t # "analysis",
             UNCHANGED <<request, returned>>, returned = NotYet,
             UNCHANGED outcome \/ Complete(t, v)
      PROVE  GraphInv'
  <2>1. /\ "analysis" \in Completed' <=> "analysis" \in Completed
        /\ "analysis" \in Completed => outcome'["analysis"] = outcome["analysis"]
    BY <1>3 DEF Complete, Completed
  <2> QED BY <1>3, <2>1, SameReport DEF NotYet
<1>4. CASE \E t \in Range(LeafAgents) : Leaf(t)
  <2>1. PICK t \in Range(LeafAgents) : Leaf(t)
    BY <1>4
  <2>2. t # "analysis"
    BY LeavesAre DEF Leaves
  <2> QED BY <1>3, <2>1, <2>2 DEF Leaf, MayRun
<1>5. CASE ReadAnalysis
  BY <1>3, <1>5 DEF ReadAnalysis, MayRun, Judge, Reject
<1>6. CASE ReadSibling
  <2>1. reading # NotReading
    BY <1>6 DEF ReadSibling, NotReading, LeafAgents
  <2> QED BY <1>3, <1>6, <2>1 DEF ReadSibling
<1>7. CASE OwnAnalysis
  <2>1. reading # NotReading
    BY <1>7 DEF OwnAnalysis, NotReading, LeafAgents
  <2> QED BY <1>3, <1>7, <2>1 DEF OwnAnalysis, Judge, Reject
<1>8. CASE Return
  <2>1. /\ UNCHANGED <<request, outcome, reading>> /\ reading = NotReading
        /\ returned'.vendor # NoVendor => /\ Completed = DOMAIN Graph
                                          /\ "verification" \in Completed
                                          /\ returned'.vendor = outcome["analysis"].vendor
    BY <1>8 DEF Return
  <2>2. "verification" \in Completed /\ Completed = DOMAIN Graph => "analysis" \in Completed
    BY CheckedIsAnalysed
  <2> QED BY <2>1, <2>2, SameReport DEF Completed
<1>9. CASE Forget
  BY <1>9 DEF Forget, NotYet, Completed
<1>10. CASE UNCHANGED caseVars
  BY <1>10, SameReport DEF caseVars, Completed
<1> QED BY <1>1, <1>2, <1>4, <1>5, <1>6, <1>7, <1>8, <1>9, <1>10 DEF CaseNext

(* The first state of a case satisfies it.                                 *)
LEMMA GraphInitial == CaseInit => GraphInv
<1> SUFFICES ASSUME CaseInit PROVE GraphInv
  OBVIOUS
<1>1. DOMAIN outcome = {}
  BY DEF CaseInit
<1>2. request = NoRequest /\ returned = NotYet /\ returned.vendor = NoVendor
  BY DEF CaseInit, NotYet
<1> QED BY <1>1, <1>2 DEF GraphInv, Completed

(* All states of a case satisfy it.                                        *)
LEMMA GraphInvariant == CaseSpec => []GraphInv
BY GraphInitial, GraphStep, PTL DEF CaseSpec

(* A case under way has typed offers, one per vendor.                      *)
LEMMA OffersTyped ==
  ASSUME GraphInv, request # NoRequest
  PROVE  OffersIn
BY CaseAssumption DEF GraphInv, OffersIn

(* Whatever text, offers and order of tasks, the vendor that is returned   *)
(* makes an acceptable offer, and no acceptable one is cheaper and in      *)
(* nothing worse (handlers.py:262, policy_engine.py:281).                  *)
THEOREM BestIsRecommended == CaseSpec => []RecommendedIsBest
<1>1. GraphInv => RecommendedIsBest
  <2> SUFFICES ASSUME GraphInv, returned.vendor # NoVendor
               PROVE  /\ Acceptable(OfferOf(returned.vendor))
                      /\ \A v \in VendorsOf(request.offers) : Acceptable(OfferOf(v))
                           => ~ Beats(OfferOf(v), OfferOf(returned.vendor))
    BY DEF RecommendedIsBest
  <2>1. OffersIn /\ returned.vendor = Evaluate(Reported(Range(LeafAgents))).vendor
    BY OffersTyped DEF GraphInv
  <2>2. PICK w \in Winners(Reported(Range(LeafAgents))) :
               returned.vendor = request.offers[w].vendor
    BY <2>1, RecommendsAWinner
  <2>3. \A i \in DOMAIN request.offers : OfferOf(request.offers[i].vendor) = request.offers[i]
    BY <2>1 DEF OffersIn, OfferOf
  <2>4. /\ w \in DOMAIN request.offers /\ Acceptable(request.offers[w])
        /\ \A j \in DOMAIN request.offers :
             Acceptable(request.offers[j]) => ~ Beats(request.offers[j], request.offers[w])
    BY <2>1, WinnerIsBest
  <2> QED BY <2>2, <2>3, <2>4 DEF VendorsOf
<1> QED BY <1>1, GraphInvariant, PTL

-----------------------------------------------------------------------------
(* What happens to the totals when the one of w falls to t.                *)
LEMMA TotalsFall ==
  ASSUME NEW q \in Seq(Offers), NEW w \in DOMAIN q, NEW t \in 1..q[w].total,
         NEW p \in Seq(Offers), DOMAIN p = DOMAIN q,
         \A i \in DOMAIN q : p[i].total = IF i = w THEN t ELSE q[i].total
  PROVE  Falls(q[w].total, t, Highest(q), Lowest(q), Highest(p), Lowest(p))
<1>1. /\ \A i \in DOMAIN q : q[i].total \in Int /\ p[i].total \in Int
      /\ q # <<>> /\ p # <<>>
  <2>1. \A i \in DOMAIN q : q[i] \in Offers /\ p[i] \in Offers
    OBVIOUS
  <2> QED BY <2>1 DEF Offers
<1>2. /\ Totals(q) = {q[i].total : i \in DOMAIN q} /\ Totals(p) = {p[i].total : i \in DOMAIN q}
  BY DEF Totals
<1>3. PICK a \in DOMAIN q : Highest(q) = q[a].total /\ \A i \in DOMAIN q : Highest(q) >= q[i].total
  BY <1>1, <1>2, SpreadThere
<1>4. PICK b \in DOMAIN q : Lowest(q) = q[b].total /\ \A i \in DOMAIN q : Lowest(q) <= q[i].total
  BY <1>1, <1>2, SpreadThere
<1>5. PICK c \in DOMAIN q : Highest(p) = p[c].total /\ \A i \in DOMAIN q : Highest(p) >= p[i].total
  BY <1>1, <1>2, SpreadThere
<1>6. PICK d \in DOMAIN q : Lowest(p) = p[d].total /\ \A i \in DOMAIN q : Lowest(p) <= p[i].total
  BY <1>1, <1>2, SpreadThere
<1> DEFINE u == q[w].total  hi == Highest(q)  lo == Lowest(q)  hi2 == Highest(p)  lo2 == Lowest(p)
<1>7. u \in Int /\ t \in Int /\ 0 < t /\ t <= u /\ p[w].total = t
  BY <1>1
<1>8. \A i \in DOMAIN q : p[i].total <= q[i].total /\ (i # w => p[i].total = q[i].total)
  BY <1>1, <1>7
<1>9. hi \in Int /\ lo \in Int /\ hi2 \in Int /\ lo2 \in Int
  BY <1>1, <1>3, <1>4, <1>5, <1>6
<1>10. lo <= u /\ u <= hi /\ lo2 <= t /\ t <= hi2
  BY <1>3, <1>4, <1>5, <1>6, <1>7, <1>9
<1>11. hi2 <= hi
  <2>1. p[c].total <= q[c].total /\ q[c].total <= hi
    BY <1>3, <1>8, <1>1, <1>9
  <2> QED BY <1>1, <1>5, <1>9, <2>1
<1>12. lo2 <= lo
  <2>1. p[b].total <= q[b].total /\ lo2 <= p[b].total
    BY <1>6, <1>8
  <2> QED BY <1>1, <1>4, <1>9, <2>1
<1>13. hi2 = hi \/ hi = u
  <2>1. CASE a = w
    BY <1>3, <2>1
  <2>2. CASE a # w
    <3>1. hi2 >= p[a].total /\ p[a].total = hi
      BY <1>3, <1>5, <1>8, <2>2
    <3> QED BY <1>9, <1>11, <3>1
  <2> QED BY <2>1, <2>2
<1>14. lo2 = lo \/ lo2 = t
  <2>1. CASE d = w
    BY <1>6, <1>7, <2>1
  <2>2. CASE d # w
    <3>1. lo2 = q[d].total /\ lo <= q[d].total
      BY <1>4, <1>6, <1>8, <2>2
    <3> QED BY <1>9, <1>12, <3>1
  <2> QED BY <2>1, <2>2
<1> QED BY <1>7, <1>9, <1>10, <1>11, <1>12, <1>13, <1>14 DEF Falls

(* A winner who lowers a total stays the winner.                           *)
LEMMA WinnerStays ==
  ASSUME OffersIn, NEW w \in DOMAIN request.offers,
         SelectBest(Reported(Range(LeafAgents))) = w,
         NEW t \in 1..request.offers[w].total
  PROVE  SelectBest([Reported(Range(LeafAgents)) EXCEPT !.quotes[w].total = t]) = w
<1> DEFINE r == Reported(Range(LeafAgents))
           q == request.offers
           s == [r EXCEPT !.quotes[w].total = t]
           p == s.quotes
           n == Len(q)
           X(i) == Worth(q[i], q[i].terms, Rated(q[i]))
           N(i) == NormalizePrice(q[i].total, q)
           M(i) == NormalizePrice(p[i].total, p)
<1>1. /\ r.quotes = q /\ s.terms = r.terms /\ s.scores = r.scores
      /\ s.quotes = [q EXCEPT ![w] = [q[w] EXCEPT !.total = t]]
  BY LeavesAre DEF Reported, Leaves
<1>2. /\ q \in Seq(Offers) /\ n \in Nat /\ DOMAIN q = 1..n /\ q # <<>>
      /\ t \in Int /\ \A i \in DOMAIN q : q[i] \in Offers
  BY DEF OffersIn
<1>3. /\ p \in Seq(Offers) /\ DOMAIN p = 1..n /\ p # <<>>
      /\ \A i \in 1..n : /\ p[i] \in Offers /\ p[i].vendor = q[i].vendor /\ p[i].tier = q[i].tier
                         /\ p[i].total = IF i = w THEN t ELSE q[i].total
  <2>1. [q[w] EXCEPT !.total = t] \in Offers
    BY <1>2 DEF Offers
  <2>2. p = [q EXCEPT ![w] = [q[w] EXCEPT !.total = t]]
    BY <1>1
  <2>3. \A i \in 1..n : i # w => p[i] = q[i]
    BY <1>2, <2>2
  <2>4. p[w] = [q[w] EXCEPT !.total = t]
    BY <1>2, <2>2
  <2>5. p \in Seq(Offers) /\ DOMAIN p = 1..n /\ p # <<>>
    <3> HIDE DEF p
    <3> QED BY <1>2, <2>1, <2>2
  <2>6. /\ p[w].vendor = q[w].vendor /\ p[w].tier = q[w].tier /\ p[w].total = t
    BY <1>2, <2>4 DEF Offers
  <2>7. \A i \in 1..n : p[i] \in Offers /\ q[i] \in Offers
    BY <1>2, <2>1, <2>3, <2>4
  <2> HIDE DEF p, q, n
  <2> QED BY <2>3, <2>5, <2>6, <2>7
<1>4. /\ Winners(r) # {} /\ w \in Winners(r) /\ \A j \in Winners(r) : w <= j
  <2>1. DOMAIN r.quotes = 1..n /\ w # 0
    BY <1>1, <1>2
  <2> HIDE DEF r, q, n
  <2> QED BY <1>2, <2>1, FirstOfTheBest DEF r
<1>5. Eligible(s) = Eligible(r) /\ Eligible(r) \subseteq 1..n
  <2>1. \A v : TermsOf(s, v) = TermsOf(r, v) /\ ScoreOf(s, v) = ScoreOf(r, v)
    BY <1>1 DEF TermsOf, ScoreOf
  <2> HIDE DEF r, s, q, n
  <2> QED BY <1>1, <1>2, <1>3, <2>1 DEF Eligible, p
<1>6. \A i \in 1..n :
         /\ X(i) \in Int /\ N(i) \in Nat /\ M(i) \in Nat
         /\ Spread(q) \in Nat \ {0} /\ Spread(p) \in Nat \ {0}
         /\ ScoreAt(r, i) = 920 * N(i) + Spread(q) * X(i)
         /\ ScoreAt(s, i) = 920 * M(i) + Spread(p) * X(i)
  <2> SUFFICES ASSUME NEW i \in 1..n
               PROVE  /\ X(i) \in Int /\ N(i) \in Nat /\ M(i) \in Nat
                      /\ Spread(q) \in Nat \ {0} /\ Spread(p) \in Nat \ {0}
                      /\ ScoreAt(r, i) = 920 * N(i) + Spread(q) * X(i)
                      /\ ScoreAt(s, i) = 920 * M(i) + Spread(p) * X(i)
    OBVIOUS
  <2>1. /\ q[i] \in Offers /\ q[i].terms \in Terms /\ Rated(q[i]) \in Int
        /\ q[i].total \in Totals(q)
    BY <1>2, OfferTyped
  <2>2. p[i] \in Offers /\ p[i].total \in Totals(p) /\ p[i].tier = q[i].tier
    <3> HIDE DEF p, q, n
    <3> QED BY <1>3 DEF Totals
  <2>3. ScoreAt(r, i) = 920 * N(i) + Spread(q) * X(i)
    BY <1>2, ScoreOfOffer
  <2>4. X(i) = Worth(p[i], q[i].terms, Rated(q[i]))
    <3> HIDE DEF p, q, n
    <3> QED BY <2>2 DEF Worth
  <2>5. ScoreAt(s, i) = Score(p[i], q[i].terms, Rated(q[i]), p)
    <3>1. /\ TermsOf(r, q[i].vendor) = q[i].terms /\ ScoreOf(r, q[i].vendor) = Rated(q[i])
      BY <1>2, FullReport
    <3>2. /\ TermsOf(s, q[i].vendor) = q[i].terms /\ ScoreOf(s, q[i].vendor) = Rated(q[i])
      <4> HIDE DEF r, s, q
      <4> QED BY <1>1, <3>1 DEF TermsOf, ScoreOf
    <3>3. p[i].vendor = q[i].vendor
      BY <1>3
    <3> HIDE DEF r, s, q, n
    <3> QED BY <3>2, <3>3 DEF ScoreAt, p
  <2> HIDE DEF r, s, q, p, n
  <2>6. ScoreAt(s, i) = 920 * M(i) + Spread(p) * X(i)
    BY <1>3, <2>1, <2>2, <2>4, <2>5, ScoreParts
  <2>7. X(i) \in Int
    BY <2>1, WorthTyped
  <2>8. /\ N(i) \in Nat /\ M(i) \in Nat /\ Spread(q) \in Nat \ {0} /\ Spread(p) \in Nat \ {0}
    BY <1>2, <1>3, <2>1, <2>2, PriceTyped
  <2> QED BY <2>3, <2>6, <2>7, <2>8
<1>7. /\ M(w) * Spread(q) >= N(w) * Spread(p)
      /\ \A j \in 1..n : j # w => M(j) * Spread(q) <= N(j) * Spread(p)
  <2> HIDE DEF r, s, q, p, n
  <2> DEFINE hi == Highest(q)  lo == Lowest(q)  hi2 == Highest(p)  lo2 == Lowest(p)
  <2>1. w \in 1..n /\ t \in 1..q[w].total
    BY <1>2 DEF q
  <2>2. Falls(q[w].total, t, hi, lo, hi2, lo2)
    BY <1>2, <1>3, <2>1, TotalsFall
  <2>3. \A i \in 1..n : /\ q[i].total \in Totals(q) /\ p[i].total \in Totals(p)
                        /\ q[i].total \in Int
    BY <1>2, <1>3 DEF Totals, Offers
  <2>4. \A i \in 1..n : /\ N(i) = Share(q[i].total, hi, lo) /\ M(i) = Share(p[i].total, hi2, lo2)
                        /\ lo <= q[i].total /\ q[i].total <= hi
                        /\ lo2 <= p[i].total /\ p[i].total <= hi2
    BY <1>2, <1>3, <2>3, PriceIsShare, SpreadThere, PriceTyped
  <2>5. Spread(q) = Width(hi, lo) /\ Spread(p) = Width(hi2, lo2)
    BY <1>2, <1>3, <2>1, <2>3, PriceIsShare
  <2>6. M(w) * Spread(q) >= N(w) * Spread(p)
    BY <1>3, <2>1, <2>2, <2>4, <2>5, OwnDoesNotFall
  <2>7. ASSUME NEW j \in 1..n, j # w PROVE M(j) * Spread(q) <= N(j) * Spread(p)
    <3>1. p[j].total = q[j].total
      BY <1>3, <2>7
    <3> QED BY <2>2, <2>3, <2>4, <2>5, <3>1, OthersDoNotRise
  <2> QED BY <2>6, <2>7
<1> HIDE DEF r, s, q, p, n, X, N, M
<1>8. w \in 1..n /\ w \in Eligible(r)
  BY <1>2, <1>4 DEF Winners, q
<1>9. \A j \in Eligible(r) :
        /\ ScoreAt(r, j) \in Int /\ ScoreAt(r, w) \in Int
        /\ ScoreAt(s, j) \in Int /\ ScoreAt(s, w) \in Int
  BY <1>5, <1>6, <1>8
<1>10. ASSUME NEW j \in Eligible(r), j # w
       PROVE  /\ ScoreAt(r, j) <= ScoreAt(r, w) => ScoreAt(s, j) <= ScoreAt(s, w)
              /\ ScoreAt(r, j) < ScoreAt(r, w) => ScoreAt(s, j) < ScoreAt(s, w)
  <2>1. j \in 1..n
    BY <1>5
  <2>2. M(j) * Spread(q) <= N(j) * Spread(p) /\ M(w) * Spread(q) >= N(w) * Spread(p)
    BY <1>7, <1>10, <2>1
  <2>3. /\ X(j) \in Int /\ N(j) \in Nat /\ M(j) \in Nat
        /\ X(w) \in Int /\ N(w) \in Nat /\ M(w) \in Nat
        /\ Spread(q) \in Nat \ {0} /\ Spread(p) \in Nat \ {0}
    BY <1>6, <1>8, <2>1
  <2>4. /\ ScoreAt(r, j) = 920 * N(j) + Spread(q) * X(j)
        /\ ScoreAt(s, j) = 920 * M(j) + Spread(p) * X(j)
        /\ ScoreAt(r, w) = 920 * N(w) + Spread(q) * X(w)
        /\ ScoreAt(s, w) = 920 * M(w) + Spread(p) * X(w)
    BY <1>6, <1>8, <2>1
  <2>5. /\ 920 * N(j) + Spread(q) * X(j) <= 920 * N(w) + Spread(q) * X(w)
             => 920 * M(j) + Spread(p) * X(j) <= 920 * M(w) + Spread(p) * X(w)
        /\ 920 * N(j) + Spread(q) * X(j) < 920 * N(w) + Spread(q) * X(w)
             => 920 * M(j) + Spread(p) * X(j) < 920 * M(w) + Spread(p) * X(w)
    <3>1. PICK nj \in Nat : nj = N(j)
      BY <2>3
    <3>2. PICK nw \in Nat : nw = N(w)
      BY <2>3
    <3>3. PICK mj \in Nat : mj = M(j)
      BY <2>3
    <3>4. PICK mw \in Nat : mw = M(w)
      BY <2>3
    <3>5. PICK xj \in Int : xj = X(j)
      BY <2>3
    <3>6. PICK xw \in Int : xw = X(w)
      BY <2>3
    <3>7. PICK d \in Nat \ {0} : d = Spread(q)
      BY <2>3
    <3>8. PICK e \in Nat \ {0} : e = Spread(p)
      BY <2>3
    <3>9. mj * d <= nj * e /\ mw * d >= nw * e
      BY <2>2, <3>1, <3>2, <3>3, <3>4, <3>7, <3>8
    <3>10. /\ 920 * nj + d * xj <= 920 * nw + d * xw => 920 * mj + e * xj <= 920 * mw + e * xw
           /\ 920 * nj + d * xj < 920 * nw + d * xw => 920 * mj + e * xj < 920 * mw + e * xw
      BY <3>9, StaysBelow
    <3> QED BY <3>1, <3>2, <3>3, <3>4, <3>5, <3>6, <3>7, <3>8, <3>10
  <2> QED BY <2>4, <2>5
<1>11. \A j \in Eligible(r) : ScoreAt(r, j) <= ScoreAt(r, w)
  BY <1>4 DEF Winners
<1>12. w \in Winners(s)
  <2>1. \A j \in Eligible(r) : ScoreAt(s, j) <= ScoreAt(s, w)
    BY <1>9, <1>10, <1>11
  <2> QED BY <1>5, <1>8, <2>1 DEF Winners
<1>13. ASSUME NEW j \in Winners(s) PROVE w <= j
  <2>1. j \in Eligible(r) /\ j \in 1..n /\ ScoreAt(s, w) <= ScoreAt(s, j)
    BY <1>5, <1>8, <1>13 DEF Winners
  <2>2. j = w \/ ~ (ScoreAt(r, j) < ScoreAt(r, w))
    BY <1>9, <1>10, <2>1
  <2>3. CASE ~ (ScoreAt(r, j) < ScoreAt(r, w))
    <3>1. \A i \in Eligible(r) : ScoreAt(r, i) <= ScoreAt(r, j)
      BY <1>9, <1>11, <2>1, <2>3
    <3>2. j \in Winners(r)
      BY <2>1, <3>1 DEF Winners
    <3> QED BY <1>4, <3>2
  <2>4. CASE j = w
    BY <1>8, <2>4
  <2> QED BY <2>2, <2>3, <2>4
<1>14. /\ DOMAIN s.quotes = 1..n /\ SelectBest(s) \in Winners(s)
       /\ \A j \in Winners(s) : SelectBest(s) <= j
  <2>1. DOMAIN s.quotes = 1..n
    BY <1>3 DEF p
  <2> QED BY <1>2, <1>12, <2>1, FirstOfTheBest
<1>15. SelectBest(s) = w
  <2>1. SelectBest(s) <= w /\ w <= SelectBest(s) /\ SelectBest(s) \in 1..n
    BY <1>5, <1>12, <1>13, <1>14 DEF Winners
  <2> QED BY <1>8, <2>1
<1> QED BY <1>15 DEF s, r

(* In every case, whatever the offers, a vendor that would be recommended  *)
(* is still recommended when it lowers its total (policy_engine.py:113).   *)
THEOREM LowerPriceStaysBest == CaseSpec => []CheaperStaysBest
<1>1. GraphInv => CheaperStaysBest
  <2> SUFFICES ASSUME GraphInv, request # NoRequest,
                      SelectBest(Reported(Range(LeafAgents))) # 0,
                      NEW t \in 1..request.offers[SelectBest(Reported(Range(LeafAgents)))].total
               PROVE  LET r == Reported(Range(LeafAgents))
                          w == SelectBest(r)
                      IN  SelectBest([r EXCEPT !.quotes[w].total = t]) = w
    BY DEF CheaperStaysBest
  <2> DEFINE r == Reported(Range(LeafAgents))
             w == SelectBest(r)
             n == Len(request.offers)
  <2>1. OffersIn /\ r.quotes = request.offers
    BY OffersTyped, LeavesAre DEF Reported, Leaves
  <2>2. n \in Nat /\ DOMAIN r.quotes = 1..n /\ DOMAIN request.offers = 1..n
    BY <2>1 DEF OffersIn
  <2>3. w \in Winners(r)
    <3> HIDE DEF r, n
    <3> QED BY <2>2, FirstOfTheBest DEF r
  <2>4. w \in DOMAIN request.offers
    BY <2>1, <2>3, WinnerIsBest
  <2> QED BY <2>1, <2>4, WinnerStays
<1> QED BY <1>1, GraphInvariant, PTL

-----------------------------------------------------------------------------
(* A resumed workflow.                                                     *)

(* A worker that runs a task will write another state than running, and    *)
(* one that is not yet done with its message will write a final state or   *)
(* queue the task again.                                                   *)
Executing  == {"claimed", "begin", "run", "done", "retry", "dead", "failState"}
Unfinished == {"check", "refused", "claim", "retryMark", "retryRow", "requeue"} \cup Executing

RunsIt(w, t)  == pc[w] \in Executing /\ Doing(w) = t
Holds(w, t) == pc[w] \in Unfinished /\ Doing(w) = t

Waiting(t) == \E m \in Msg : m.task = t /\ queue[m] > 0

(* A task is running because a worker runs it, and it is neither completed *)
(* nor failed only while a worker or a message will see to it.             *)
Founded(t)   == es[t] = "running" => \E w \in Worker : RunsIt(w, t)
Awaited(t) ==
  es[t] \in {"created", "queued", "retrying"} => Waiting(t) \/ \E w \in Worker : Holds(w, t)

(* resume_workflow has each task once on its list, and none that it has    *)
(* published.                                                              *)
ListInv ==
  /\ resume \in [at : {"none", "state", "key", "row", "mark", "publish"},
                 now : Msg \cup {NoMsg}, todo : SUBSET Msg]
  /\ resume.at = "none" <=> resume.now = NoMsg
  /\ \A m \in resume.todo : m.task \notin republished
  /\ \A m, n \in resume.todo : m.task = n.task => m = n
  /\ resume.at # "none" =>
       /\ resume.now.task \notin republished
       /\ \A m \in resume.todo : m.task # resume.now.task

ResumeInv ==
  /\ ResumeTypeOK /\ ListInv
  /\ iteration = 1 => republished = {} /\ resume = Resting
  /\ \A w \in Worker : pc[w] \in {"failState", "failRow", "failResult"} => target[w] = Doing(w)
  /\ \A w \in Worker : pc[w] \notin {"advance", "cascade"}
  /\ \A t \in republished : Founded(t) /\ Awaited(t)
  /\ resume.at = "publish" => Founded(resume.now.task)

-----------------------------------------------------------------------------
(* What one step of a worker does to its task.                             *)

(* Whoever else there is stays where it is, and so do other tasks.         *)
Apart(w, t) ==
  /\ \A v \in Worker \ {w} : pc'[v] = pc[v] /\ job'[v] = job[v]
  /\ \A s \in Task \ {t} : es'[s] = es[s]
  /\ \A m \in Msg : m.task # t => queue'[m] = queue[m]

Stays(w)    == job'[w] = job[w]
SameState   == es' = es
NoLess      == \A m \in Msg : queue[m] > 0 => queue'[m] > 0

GoesAhead(w) ==
  /\ Stays(w) /\ SameState /\ NoLess
  /\ pc[w] \in Executing => pc'[w] \in Executing
  /\ pc[w] \in Unfinished => pc'[w] \in Unfinished

WritesRunning(w) ==
  Stays(w) /\ NoLess /\ es'[Doing(w)] = "running" /\ pc'[w] \in Executing

WritesRetrying(w) ==
  Stays(w) /\ NoLess /\ es'[Doing(w)] = "retrying" /\ pc'[w] \in Unfinished

WritesFinal(w) == NoLess /\ es'[Doing(w)] \in {"completed", "failed"}

Queues(w) ==
  /\ SameState /\ NoLess /\ pc[w] \notin Executing
  /\ \E m \in Msg : m.task = Doing(w) /\ queue'[m] > 0

Drops(w) ==
  /\ SameState /\ NoLess /\ pc[w] \notin Executing
  /\ pc[w] \in Unfinished => es[Doing(w)] \in {"completed", "running"}

Takes(w, m) == SameState /\ pc[w] = "idle" /\ pc'[w] = "check" /\ job'[w] = m

(* Every step of a worker is one of these.                                 *)
LEMMA StepEffect ==
  ASSUME TypeOK, ResumeInv, NEW w \in Worker,
         ProcessStep(w) \/ ExecuteStep(w) \/ CompleteStep(w) \/ RetryStep(w) \/ Requeue(w)
           \/ DeadLetter(w) \/ DeadLetterStep(w) \/ GoesOn(w)
  PROVE  /\ Doing(w) \in Task /\ Apart(w, Doing(w))
         /\ \/ GoesAhead(w) \/ WritesRunning(w) \/ WritesRetrying(w) \/ WritesFinal(w)
            \/ Queues(w) \/ Drops(w)
<1>0. /\ job[w] \in Msg /\ Doing(w) \in Task
      /\ es \in [Task -> TaskStatus] /\ queue \in [Msg -> Nat]
      /\ pc \in [Worker -> WorkerPC] /\ job \in [Worker -> Msg \cup {NoMsg}]
      /\ pc[w] \in {"failState", "failRow", "failResult"} => target[w] = Doing(w)
  <2>1. pc[w] # "idle"
    BY DEF ProcessStep, ExecuteStep, CompleteStep, RetryStep, DeadLetterStep, SkipCompleted,
       Admit, Refuse, PutBack, Claim, LoseClaim, MarkRunning, Begin, HandlerSucceeds,
       VerifierRejects, HandlerRaises, CompleteState, CompleteRow, CompleteResult, AckCompleted,
       RetryState, RetryMark, RetryRow, AckRetried, Requeue, DeadLetter, FailState, FailRow,
       FailResult, AckDead, GoesOn, At
  <2>2. job[w] \in Msg
    BY <2>1 DEF TypeOK
  <2> QED BY <2>2, MsgParts DEF TypeOK, ResumeInv, Doing
<1>1. CASE Admit(w) \/ Refuse(w)
  BY <1>0, <1>1 DEF Admit, Refuse, At, GoTo, Ack, storeVars, busVars, Apart, GoesAhead, Stays,
     SameState, NoLess, Executing, Unfinished, Doing
<1>2. CASE MarkRunning(w) \/ HandlerRaises(w) \/ DeadLetter(w) \/ RetryRow(w)
  BY <1>0, <1>2 DEF MarkRunning, HandlerRaises, DeadLetter, RetryRow, FailureRoute, At, GoTo,
     SetRow, storeVars, busVars, Apart, GoesAhead, Stays, SameState, NoLess, Executing,
     Unfinished, Doing
<1>3. CASE CompleteRow(w) \/ CompleteResult(w) \/ AckCompleted(w) \/ FailRow(w) \/ FailResult(w)
             \/ AckDead(w)
  BY <1>0, <1>3 DEF CompleteRow, CompleteResult, AckCompleted, FailRow, FailResult, AckDead, At,
     GoTo, SetRow, Ack, storeVars, busVars, Apart, GoesAhead, Stays, SameState, NoLess,
     Executing, Unfinished, Doing
<1>4. CASE Claim(w) \/ Begin(w) \/ HandlerSucceeds(w)
  BY <1>0, <1>4 DEF Claim, Begin, HandlerSucceeds, At, GoTo, SetState, busVars, Apart,
     WritesRunning, Stays, NoLess, Executing, Doing
<1>5. CASE VerifierRejects(w)
  BY <1>0, <1>5 DEF VerifierRejects, FailureRoute, At, GoTo, SetState, busVars, Apart,
     WritesRunning, Stays, NoLess, Executing, Doing
<1>6. CASE RetryState(w) \/ RetryMark(w)
  BY <1>0, <1>6 DEF RetryState, RetryMark, At, GoTo, SetState, busVars, Apart, WritesRetrying,
     Stays, NoLess, Unfinished, Doing
<1>7. CASE CompleteState(w) \/ FailState(w)
  BY <1>0, <1>7 DEF CompleteState, FailState, At, GoTo, SetState, busVars, Apart, WritesFinal,
     NoLess, Doing
<1>8. CASE PutBack(w)
  BY <1>0, <1>8 DEF PutBack, Enqueue, Release, At, GoTo, storeVars, Apart, Queues, SameState,
     NoLess, Executing, Doing
<1>9. CASE Requeue(w)
  <2> DEFINE m == [task |-> Doing(w), attempt |-> job[w].attempt + 1]
  <2>1. m \in Msg
    <3>1. job[w].attempt \in 1..MaxAttempts /\ job[w].attempt < MaxAttempts
      BY <1>0, <1>9, MsgParts DEF TypeOK, Requeue, At, Retrying
    <3> QED BY <1>0, <3>1, WorkerAssumption DEF Msg
  <2>2. m.task = Doing(w)
    OBVIOUS
  <2>3. queue' = [queue EXCEPT ![m] = @ + 1]
    BY <1>9 DEF Requeue, Enqueue
  <2> HIDE DEF m
  <2> QED BY <1>0, <1>9, <2>1, <2>2, <2>3 DEF Requeue, At, GoTo, storeVars, Apart, Queues,
             SameState, NoLess, Executing
<1>10. CASE SkipCompleted(w) \/ LoseClaim(w) \/ AckRetried(w) \/ GoesOn(w)
  BY <1>0, <1>10 DEF SkipCompleted, LoseClaim, AckRetried, GoesOn, Release, At, GoTo, Ack,
     storeVars, busVars, Apart, Drops, SameState, NoLess, Executing, Unfinished, Doing
<1> QED BY <1>0, <1>1, <1>2, <1>3, <1>4, <1>5, <1>6, <1>7, <1>8, <1>9, <1>10
        DEF ProcessStep, ExecuteStep, CompleteStep, RetryStep, DeadLetterStep

(* A fetched message is in the hands of the worker that fetched it.        *)
LEMMA FetchEffect ==
  ASSUME TypeOK, NEW w \in Worker, NEW m \in Msg, Fetch(w, m)
  PROVE  Apart(w, m.task) /\ Takes(w, m)
BY MsgParts DEF TypeOK, Fetch, Apart, Takes, SameState, At, GoTo, storeVars

(* Each of these leaves a task that runs, or waits, in somebody's hands.   *)
LEMMA StepKeepsFounded ==
  ASSUME TypeOK, NEW w \in Worker, NEW t \in Task, Founded(t),
         NEW d \in Task, Apart(w, d),
         \/ /\ d = Doing(w)
            /\ \/ GoesAhead(w) \/ WritesRunning(w) \/ WritesRetrying(w) \/ WritesFinal(w)
               \/ Queues(w) \/ Drops(w)
         \/ \E m \in Msg : Takes(w, m)
  PROVE  Founded(t)'
<1>0. es \in [Task -> TaskStatus]
  BY DEF TypeOK
<1> SUFFICES ASSUME es'[t] = "running"
             PROVE  \E v \in Worker : pc'[v] \in Executing /\ job'[v].task = t
  BY DEF Founded, RunsIt, Doing
<1>1. CASE es[t] # "running"
  <2>1. d = Doing(w) /\ t = d /\ WritesRunning(w)
    BY <1>0, <1>1 DEF Apart, GoesAhead, WritesRetrying, WritesFinal, Queues, Drops, Takes, SameState
  <2> QED BY <2>1 DEF WritesRunning, Stays, Doing
<1>2. CASE es[t] = "running"
  <2>1. PICK v \in Worker : pc[v] \in Executing /\ Doing(v) = t
    BY <1>2 DEF Founded, RunsIt
  <2>2. CASE v # w
    BY <2>1, <2>2 DEF Apart, Doing
  <2>3. CASE v = w
    <3>1. d = Doing(w) /\ d = t
      BY <2>1, <2>3 DEF Takes, Executing
    <3>2. GoesAhead(w) \/ WritesRunning(w)
      BY <2>1, <2>3, <3>1 DEF WritesRetrying, WritesFinal, Queues, Drops, Takes, Executing
    <3> QED BY <2>1, <2>3, <3>1, <3>2 DEF GoesAhead, WritesRunning, Stays, Doing
  <2> QED BY <2>2, <2>3
<1> QED BY <1>1, <1>2

(* Nor is a task that waits, or is to be queued again, given up.           *)
LEMMA StepKeepsPending ==
  ASSUME TypeOK, NEW w \in Worker, NEW t \in Task, Founded(t), Awaited(t),
         NEW d \in Task, Apart(w, d),
         \/ /\ d = Doing(w)
            /\ \/ GoesAhead(w) \/ WritesRunning(w) \/ WritesRetrying(w) \/ WritesFinal(w)
               \/ Queues(w) \/ Drops(w)
         \/ \E m \in Msg : m.task = d /\ Takes(w, m)
  PROVE  Awaited(t)'
<1>0. es \in [Task -> TaskStatus] /\ queue \in [Msg -> Nat]
  BY DEF TypeOK
<1> SUFFICES ASSUME es'[t] \in {"created", "queued", "retrying"}
             PROVE  \/ \E m \in Msg : m.task = t /\ queue'[m] > 0
                    \/ \E v \in Worker : pc'[v] \in Unfinished /\ job'[v].task = t
  BY DEF Awaited, Waiting, Holds, Doing
<1>1. CASE t = d /\ \E m \in Msg : m.task = d /\ Takes(w, m)
  BY <1>1 DEF Takes, Unfinished
<1>2. CASE t # d
  <2>1. es'[t] = es[t]
    BY <1>2 DEF Apart
  <2>2. ASSUME NEW m \in Msg, m.task = t, queue[m] > 0 PROVE queue'[m] > 0
    BY <1>2, <2>2 DEF Apart
  <2>3. ASSUME NEW v \in Worker, pc[v] \in Unfinished, Doing(v) = t
        PROVE  pc'[v] \in Unfinished /\ job'[v].task = t
    <3>1. v # w
      BY <1>2, <2>3 DEF Takes, Unfinished, Executing
    <3> QED BY <2>3, <3>1 DEF Apart, Doing
  <2> QED BY <2>1, <2>2, <2>3 DEF Awaited, Waiting, Holds
<1>3. CASE /\ d = Doing(w) /\ t = d
           /\ \/ GoesAhead(w) \/ WritesRunning(w) \/ WritesRetrying(w) \/ WritesFinal(w)
              \/ Queues(w) \/ Drops(w)
  <2>1. CASE WritesRetrying(w) \/ WritesRunning(w)
    BY <1>3, <2>1 DEF WritesRetrying, WritesRunning, Stays, Doing, Executing, Unfinished
  <2>2. CASE Queues(w)
    BY <1>3, <2>2 DEF Queues
  <2>3. CASE GoesAhead(w) \/ Drops(w)
    <3>1. es[t] \in {"created", "queued", "retrying"} /\ NoLess
      BY <2>3 DEF GoesAhead, Drops, SameState
    <3>2. ASSUME NEW m \in Msg, m.task = t, queue[m] > 0 PROVE queue'[m] > 0
      BY <3>1, <3>2 DEF NoLess
    <3>3. ASSUME NEW v \in Worker, pc[v] \in Unfinished, Doing(v) = t
          PROVE  pc'[v] \in Unfinished /\ job'[v].task = t
      <4>1. CASE v # w
        BY <3>3, <4>1 DEF Apart, Doing
      <4>2. CASE v = w
        <5>1. GoesAhead(w)
          BY <1>3, <2>3, <3>1, <3>3, <4>2 DEF Drops
        <5> QED BY <3>3, <4>2, <5>1 DEF GoesAhead, Stays, Doing
      <4> QED BY <4>1, <4>2
    <3> QED BY <3>1, <3>2, <3>3 DEF Awaited, Waiting, Holds
  <2>4. CASE WritesFinal(w)
    BY <1>3, <2>4 DEF WritesFinal
  <2> QED BY <1>3, <2>1, <2>2, <2>3, <2>4
<1> QED BY <1>1, <1>2, <1>3

-----------------------------------------------------------------------------
(* A step of a worker keeps the types, with what it saves beside.          *)
LEMMA WorksTypeOK ==
  ASSUME ResumeInv, NEW w \in Worker, Works(w) \/ GoesOn(w)
  PROVE  ResumeTypeOK'
<1>0. TypeOK /\ saved \in [Task -> 0..MaxAttempts]
  BY DEF ResumeInv, ResumeTypeOK
<1>1. UNCHANGED <<iteration, resume, republished>>
  BY DEF Works, GoesOn
<1>2. TypeOK'
  <2>1. CASE Works(w)
    BY <1>0, <2>1, WorkerTypeOK DEF Works, WorkerStep, ExecuteStep, RetryStep
  <2>2. CASE GoesOn(w)
    BY <1>0, <2>2 DEF GoesOn, Release, GoTo, TypeOK, storeVars, busVars, WorkerPC, Retrying
  <2> QED BY <2>1, <2>2
<1>3. saved' \in [Task -> 0..MaxAttempts]
  <2>1. CASE Saves(w, job[w].attempt) /\ (Begin(w) \/ HandlerSucceeds(w) \/ VerifierRejects(w))
    <3>1. job[w] \in Msg
      BY <1>0, <2>1 DEF Begin, HandlerSucceeds, VerifierRejects, At, TypeOK
    <3>2. job[w].attempt \in 0..MaxAttempts
      BY <3>1, MsgParts, WorkerAssumption
    <3> QED BY <1>0, <2>1, <3>2 DEF Saves
  <2>2. CASE Saves(w, job[w].attempt + 1) /\ RetryState(w)
    <3>1. job[w] \in Msg /\ job[w].attempt < MaxAttempts
      BY <1>0, <2>2 DEF RetryState, At, TypeOK, Retrying
    <3>2. job[w].attempt + 1 \in 0..MaxAttempts
      BY <3>1, MsgParts, WorkerAssumption
    <3> QED BY <1>0, <2>2, <3>2 DEF Saves
  <2> QED BY <1>0, <2>1, <2>2 DEF Works, GoesOn
<1> QED BY <1>1, <1>2, <1>3 DEF ResumeTypeOK, ResumeInv

(* A step of a worker keeps the rest.                                      *)
LEMMA WorksKeeps ==
  ASSUME ResumeInv, NEW w \in Worker, Works(w) \/ GoesOn(w)
  PROVE  ResumeInv'
<1>0. TypeOK /\ ResumeTypeOK /\ republished \subseteq Task
  BY DEF ResumeInv, ResumeTypeOK
<1>1. UNCHANGED <<iteration, resume, republished>>
  BY DEF Works, GoesOn
<1>2. PICK d \in Task :
        /\ Apart(w, d)
        /\ \/ /\ d = Doing(w)
              /\ \/ GoesAhead(w) \/ WritesRunning(w) \/ WritesRetrying(w) \/ WritesFinal(w)
                 \/ Queues(w) \/ Drops(w)
           \/ \E m \in Msg : m.task = d /\ Takes(w, m)
  <2>1. CASE \E m \in Msg : Fetch(w, m)
    BY <1>0, <2>1, FetchEffect, MsgParts
  <2>2. CASE ProcessStep(w) \/ ExecuteStep(w) \/ CompleteStep(w) \/ RetryStep(w) \/ Requeue(w)
               \/ DeadLetter(w) \/ DeadLetterStep(w) \/ GoesOn(w)
    BY <1>0, <2>2, StepEffect
  <2> QED BY <2>1, <2>2 DEF Works, ExecuteStep, RetryStep
<1>3. ASSUME NEW t \in republished PROVE Founded(t)' /\ Awaited(t)'
  <2>1. t \in Task /\ Founded(t) /\ Awaited(t)
    BY <1>0 DEF ResumeInv
  <2>2. Founded(t)'
    BY <1>0, <1>2, <2>1, StepKeepsFounded
  <2>3. Awaited(t)'
    BY <1>0, <1>2, <2>1, StepKeepsPending
  <2> QED BY <2>2, <2>3
<1>4. resume.at = "publish" => Founded(resume.now.task)'
  <2> SUFFICES ASSUME resume.at = "publish" PROVE Founded(resume.now.task)'
    OBVIOUS
  <2>1. resume.now.task \in Task /\ Founded(resume.now.task)
    BY MsgParts DEF ResumeInv, ListInv
  <2> QED BY <1>0, <1>1, <1>2, <2>1, StepKeepsFounded DEF Founded, RunsIt, Doing
<1>5. \A v \in Worker : pc'[v] \in {"failState", "failRow", "failResult"} => target'[v] = Doing(v)'
  <2>1. \A v \in Worker : pc[v] \in {"failState", "failRow", "failResult"} => target[v] = Doing(v)
    BY DEF ResumeInv
  <2> QED
    BY <1>0, <2>1 DEF Works, GoesOn, TypeOK, Fetch, ProcessStep, HandlerRaises, CompleteStep,
       DeadLetterStep, SkipCompleted, Admit, Refuse, PutBack, Claim, LoseClaim, MarkRunning,
       Begin, HandlerSucceeds, VerifierRejects, FailureRoute, CompleteState, CompleteRow,
       CompleteResult, AckCompleted, RetryState, RetryMark, RetryRow, AckRetried, Requeue,
       DeadLetter, FailState, FailRow, FailResult, AckDead, GoTo, At, Release, Doing
<1>6. \A v \in Worker : pc'[v] \notin {"advance", "cascade"}
  <2>1. \A v \in Worker : pc[v] \notin {"advance", "cascade"}
    BY DEF ResumeInv
  <2>2. \A v \in Worker : pc[v] \in {"failState", "failRow", "failResult"} => target[v] = Doing(v)
    BY DEF ResumeInv
  <2> QED
    BY <1>0, <2>1, <2>2 DEF Works, GoesOn, TypeOK, Fetch, ProcessStep, HandlerRaises,
       CompleteStep, DeadLetterStep, SkipCompleted, Admit, Refuse, PutBack, Claim, LoseClaim,
       MarkRunning, Begin, HandlerSucceeds, VerifierRejects, FailureRoute, CompleteState,
       CompleteRow, CompleteResult, AckCompleted, RetryState, RetryMark, RetryRow, AckRetried,
       Requeue, DeadLetter, FailState, FailRow, FailResult, AckDead, GoTo, At, Release
<1>7. ListInv'
  BY <1>1 DEF ListInv, ResumeInv
<1> QED BY <1>1, <1>3, <1>4, <1>5, <1>6, <1>7, WorksTypeOK DEF ResumeInv

-----------------------------------------------------------------------------
(* Where the loop of resume_workflow goes next.                            *)
LEMMA TakeNextList ==
  ASSUME NEW todo \in SUBSET Msg, TakeNext(todo), NEW done,
         \A m \in todo : m.task \notin done,
         \A m, n \in todo : m.task = n.task => m = n
  PROVE  /\ resume' \in [at : {"none", "state"}, now : Msg \cup {NoMsg}, todo : SUBSET Msg]
         /\ resume'.at = "none" <=> resume'.now = NoMsg
         /\ \A m \in resume'.todo : m.task \notin done
         /\ \A m, n \in resume'.todo : m.task = n.task => m = n
         /\ resume'.at # "none" =>
              /\ resume'.now.task \notin done
              /\ \A m \in resume'.todo : m.task # resume'.now.task
<1>0. NoMsg \notin Msg
  BY WorkerAssumption DEF Msg
<1>1. CASE todo = {} /\ resume' = Resting
  BY <1>1 DEF Resting
<1>2. ASSUME NEW m \in todo, resume' = [at |-> "state", now |-> m, todo |-> todo \ {m}]
      PROVE  /\ resume' \in [at : {"none", "state"}, now : Msg \cup {NoMsg}, todo : SUBSET Msg]
             /\ resume'.at = "none" <=> resume'.now = NoMsg
             /\ \A n \in resume'.todo : n.task \notin done
             /\ \A n, k \in resume'.todo : n.task = k.task => n = k
             /\ resume'.at # "none" =>
                  /\ resume'.now.task \notin done
                  /\ \A n \in resume'.todo : n.task # resume'.now.task
  BY <1>0, <1>2
<1> QED BY <1>1, <1>2 DEF TakeNext

(* Reading the list takes its tasks from those published before.           *)
LEMMA ReadTasksKeeps ==
  ASSUME ResumeInv, ReadTasks PROVE ResumeInv'
<1>0. /\ TypeOK /\ saved \in [Task -> 0..MaxAttempts] /\ iteration \in 1..IterationLimit + 1
      /\ republished \subseteq Task /\ attempt \in [Task -> 1..MaxAttempts]
  BY DEF ResumeInv, ResumeTypeOK, TypeOK
<1>1. UNCHANGED <<wvars, saved>> /\ iteration' = iteration + 1 /\ iteration <= IterationLimit
  BY DEF ReadTasks
<1>2. republished' \subseteq republished /\ ListInv' /\ resume'.at \in {"none", "state"}
  <2>1. CASE UNCHANGED <<resume, republished>>
    BY <2>1 DEF ReadTasks, Resting, ResumeInv, ListInv
  <2>2. ASSUME NEW named, NEW list,
               list = Resumable \cap named,
               TakeNext({[task |-> t, attempt |-> attempt[t]] : t \in list}),
               republished' = republished \ list
        PROVE  republished' \subseteq republished /\ ListInv' /\ resume'.at \in {"none", "state"}
    <3> DEFINE todo == {[task |-> t, attempt |-> attempt[t]] : t \in list}
    <3>1. list \subseteq Task
      BY <2>2 DEF Resumable
    <3>2. todo \in SUBSET Msg
      BY <1>0, <3>1 DEF Msg
    <3>3. \A m \in todo : m.task \notin republished'
      BY <2>2
    <3>4. \A m, n \in todo : m.task = n.task => m = n
      OBVIOUS
    <3> HIDE DEF todo
    <3>5. TakeNext(todo)
      BY <2>2 DEF todo
    <3> QED BY <2>2, <3>2, <3>3, <3>4, <3>5, TakeNextList DEF ListInv
  <2>3. CASE \E named \in {Task} \cup {{t} : t \in Task} :
               LET list == Resumable \cap named
               IN  /\ TakeNext({[task |-> t, attempt |-> attempt[t]] : t \in list})
                   /\ republished' = republished \ list
    BY <2>2, <2>3
  <2> QED BY <2>1, <2>3 DEF ReadTasks
<1>3. ResumeTypeOK'
  BY <1>0, <1>1, <1>2, ResumeAssumption DEF ResumeTypeOK, TypeOK, ListInv, wvars, storeVars,
     busVars, workVars
<1>4. \A t \in republished' : Founded(t)' /\ Awaited(t)'
  BY <1>1, <1>2 DEF ResumeInv, Founded, Awaited, RunsIt, Holds, Waiting, Doing, wvars, storeVars,
     busVars, workVars
<1>5. iteration' # 1
  BY <1>0, <1>1, ResumeAssumption
<1> QED BY <1>1, <1>2, <1>3, <1>4, <1>5 DEF ResumeInv, Doing, wvars, workVars

(* What resume_workflow writes of the task in hand, which is published to  *)
(* nobody yet, leaves the others as they are.                              *)
LEMMA WritesOfNow ==
  ASSUME ResumeInv, SaveAttempt \/ SaveKey \/ ResetRow \/ MarkResumed
  PROVE  ResumeInv'
<1>0. /\ TypeOK /\ saved \in [Task -> 0..MaxAttempts]
      /\ republished \subseteq Task /\ ListInv
      /\ es \in [Task -> TaskStatus] /\ status \in [Task -> TaskStatus]
  BY DEF ResumeInv, ResumeTypeOK, TypeOK
<1>1. /\ resume.at \in {"state", "key", "row", "mark"}
      /\ UNCHANGED <<attempt, results, busVars, workVars, faults, iteration, republished>>
  BY DEF SaveAttempt, SaveKey, WriteState, ResetRow, MarkResumed
<1>2. resume.now \in Msg /\ resume.now.task \in Task \ republished
  BY <1>0, <1>1, MsgParts DEF ListInv
<1>3. \E to \in {"key", "row", "mark", "publish"} : resume' = [resume EXCEPT !.at = to]
  BY DEF SaveAttempt, SaveKey, WriteState, ResetRow, MarkResumed
<1>4. /\ resume'.at \in {"key", "row", "mark", "publish"}
      /\ resume'.now = resume.now /\ resume'.todo = resume.todo
      /\ ListInv'
  BY <1>0, <1>1, <1>2, <1>3, WorkerAssumption DEF ListInv, Msg
<1>5. \A t \in Task \ {resume.now.task} : es'[t] = es[t]
  BY <1>0, <1>2 DEF SaveAttempt, SaveKey, WriteState, ResetRow, MarkResumed, SetState
<1>6. es' \in [Task -> TaskStatus] /\ status' \in [Task -> TaskStatus]
  BY <1>0, <1>2 DEF SaveAttempt, SaveKey, WriteState, ResetRow, MarkResumed, SetState, SetRow,
     TaskStatus
<1>7. saved' \in [Task -> 0..MaxAttempts]
  <2>1. resume.now.attempt \in 0..MaxAttempts /\ 1 \in 0..MaxAttempts
    BY <1>2, MsgParts, WorkerAssumption
  <2> QED BY <1>0, <1>2, <2>1 DEF SaveAttempt, SaveKey, WriteState, ResetRow, MarkResumed
<1>8. ResumeTypeOK'
  BY <1>0, <1>1, <1>4, <1>6, <1>7 DEF ResumeInv, ResumeTypeOK, TypeOK, ListInv, busVars, workVars
<1>9. resume'.at = "publish" => es'[resume.now.task] = "queued"
  BY <1>0, <1>2 DEF SaveAttempt, SaveKey, WriteState, ResetRow, MarkResumed, SetState, ListInv
<1>10. \A t \in republished : Founded(t)' /\ Awaited(t)'
  BY <1>0, <1>1, <1>2, <1>5 DEF ResumeInv, Founded, Awaited, RunsIt, Holds, Waiting, Doing, busVars,
     workVars
<1>11. resume'.at = "publish" => Founded(resume.now.task)'
  BY <1>4, <1>9 DEF Founded
<1>12. iteration # 1
  BY <1>1 DEF ResumeInv, Resting
<1> QED BY <1>1, <1>4, <1>8, <1>10, <1>11, <1>12 DEF ResumeInv, Doing, workVars

(* What it publishes waits, and who runs the task meanwhile is known.      *)
LEMMA RepublishKeeps ==
  ASSUME ResumeInv, Republish PROVE ResumeInv'
<1>0. /\ TypeOK /\ ListInv /\ republished \subseteq Task /\ queue \in [Msg -> Nat]
      /\ resume.at = "publish" /\ resume.now \in Msg /\ resume.now.task \in Task
      /\ resume.todo \in SUBSET Msg
  BY MsgParts DEF ResumeInv, ResumeTypeOK, TypeOK, Republish, ListInv
<1>1. /\ UNCHANGED <<storeVars, dlq, unacked, workVars, faults, saved, iteration>>
      /\ republished' = republished \cup {resume.now.task}
      /\ queue' = [queue EXCEPT ![resume.now] = @ + 1]
      /\ TakeNext(resume.todo)
  BY DEF Republish, Enqueue
<1>2. ListInv' /\ resume'.at \in {"none", "state"}
  <2>1. \A m \in resume.todo : m.task \notin republished'
    BY <1>0, <1>1 DEF ListInv
  <2>2. \A m, n \in resume.todo : m.task = n.task => m = n
    BY <1>0 DEF ListInv
  <2> QED BY <1>0, <1>1, <2>1, <2>2, TakeNextList DEF ListInv
<1>3. queue' \in [Msg -> Nat] /\ queue'[resume.now] > 0
      /\ \A m \in Msg : queue[m] > 0 => queue'[m] > 0
  BY <1>0, <1>1
<1>4. ResumeTypeOK'
  BY <1>0, <1>1, <1>2, <1>3 DEF ResumeInv, ResumeTypeOK, TypeOK, ListInv, storeVars, workVars
<1>5. \A t \in republished' : Founded(t)' /\ Awaited(t)'
  <2>1. \A t \in republished : Founded(t)' /\ Awaited(t)'
    BY <1>1, <1>3
    DEF ResumeInv, Founded, Awaited, RunsIt, Holds, Waiting, Doing, storeVars, workVars
  <2>2. PICK now \in Task : now = resume.now.task
    BY <1>0
  <2>3. Founded(now)
    BY <1>0, <2>2 DEF ResumeInv
  <2>4. Founded(now)'
    BY <1>1, <2>3 DEF Founded, RunsIt, Doing, storeVars, workVars
  <2>5. Awaited(now)'
    BY <1>0, <1>3, <2>2 DEF Awaited, Waiting
  <2>6. republished' = republished \cup {now}
    BY <1>1, <2>2
  <2> QED BY <2>1, <2>4, <2>5, <2>6
<1>6. iteration # 1
  BY <1>0 DEF ResumeInv, Resting
<1> QED BY <1>1, <1>2, <1>4, <1>5, <1>6 DEF ResumeInv, Doing, workVars

(* A resumer that dies keeps what it has published.                        *)
LEMMA ResumerDiesKeeps ==
  ASSUME ResumeInv, ResumerDies PROVE ResumeInv'
<1>1. resume' = Resting /\ UNCHANGED <<wvars, saved, iteration, republished>>
  BY DEF ResumerDies
<1> QED
  BY <1>1 DEF ResumeInv, ResumeTypeOK, TypeOK, ListInv, Resting, Founded, Awaited, RunsIt, Holds,
     Waiting, Doing, wvars, storeVars, busVars, workVars

(* Workers die before the first resume only, when nothing is published.    *)
LEMMA WorkerDiesKeeps ==
  ASSUME ResumeInv, NEW w \in Worker, WorkerDies(w) PROVE ResumeInv'
<1>0. /\ TypeOK /\ republished = {} /\ resume = Resting
  BY DEF ResumeInv, ResumeTypeOK, WorkerDies
<1>1. TypeOK'
  <2>1. queue' \in [Msg -> Nat]
    BY <1>0 DEF WorkerDies, TypeOK
  <2> QED BY <1>0, <2>1, WorkerAssumption DEF WorkerDies, Release, GoTo, TypeOK, storeVars,
             WorkerPC, Retrying
<1>2. \A v \in Worker : pc'[v] \notin {"advance", "cascade"}
  BY <1>0 DEF WorkerDies, Release, GoTo, TypeOK, ResumeInv
<1>3. \A v \in Worker : pc'[v] \in {"failState", "failRow", "failResult"} => target'[v] = Doing(v)'
  BY <1>0 DEF WorkerDies, Release, GoTo, TypeOK, ResumeInv, Doing
<1>4. UNCHANGED <<saved, iteration, resume, republished>>
  BY DEF WorkerDies
<1> QED BY <1>0, <1>1, <1>2, <1>3, <1>4 DEF ResumeInv, ResumeTypeOK, ListInv, Resting

(* No step of the resumer or of a worker breaks any of this.               *)
LEMMA ResumeInvStep == ResumeInv /\ [ResumeNext]_resumeVars => ResumeInv'
<1> SUFFICES ASSUME ResumeInv, [ResumeNext]_resumeVars PROVE ResumeInv'
  OBVIOUS
<1>1. CASE ResumeStep
  BY <1>1, ReadTasksKeeps, WritesOfNow, RepublishKeeps, ResumerDiesKeeps DEF ResumeStep
<1>2. ASSUME NEW w \in Worker, Works(w) \/ GoesOn(w) \/ WorkerDies(w) PROVE ResumeInv'
  BY <1>2, WorksKeeps, WorkerDiesKeeps
<1>3. CASE UNCHANGED resumeVars
  BY <1>3 DEF resumeVars, ResumeInv, ResumeTypeOK, TypeOK, ListInv, Founded, Awaited, RunsIt, Holds,
     Waiting, Doing, wvars, storeVars, busVars, workVars
<1> QED BY <1>1, <1>2, <1>3 DEF ResumeNext

(* A workflow that has just been resumed satisfies it.                     *)
LEMMA ResumeInitial == ResumeInit => ResumeInv
<1> SUFFICES ASSUME ResumeInit PROVE ResumeInv
  OBVIOUS
<1>1. queue \in [Msg -> Nat]
  BY DEF ResumeInit
<1>2. TypeOK
  BY <1>1, WorkerAssumption DEF ResumeInit, TypeOK, WorkerPC, TaskStatus, Retrying
<1>3. saved \in [Task -> 0..MaxAttempts] /\ iteration \in 1..IterationLimit + 1
  BY WorkerAssumption, ResumeAssumption DEF ResumeInit
<1> QED BY <1>2, <1>3 DEF ResumeInit, ResumeInv, ResumeTypeOK, ListInv, Resting

(* All states of a resumed workflow satisfy it.                            *)
LEMMA ResumeInvariant == ResumeSpec => []ResumeInv
BY ResumeInitial, ResumeInvStep, PTL DEF ResumeSpec

(* The task rows, the messages, the workers and the list of a resumed      *)
(* workflow keep their types, whatever the workers write meanwhile.        *)
THEOREM ResumeTypeCorrect == ResumeSpec => []ResumeTypeOK
<1>1. ResumeInv => ResumeTypeOK
  BY DEF ResumeInv
<1> QED BY <1>1, ResumeInvariant, PTL

(* A task that resume_workflow has published again does not end up         *)
(* forgotten, whatever a worker that is still alive writes between its     *)
(* commits (orchestrator.py:262): with any tasks, workers, attempts and    *)
(* number of resumes.                                                      *)
THEOREM RepublishedTasksEnd == ResumeSpec => []RepublishedTaskEnds
<1>1. ResumeInv => RepublishedTaskEnds
  <2> SUFFICES ASSUME ResumeInv, \A m \in Msg : queue[m] = 0, \A w \in Worker : At(w, "idle"),
                      NEW t \in republished
               PROVE  es[t] \in {"completed", "failed"}
    BY DEF RepublishedTaskEnds
  <2>1. t \in Task /\ es[t] \in TaskStatus /\ Founded(t) /\ Awaited(t)
    BY DEF ResumeInv, ResumeTypeOK, TypeOK
  <2>2. ~ Waiting(t) /\ \A w \in Worker : ~ Holds(w, t) /\ ~ RunsIt(w, t)
    BY DEF Waiting, Holds, RunsIt, At, Unfinished, Executing
  <2> QED BY <2>1, <2>2 DEF Founded, Awaited, TaskStatus
<1> QED BY <1>1, ResumeInvariant, PTL

-----------------------------------------------------------------------------
(* The front door of the chat.                                             *)

(* The newest entries of a list are entries, and no more of them.          *)
LEMMA NewestFew ==
  ASSUME NEW A, NEW s \in Seq(A), NEW n \in Nat \ {0}
  PROVE  Newest(s, n) \in Seq(A) /\ Len(Newest(s, n)) <= n
<1>1. CASE Len(s) <= n
  BY <1>1 DEF Newest
<1>2. CASE ~ (Len(s) <= n)
  <2>1. Len(s) \in Nat /\ Len(s) - n + 1 \in 1..Len(s) /\ Len(s) - n + 1 <= Len(s)
    BY <1>2
  <2>2. SubSeq(s, Len(s) - n + 1, Len(s)) \in Seq(A)
    BY <2>1
  <2>3. Len(SubSeq(s, Len(s) - n + 1, Len(s))) = n
    BY <2>1, <1>2
  <2> QED BY <1>2, <2>2, <2>3 DEF Newest
<1> QED BY <1>1, <1>2

(* A tick forgets some messages and makes the others one older.            *)
LEMMA OlderFew ==
  ASSUME NEW s \in Seq(0..RateWindow - 1)
  PROVE  Older(s) \in Seq(0..RateWindow - 1) /\ Len(Older(s)) <= Len(s)
<1> DEFINE A == 0..RateWindow - 1
           kept == Only(s, 0..RateWindow - 2)
<1>1. kept \in Seq(A) /\ Range(kept) = Range(s) \cap (0..RateWindow - 2) /\ Len(kept) <= Len(s)
  <2> HIDE DEF A
  <2>1. s \in Seq(A)
    BY DEF A
  <2> QED BY <2>1, OnlyKeeps
<1>2. DOMAIN kept = 1..Len(kept) /\ Len(kept) \in Nat
  <2> HIDE DEF A, kept
  <2> QED BY <1>1
<1>3. \A i \in 1..Len(kept) : kept[i] \in 0..RateWindow - 2
  <2> HIDE DEF A, kept
  <2> QED BY <1>1, <1>2 DEF Range
<1>4. \A i \in 1..Len(kept) : kept[i] + 1 \in A
  BY <1>3, GateAssumption
<1>5. Older(s) = [i \in 1..Len(kept) |-> kept[i] + 1]
  BY <1>2 DEF Older
<1> HIDE DEF A, kept
<1>6. Older(s) \in Seq(A) /\ Len(Older(s)) = Len(kept)
  BY <1>2, <1>4, <1>5
<1> QED BY <1>1, <1>6 DEF A

(* No update makes the gate remember more than it looks at.                *)
LEMMA GateStep == GateTypeOK /\ [GateNext]_gateVars => GateTypeOK'
<1> SUFFICES ASSUME GateTypeOK, [GateNext]_gateVars PROVE GateTypeOK'
  OBVIOUS
<1> USE GateAssumption
<1>1. ASSUME NEW kind \in UpdateKinds, NEW sender \in Senders, Dispatch(kind, sender)
      PROVE  GateTypeOK'
  <2>1. ASSUME NEW reply \in GateReplies, Answer(reply) PROVE GateTypeOK'
    BY <2>1 DEF Answer, GateTypeOK
  <2>2. ASSUME Limited PROVE GateTypeOK'
    <3>1. Append(hits, 0) \in Seq(0..RateWindow - 1)
      BY DEF GateTypeOK
    <3>2. hits' \in Seq(0..RateWindow - 1) /\ Len(hits') <= RateLimit
      BY <2>2, <3>1, NewestFew DEF Limited
    <3>3. gateReply' \in GateReplies
      BY <2>2 DEF Limited, GateReplies
    <3> QED BY <3>2, <3>3 DEF GateTypeOK
  <2>3. Limited \/ \E reply \in GateReplies : Answer(reply)
    BY <1>1 DEF Dispatch, UpdateKinds, GateReplies
  <2> QED BY <2>1, <2>2, <2>3
<1>2. CASE GateTick
  <2>1. hits \in Seq(0..RateWindow - 1) /\ Len(hits) <= RateLimit /\ Len(hits) \in Nat
    BY DEF GateTypeOK
  <2>2. hits' \in Seq(0..RateWindow - 1) /\ Len(hits') <= Len(hits) /\ UNCHANGED gateReply
    BY <1>2, <2>1, OlderFew DEF GateTick
  <2>3. Len(hits') <= RateLimit
    BY <2>1, <2>2
  <2> QED BY <2>2, <2>3 DEF GateTypeOK
<1>3. CASE UNCHANGED gateVars
  BY <1>3 DEF GateTypeOK, gateVars
<1> QED BY <1>1, <1>2, <1>3 DEF GateNext, Update

(* The front door has seen no message.                                     *)
LEMMA GateInitial == GateInit => GateTypeOK
BY GateAssumption DEF GateInit, GateTypeOK, GateReplies

-----------------------------------------------------------------------------
(* Roles and memory assets.                                                *)

(* The seeded users hold roles that there are.                             *)
LEMMA AccessInitial == AccessInit => AccessTypeOK
<1> SUFFICES ASSUME AccessInit PROVE AccessTypeOK
  OBVIOUS
<1>1. DOMAIN held = Users /\ \A u \in Users : held[u] \subseteq Roles
  <2>1. DOMAIN Permissions
          = {"procurement_requester", "procurement_manager", "finance_approver", "admin"}
    BY DEF Permissions
  <2>2. \A u \in DOMAIN Seeded :
          Seeded[u] \in {{"procurement_requester"}, {"procurement_manager"},
                         {"finance_approver"}, {"admin"}}
    BY DEF Seeded
  <2> QED BY <2>1, <2>2 DEF AccessInit, Users, Roles
<1>2. DOMAIN assets = AssetIds /\ \A a \in AssetIds : assets[a] \in Assets \cup {NoAsset}
  BY DEF AccessInit
<1> QED BY <1>1, <1>2 DEF AccessTypeOK

(* Whatever is assigned, revoked or put, users hold roles that there are.  *)
LEMMA AccessStep == AccessTypeOK /\ [AccessNext]_accessVars => AccessTypeOK'
<1> SUFFICES ASSUME AccessTypeOK, [AccessNext]_accessVars PROVE AccessTypeOK'
  OBVIOUS
<1>1. ASSUME NEW c \in Changes, AssignRole(c[1], c[2]) \/ RevokeRole(c[1], c[2])
      PROVE  AccessTypeOK'
  <2>1. c[1] \in Users /\ c[2] \in Roles
    BY AccessAssumption
  <2>2. UNCHANGED assets /\ held' \in { [held EXCEPT ![c[1]] = @ \cup {c[2]}],
                                        [held EXCEPT ![c[1]] = @ \ {c[2]}] }
    BY <1>1 DEF AssignRole, RevokeRole
  <2>3. DOMAIN held' = Users /\ \A u \in Users : held'[u] \subseteq Roles
    BY <2>1, <2>2 DEF AccessTypeOK
  <2> QED BY <2>2, <2>3 DEF AccessTypeOK
<1>2. ASSUME NEW a \in AssetIds, NEW asset \in Assets, PutAsset(a, asset)
      PROVE  AccessTypeOK'
  BY <1>2 DEF PutAsset, AccessTypeOK
<1>3. CASE UNCHANGED <<held, assets>>
  BY <1>3 DEF AccessTypeOK
<1>4. ASSUME NEW v, Say(v) PROVE UNCHANGED <<held, assets>>
  BY <1>4 DEF Say
<1>5. ASSUME NEW r \in Roles, FindUsersByRole(r) PROVE UNCHANGED <<held, assets>>
  BY <1>5, <1>4 DEF FindUsersByRole
<1>6. ASSUME NEW s \in Clients,
             \/ ProcurementRun(s) \/ ApprovalsPending(s) \/ ChatCreates(s)
             \/ \E scope \in {"team", "personal"} : KnowledgeIngest(s, scope) \/ KnowledgeQuery(s, scope)
      PROVE  UNCHANGED <<held, assets>>
  BY <1>6, Zenon DEF Say, ProcurementRun, ApprovalsPending, ChatCreates, KnowledgeIngest, KnowledgeQuery
<1>7. ASSUME NEW u \in Users, NEW v \in Users, NEW amount \in Amounts, Approve(u, v, amount)
      PROVE  UNCHANGED <<held, assets>>
  BY <1>7, Zenon DEF Say, Approve
<1>8. ASSUME NEW a \in AssetIds, NEW p \in Principals, GetAsset(a, p) \/ AuthorizeTool(a, p)
      PROVE  UNCHANGED <<held, assets>>
  BY <1>8, Zenon DEF Say, GetAsset, AuthorizeTool
<1>9. ASSUME NEW a \in AssetIds, NEW tier \in {"raw_store", "reviewed", "approved"},
             NEW ok \in BOOLEAN, AskPromotion(a, tier, ok)
      PROVE  UNCHANGED <<held, assets>>
  BY <1>9, Zenon DEF Say, AskPromotion
<1>10. CASE UNCHANGED accessVars
  BY <1>10, <1>3 DEF accessVars
<1> QED BY <1>1, <1>2, <1>3, <1>5, <1>6, <1>7, <1>8, <1>9, <1>10 DEF AccessNext

-----------------------------------------------------------------------------
(* Verdicts on texts.                                                      *)

(* What checks object to; Verdict gives nothing else as a reason.          *)
ReasonKinds == {"", "schema", "quality", "trust"}
Verdicts    == {"", "schema", "quality", "trust", "integrity", "VALID", "EXPIRED", "UNKNOWN"}

(* Every verdict has one of these reasons.                                 *)
LEMMA VerdictsGiven ==
  /\ Pass.reason \in Verdicts /\ TooLong.reason \in Verdicts
  /\ \A reason \in Verdicts : Failed(reason).reason \in Verdicts
  /\ "quality" \in Verdicts /\ ReasonKinds \subseteq Verdicts
<1>1. Pass.reason = "" /\ TooLong.reason = "schema"
  BY Zenon DEF Pass, TooLong
<1>2. \A reason : Failed(reason).reason = reason
  BY Zenon DEF Failed
<1> QED BY <1>1, <1>2, Zenon DEF Verdicts, ReasonKinds

(* All there is to the types of the checks.                                *)
LEMMA ChecksTyped ==
  /\ ChecksTypeOK <=> payload \in QuoteSets /\ checked.reason \in Verdicts
  /\ ChecksTypeOK' <=> payload' \in QuoteSets /\ checked'.reason \in Verdicts
BY Zenon DEF ChecksTypeOK, Verdicts

(* Nothing was checked yet.                                                *)
LEMMA ChecksInitial == ChecksInit => ChecksTypeOK
BY VerdictsGiven, ChecksTyped DEF ChecksInit

(* The first objection is one of the kinds a check returns.                *)
LEMMA ObjectionKinds ==
  ASSUME NEW type, NEW r
  PROVE  /\ Objections(type, r) \in Seq(ReasonKinds)
<1>1. /\ SchemaCheck(r) \in ReasonKinds /\ ProcurementEvidenceCheck(r) \in ReasonKinds
      /\ GroundedVendorCheck(r) \in ReasonKinds /\ GroundedPriceCheck(r) \in ReasonKinds
      /\ \A n : AtLeast(r, n) \in ReasonKinds
  BY Zenon
  DEF SchemaCheck, ProcurementEvidenceCheck, GroundedVendorCheck, GroundedPriceCheck, AtLeast,
      ReasonKinds
<1> HIDE DEF ReasonKinds
<1> DEFINE rest ==
  CASE type = "verification" -> << ProcurementEvidenceCheck(r), GroundedVendorCheck(r) >>
    [] type = "analysis" ->
         << ProcurementEvidenceCheck(r), GroundedVendorCheck(r), GroundedPriceCheck(r) >>
    [] type \in {"price", "vendor"} -> << GroundedVendorCheck(r) >>
    [] type \in {"research", "report"} -> << AtLeast(r, 20) >>
    [] type = "analyze" -> << AtLeast(r, 30) >>
    [] type \in {"notify", "scrape"} -> << AtLeast(r, 10) >>
    [] OTHER -> <<>>
<1>2. rest \in Seq(ReasonKinds)
  BY <1>1
<1>3. <<SchemaCheck(r)>> \in Seq(ReasonKinds)
  BY <1>1
<1> HIDE DEF rest
<1>4. <<SchemaCheck(r)>> \o rest \in Seq(ReasonKinds)
  BY <1>2, <1>3
<1> QED BY <1>4 DEF Objections, rest

(* Every check, trust look-up and acceptance gives such a verdict.         *)
LEMMA ChecksStep == ChecksTypeOK /\ [ChecksNext]_checksVars => ChecksTypeOK'
<1> SUFFICES ASSUME ChecksTypeOK, [ChecksNext]_checksVars PROVE ChecksTypeOK'
  OBVIOUS
<1>1. ASSUME NEW type, NEW r, Check(type, r) PROVE ChecksTypeOK'
  <2> DEFINE list == Objections(type, r)
             first == SelectInSeq(list, LAMBDA reason : reason # "")
  <2>1. list \in Seq(ReasonKinds)
    BY ObjectionKinds
  <2>2. first = 0 \/ first \in DOMAIN list
    <3> HIDE DEF list
    <3> DEFINE I == {i \in 1..Len(list) : list[i] # ""}
    <3>1. first = IF I # {} THEN Min(I) ELSE 0
      BY Zenon DEF SelectInSeq
    <3>2. I \in SUBSET (1..Len(list))
      BY Zenon
    <3> HIDE DEF I, first
    <3>3. Len(list) \in Nat /\ DOMAIN list = 1..Len(list)
      BY <2>1
    <3>4. I # {} => Min(I) \in I
      BY <3>2, <3>3, FirstThere
    <3> QED BY <3>1, <3>2, <3>3, <3>4
  <2>3. first # 0 => list[first] \in ReasonKinds
    <3> HIDE DEF list, first
    <3> QED BY <2>1, <2>2
  <2>4. Verdict(type, r) \in {TooLong, Pass} \cup {Failed(reason) : reason \in ReasonKinds}
    <3> HIDE DEF first
    <3>1. Verdict(type, r) = IF r.length > MaxLength THEN TooLong
                             ELSE IF first = 0 THEN Pass ELSE Failed(list[first])
      BY DEF Verdict, first
    <3> HIDE DEF list
    <3> QED BY <2>3, <3>1
  <2>5. checked'.reason \in Verdicts
    BY <1>1, <2>4, VerdictsGiven DEF Check
  <2> QED BY <1>1, <2>5, ChecksTyped DEF Check
<1>2. ASSUME NEW q \in Quotes, CheckQuote(q) PROVE ChecksTypeOK'
  <2>1. EvidenceTrustCheck(q) \in Verdicts
    BY Zenon DEF EvidenceTrustCheck, Verdicts
  <2>2. QuoteStatus(q) \in Verdicts
    <3>1. QuoteStatus(q) \in {"UNKNOWN", "EXPIRED", "VALID"}
      BY DEF QuoteStatus
    <3> QED BY <3>1, Zenon DEF Verdicts
  <2>3. SourceIntegrityCheck(q) \in Verdicts
    BY Zenon DEF SourceIntegrityCheck, Verdicts
  <2>4. PICK reason \in {EvidenceTrustCheck(q), QuoteStatus(q), SourceIntegrityCheck(q)} :
          checked' = [passed |-> reason = "", reason |-> reason, retryable |-> FALSE]
    BY <1>2, Zenon DEF CheckQuote
  <2>5. checked'.reason = reason
    BY <2>4, Zenon
  <2>6. checked'.reason \in Verdicts
    BY <2>1, <2>2, <2>3, <2>5
  <2> QED BY <1>2, <2>6, ChecksTyped DEF CheckQuote
<1>3. ASSUME NEW domain, NEW lines, CheckAnswer(domain, lines) PROVE ChecksTypeOK'
  <2>1. checked' \in {Pass, Failed("quality")} /\ UNCHANGED payload
    BY <1>3 DEF CheckAnswer
  <2>2. checked'.reason \in Verdicts
    BY <2>1, VerdictsGiven
  <2> QED BY <2>1, <2>2, ChecksTyped
<1>4. CASE UNCHANGED checksVars
  BY <1>4, ChecksTyped DEF checksVars
<1> QED BY <1>1, <1>2, <1>3, <1>4 DEF ChecksNext

-----------------------------------------------------------------------------
(* Scraped documents.                                                      *)

(* What an earlier run has cached is fresh.                                *)
LEMMA ScrapingInitial == ScrapingInit => ScrapingTypeOK
<1> SUFFICES ASSUME ScrapingInit PROVE ScrapingTypeOK
  OBVIOUS
<1>1. \A u \in DOMAIN scraped : u \in Uris /\ scraped[u] \in 0..Ttl + 1
  BY ScrapingAssumption DEF ScrapingInit
<1>2. fetched \subseteq Uris /\ waiting \in ScrapeTasks \cup {Nothing, Malformed}
  BY DEF ScrapingInit
<1> QED BY <1>1, <1>2 DEF ScrapingTypeOK

(* No document grows older than the cleanup lets it.                       *)
LEMMA ScrapingStep == ScrapingTypeOK /\ [ScrapingNext]_scrapingVars => ScrapingTypeOK'
<1> SUFFICES ASSUME ScrapingTypeOK, [ScrapingNext]_scrapingVars PROVE ScrapingTypeOK'
  OBVIOUS
<1>1. ASSUME NEW task \in ScrapeTasks, RunScrape(task) PROVE fetched' \subseteq Uris
  <2>1. task.keys \subseteq Uris
    BY DEF ScrapeTasks
  <2> QED BY <1>1, <2>1 DEF RunScrape
<1>2. CASE ScraperRun
  BY <1>1, <1>2 DEF ScraperRun, ScrapingTypeOK
<1>3. CASE AskScrape
  BY <1>3 DEF AskScrape, ScrapingTypeOK
<1>4. CASE RunOnce
  <2>1. fetched' \subseteq Uris
    BY <1>1, <1>4 DEF RunOnce, ScrapingTypeOK
  <2>2. UNCHANGED scraped /\ waiting' \in {waiting, Nothing}
    BY <1>4 DEF RunOnce
  <2> QED BY <2>1, <2>2 DEF ScrapingTypeOK
<1>5. CASE Cleanup
  BY <1>5 DEF Cleanup, ScrapingTypeOK
<1>6. CASE DayPasses
  <2>1. DOMAIN scraped' = DOMAIN scraped /\ UNCHANGED <<fetched, waiting>>
    BY <1>6 DEF DayPasses
  <2>2. \A u \in DOMAIN scraped : scraped[u] \in 0..Ttl /\ scraped'[u] = scraped[u] + 1
    BY <1>6, ScrapingAssumption DEF DayPasses, ScrapingTypeOK
  <2>3. \A u \in DOMAIN scraped : scraped'[u] \in 0..Ttl + 1
    BY <2>2, ScrapingAssumption
  <2> QED BY <2>1, <2>3 DEF ScrapingTypeOK
<1>7. CASE UNCHANGED scrapingVars
  BY <1>7 DEF scrapingVars, ScrapingTypeOK
<1> QED BY <1>2, <1>3, <1>4, <1>5, <1>6, <1>7 DEF ScrapingNext

-----------------------------------------------------------------------------
(* Answers with and without a language model.                              *)

(* The chain asks the providers it has keys for.                           *)
LEMMA ChainThere == Chain \in Seq(Providers) /\ Len(Chain) \in Nat
<1>1. ProviderOrder \in Seq(Providers)
  <2>1. ProviderOrder \in Seq({"openai", "anthropic", "hf", "cloudflare"})
    BY DEF ProviderOrder
  <2>2. DOMAIN ProviderOrder = 1..Len(ProviderOrder) /\ Len(ProviderOrder) \in Nat
    BY <2>1
  <2>3. \A i \in 1..Len(ProviderOrder) : ProviderOrder[i] \in Providers
    BY <2>2 DEF Providers, Range
  <2>4. ProviderOrder = [i \in 1..Len(ProviderOrder) |-> ProviderOrder[i]]
    BY <2>1
  <2> HIDE DEF ProviderOrder
  <2> QED BY <2>2, <2>3, <2>4
<1>2. Chain \in Seq(Providers)
  BY <1>1, OnlyKeeps DEF Chain
<1> QED BY <1>2

(* A price answer marks quotes that it lists, and lists no more than a     *)
(* message holds.                                                          *)
AnswerTyped(price) ==
  /\ price.kind \in {"none", "no_data", "demo_only", "prices"}
  /\ price.listed \in 0..MaxListed /\ price.stale \subseteq 1..price.listed

(* Whatever quotes there are, it does.                                     *)
LEMMA PriceListed ==
  ASSUME NEW quotes \in Seq(DatedQuotes)
  PROVE  AnswerTyped(PriceAnswer(quotes))
<1> USE AdviceAssumption
<1> DEFINE real  == Only(quotes, {q \in DatedQuotes : ~ q.demo})
           shown == IF Len(real) <= MaxListed THEN real ELSE SubSeq(real, 1, MaxListed)
           full  == [kind |-> "prices", listed |-> Len(shown),
                     stale |-> {i \in DOMAIN shown : IsStale(shown[i])}]
<1>1. real \in Seq(DatedQuotes)
  BY OnlyKeeps
<1>2. Len(shown) \in 0..MaxListed /\ DOMAIN shown = 1..Len(shown)
  <2> HIDE DEF real
  <2>1. CASE Len(real) <= MaxListed
    BY <1>1, <2>1
  <2>2. CASE ~ (Len(real) <= MaxListed)
    <3>1. shown = SubSeq(real, 1, MaxListed) /\ Len(real) \in Nat /\ MaxListed <= Len(real)
      BY <1>1, <2>2
    <3>2. shown \in Seq(DatedQuotes) /\ Len(shown) = MaxListed
      BY <1>1, <3>1
    <3> QED BY <3>2
  <2> QED BY <2>1, <2>2
<1> HIDE DEF shown
<1>3. AnswerTyped(full)
  BY <1>2 DEF AnswerTyped
<1>4. /\ AnswerTyped([NoAnswer EXCEPT !.kind = "no_data"])
      /\ AnswerTyped([NoAnswer EXCEPT !.kind = "demo_only"])
  BY DEF AnswerTyped, NoAnswer
<1>5. PriceAnswer(quotes) \in {[NoAnswer EXCEPT !.kind = "no_data"],
                               [NoAnswer EXCEPT !.kind = "demo_only"], full}
  <2>1. PriceAnswer(quotes) =
          CASE quotes = <<>> -> [NoAnswer EXCEPT !.kind = "no_data"]
            [] quotes # <<>> /\ real = <<>> -> [NoAnswer EXCEPT !.kind = "demo_only"]
            [] real # <<>> -> full
    BY Zenon DEF PriceAnswer, shown
  <2>2. quotes = <<>> => real = <<>>
    <3>1. Len(real) <= Len(quotes) /\ Len(real) \in Nat
      <4>1. Len(real) <= Len(quotes)
        BY OnlyKeeps
      <4> HIDE DEF real
      <4> QED BY <1>1, <4>1
    <3> HIDE DEF real
    <3> QED BY <1>1, <3>1
  <2> HIDE DEF real, full
  <2> QED BY <2>1, <2>2
<1> QED BY <1>3, <1>4, <1>5

(* Who can have answered.                                                  *)
AdviceAnswers == Providers \cup {"none", "stub", "raised", "fallback", "rules"}

(* Nobody has asked yet.                                                   *)
LEMMA AdviceInitial == AdviceInit => AdviceTypeOK
<1> SUFFICES ASSUME AdviceInit PROVE AdviceTypeOK
  OBVIOUS
<1>1. keys \subseteq Providers /\ up \subseteq keys
  BY AdviceAssumption DEF AdviceInit
<1>2. trying \in 0..Len(Chain)
  BY ChainThere DEF AdviceInit
<1>3. answer \in AdviceAnswers
  BY DEF AdviceInit, AdviceAnswers
<1>4. opinions \in [Personas -> {"none", "asking", "llm", "stub"}]
  BY DEF AdviceInit
<1>5. AnswerTyped(priced)
  BY AdviceAssumption DEF AdviceInit, NoAnswer, AnswerTyped
<1> QED BY <1>1, <1>2, <1>3, <1>4, <1>5 DEF AdviceTypeOK, AdviceAnswers, AnswerTyped

(* The gateway stays within its chain of providers, and who answers is one *)
(* of them or a fallback.                                                  *)
LEMMA AdviceStep == AdviceTypeOK /\ [AdviceNext]_adviceVars => AdviceTypeOK'
<1> SUFFICES ASSUME AdviceTypeOK, [AdviceNext]_adviceVars PROVE AdviceTypeOK'
  OBVIOUS
<1>1. UNCHANGED keys /\ Chain' = Chain
  BY DEF AdviceNext, ProviderChanges, Ask, TryProvider, Think, NameProject, Direct, AskCouncil,
         AnswerPrice, Opine, adviceVars, Chain
<1>2. up' \subseteq keys'
  <2>1. CASE ProviderChanges
    BY <1>1, <2>1 DEF ProviderChanges, AdviceTypeOK
  <2>2. CASE UNCHANGED up
    BY <1>1, <2>2 DEF AdviceTypeOK
  <2> QED BY <2>1, <2>2 DEF AdviceNext, Ask, TryProvider, Think, NameProject, Direct, AskCouncil,
         AnswerPrice, Opine, adviceVars
<1>3. trying' \in 0..Len(Chain')
  <2>1. trying \in 0..Len(Chain) /\ Len(Chain) \in Nat
    BY ChainThere DEF AdviceTypeOK
  <2>2. CASE Ask
    <3>1. Chain # <<>> => Len(Chain) # 0
      BY ChainThere
    <3>2. trying' = trying \/ (trying' = 1 /\ Chain # <<>>)
      <4>1. CASE Chain = <<>>
        BY <2>2, <4>1 DEF Ask
      <4>2. CASE Chain # <<>>
        BY <2>2, <4>2 DEF Ask
      <4> QED BY <4>1, <4>2
    <3> QED BY <1>1, <2>1, <3>1, <3>2
  <2>3. CASE TryProvider
    <3>1. trying' = 0 \/ (trying # Len(Chain) /\ trying' = trying + 1)
      <4>1. CASE trying = Len(Chain)
        BY <2>3, <4>1 DEF TryProvider
      <4>2. CASE trying # Len(Chain)
        BY <2>3, <4>2 DEF TryProvider
      <4> QED BY <4>1, <4>2
    <3> QED BY <1>1, <2>1, <3>1
  <2>4. CASE UNCHANGED trying
    BY <1>1, <2>1, <2>4
  <2> QED BY <2>2, <2>3, <2>4 DEF AdviceNext, ProviderChanges, Think, NameProject, Direct,
         AskCouncil, AnswerPrice, Opine, adviceVars
<1>4. answer' \in AdviceAnswers
  <2>1. CASE Ask
    BY <2>1 DEF Ask, AdviceTypeOK, AdviceAnswers
  <2>2. CASE TryProvider
    <3>1. trying \in 1..Len(Chain)
      BY <2>2, ChainThere DEF AdviceTypeOK, TryProvider
    <3>2. Chain[trying] \in Providers
      BY <3>1, ChainThere
    <3>3. answer' \in {Chain[trying], "raised", answer}
      BY <2>2, Zenon DEF TryProvider
    <3> QED BY <3>2, <3>3 DEF AdviceTypeOK, AdviceAnswers
  <2>3. CASE Think \/ NameProject
    <3>1. "cloudflare" \in Providers
      <4>1. ProviderOrder[4] = "cloudflare" /\ 4 \in DOMAIN ProviderOrder
        BY DEF ProviderOrder
      <4> QED BY <4>1 DEF Providers, Range
    <3>2. answer' \in {"stub", "fallback", "rules", "cloudflare"}
      BY <2>3 DEF Think, NameProject, Direct
    <3> QED BY <3>1, <3>2 DEF AdviceAnswers
  <2>4. CASE UNCHANGED answer
    BY <2>4 DEF AdviceTypeOK, AdviceAnswers
  <2> QED BY <2>1, <2>2, <2>3, <2>4 DEF AdviceNext, ProviderChanges, AskCouncil, AnswerPrice,
         Opine, adviceVars
<1>5. opinions' \in [Personas -> {"none", "asking", "llm", "stub"}]
  BY DEF AdviceNext, ProviderChanges, Ask, TryProvider, Think, NameProject, Direct, AskCouncil,
         AnswerPrice, Opine, adviceVars, AdviceTypeOK
<1>6. AnswerTyped(priced')
  <2>1. CASE AnswerPrice
    <3>1. PICK n \in 0..MaxListed + 1 : \E quotes \in [1..n -> DatedQuotes] :
            priced' = PriceAnswer(quotes)
      BY <2>1 DEF AnswerPrice
    <3>2. PICK quotes \in [1..n -> DatedQuotes] : priced' = PriceAnswer(quotes)
      BY <3>1
    <3>3. quotes \in Seq(DatedQuotes)
      BY AdviceAssumption
    <3> QED BY <3>2, <3>3, PriceListed
  <2>2. CASE UNCHANGED priced
    BY <2>2 DEF AdviceTypeOK, AnswerTyped
  <2> QED BY <2>1, <2>2 DEF AdviceNext, ProviderChanges, Ask, TryProvider, Think, NameProject,
         Direct, AskCouncil, Opine, adviceVars
<1>7. keys' \subseteq Providers
  BY <1>1 DEF AdviceTypeOK
<1> QED BY <1>2, <1>3, <1>4, <1>5, <1>6, <1>7 DEF AdviceTypeOK, AdviceAnswers, AnswerTyped

-----------------------------------------------------------------------------
(* Tool calls.                                                             *)

(* What the executor may be calling; the sandbox has files that somebody   *)
(* put or wrote there.                                                     *)
Callings ==
  [tool : Tools \cup {"none"}, path : Paths \cup {""}, text : FileTexts \cup {Blank},
   attempts : 0..MaxRetries]

(* It is one call at a time, and the policy names levels that there are.   *)
ToolInv ==
  /\ DOMAIN files \subseteq Inside /\ Range(files) \subseteq FileTexts \cup {Blank}
  /\ Range(toolPolicy.risk) \cup Range(toolPolicy.clearance) \subseteq DOMAIN Level
  /\ calling \in Callings
  /\ log.attempts \in 0..MaxRetries + 1

(* The types of a run hold then.                                           *)
LEMMA ToolTypes == ToolInv => ToolTypeOK
<1> SUFFICES ASSUME ToolInv PROVE ToolTypeOK
  OBVIOUS
<1>1. calling.tool \in Tools \cup {"none"} /\ calling.attempts \in 0..MaxRetries
  BY Zenon DEF ToolInv, Callings
<1> QED BY <1>1 DEF ToolInv, ToolTypeOK

(* No call, and the first attempt of one, are such.                        *)
LEMMA CallTyped ==
  /\ Idle \in Callings /\ Blank \in FileTexts \cup {Blank}
  /\ \A tool \in Tools, path \in Paths \cup {""}, text \in FileTexts \cup {Blank} :
       [tool |-> tool, path |-> path, text |-> text, attempts |-> 0] \in Callings
<1>1. 0 \in 0..MaxRetries
  BY DEF MaxRetries
<1>2. \A tool \in Tools \cup {"none"}, path \in Paths \cup {""}, text \in FileTexts \cup {Blank} :
       [tool |-> tool, path |-> path, text |-> text, attempts |-> 0] \in Callings
  BY <1>1, Zenon DEF Callings
<1>3. "none" \in Tools \cup {"none"} /\ "" \in Paths \cup {""} /\ Blank \in FileTexts \cup {Blank}
  BY Zenon
<1>4. Idle \in Callings
  BY <1>2, <1>3, Zenon DEF Idle
<1> QED BY <1>2, <1>3, <1>4, Zenon

(* A call in progress has a tool and a text, and may be repeated.          *)
LEMMA CallRepeated ==
  ASSUME calling \in Callings, NEW n \in 0..MaxRetries
  PROVE  /\ calling.attempts \in 0..MaxRetries /\ calling.text \in FileTexts \cup {Blank}
         /\ [calling EXCEPT !.attempts = n] \in Callings
<1> DEFINE P == Paths \cup {""}
<1>1. Callings = [tool : Tools \cup {"none"}, path : P, text : FileTexts \cup {Blank},
                  attempts : 0..MaxRetries]
  BY Zenon DEF Callings
<1> HIDE DEF P
<1> QED BY <1>1

(* The tables of a policy file go over the defaults.                       *)
LEMMA OverTables ==
  ASSUME NEW default, NEW table
  PROVE  /\ DOMAIN Over(default, table) = DOMAIN default \cup DOMAIN table
         /\ Range(Over(default, table)) \subseteq Range(default) \cup Range(table)
BY DEF Over, Range

(* No file was written and no tool called.                                 *)
LEMMA ToolInitial == ToolInit => ToolInv
<1> SUFFICES ASSUME ToolInit PROVE ToolInv
  OBVIOUS
<1>1. DOMAIN files = {} /\ Range(files) = {}
  BY DEF ToolInit, Range
<1>2. Range(toolPolicy.risk) \cup Range(toolPolicy.clearance) \subseteq DOMAIN Level
  BY DEF ToolInit, DefaultPolicy, DefaultToolRisk, DefaultClearance, Level, Range
<1>3. log.attempts \in 0..MaxRetries + 1
  BY DEF ToolInit, Entry, MaxRetries
<1>4. calling \in Callings
  BY CallTyped DEF ToolInit
<1> QED BY <1>1, <1>2, <1>3, <1>4 DEF ToolInv

(* A tool that is tried again is tried no more often than the limit, only  *)
(* the sandbox is written to, and policies name levels that there are.     *)
LEMMA ToolStep == ToolInv /\ [ToolNext]_toolVars => ToolInv'
<1> SUFFICES ASSUME ToolInv, [ToolNext]_toolVars PROVE ToolInv'
  OBVIOUS
<1> DEFINE FilesTyped == DOMAIN files \subseteq Inside /\ Range(files) \subseteq FileTexts \cup {Blank}
           PolicyTyped ==
             Range(toolPolicy.risk) \cup Range(toolPolicy.clearance) \subseteq DOMAIN Level
           LogTyped == log.attempts \in 0..MaxRetries + 1
<1>0. /\ FilesTyped /\ PolicyTyped /\ LogTyped /\ calling \in Callings
      /\ FilesTyped' /\ PolicyTyped' /\ LogTyped' /\ calling' \in Callings => ToolInv'
  BY DEF ToolInv
<1>a. /\ UNCHANGED files => FilesTyped'
      /\ UNCHANGED toolPolicy => PolicyTyped'
      /\ UNCHANGED log => LogTyped'
      /\ UNCHANGED calling => calling' \in Callings
  <2>1. UNCHANGED files => FilesTyped'
    BY <1>0
  <2>2. UNCHANGED toolPolicy => PolicyTyped'
    BY <1>0
  <2>3. UNCHANGED log => LogTyped'
    BY <1>0
  <2>4. UNCHANGED calling => calling' \in Callings
    BY <1>0
  <2> QED BY <2>1, <2>2, <2>3, <2>4
<1>b. ASSUME NEW path \in Inside, NEW text \in FileTexts \cup {Blank},
             files' = Over(files, [p \in {path} |-> text])
      PROVE  FilesTyped'
  <2> DEFINE new == [p \in {path} |-> text]
  <2>1. DOMAIN new = {path} /\ Range(new) = {text}
    BY DEF Range
  <2>2. files' = Over(files, new)
    BY <1>b
  <2> HIDE DEF new
  <2>3. DOMAIN files' = DOMAIN files \cup {path} /\ Range(files') \subseteq Range(files) \cup {text}
    BY <2>1, <2>2, OverTables
  <2> QED BY <1>0, <2>3
<1>c. calling.attempts \in 0..MaxRetries /\ calling.text \in FileTexts \cup {Blank}
  <2>1. 0 \in 0..MaxRetries
    BY DEF MaxRetries
  <2> QED BY <1>0, <2>1, CallRepeated
<1>1. ASSUME LoadPolicy PROVE ToolInv'
  <2>1. CASE toolPolicy' = DefaultPolicy
    <3>1. PolicyTyped'
      BY <2>1 DEF DefaultPolicy, DefaultToolRisk, DefaultClearance, Level, Range
    <3> QED BY <1>0, <1>1, <1>a, <3>1 DEF LoadPolicy
  <2>2. ASSUME NEW f \in PolicyFiles, toolPolicy' =
                 [risk |-> Over(DefaultToolRisk, f.risk), ask |-> f.ask,
                  clearance |-> Over(DefaultClearance, f.clearance)]
        PROVE ToolInv'
    <3>1. Range(DefaultToolRisk) \cup Range(DefaultClearance) \subseteq DOMAIN Level
      BY DEF DefaultToolRisk, DefaultClearance, Level, Range
    <3>2. Range(f.risk) \cup Range(f.clearance) \subseteq DOMAIN Level
      BY ToolAssumption
    <3>3. PolicyTyped'
      BY <2>2, <3>1, <3>2, OverTables
    <3> QED BY <1>0, <1>1, <1>a, <3>3 DEF LoadPolicy
  <2> QED BY <1>1, <2>1, <2>2 DEF LoadPolicy
<1>2. ASSUME Succeed PROVE ToolInv'
  <2>1. FilesTyped'
    <3>1. CASE calling.tool = "write_file"
      <4>1. Runs(calling.tool, calling.path, calling.text)
              = {IF calling.path \in Inside THEN "ok" ELSE "fatal"}
        BY <3>1 DEF Runs
      <4>2. calling.path \in Inside
        BY <1>2, <4>1 DEF Succeed
      <4>3. files' = Over(files, [p \in {calling.path} |-> calling.text])
        BY <1>2, <3>1, Zenon DEF Succeed, Effect
      <4> QED BY <1>b, <1>c, <4>2, <4>3
    <3>2. CASE calling.tool # "write_file"
      BY <1>2, <1>a, <3>2, Zenon DEF Succeed, Effect
    <3> QED BY <3>1, <3>2
  <2>2. LogTyped'
    <3>1. log'.attempts = calling.attempts + 1
      BY <1>2 DEF Succeed, Entry
    <3> QED BY <1>c, <3>1 DEF MaxRetries
  <2> QED BY <1>0, <1>2, <1>a, <2>1, <2>2, CallTyped DEF Succeed
<1>3. ASSUME Fail PROVE ToolInv'
  <2>1. LogTyped'
    BY <1>3 DEF Fail, Entry, MaxRetries
  <2> QED BY <1>0, <1>3, <1>a, <2>1, CallTyped DEF Fail
<1>4. ASSUME Retry PROVE ToolInv'
  <2>1. UNCHANGED <<files, toolPolicy, output>>
    BY <1>4 DEF Retry
  <2>2. CASE ~ Registry[calling.tool].retryable \/ calling.attempts + 1 > MaxRetries
    <3>1. calling' = Idle /\ log' = Entry(calling.tool, FALSE, FALSE, calling.attempts + 1)
      BY <1>4, <2>2, Zenon DEF Retry
    <3>2. log'.attempts = calling.attempts + 1
      BY <3>1 DEF Entry
    <3>3. LogTyped'
      BY <1>c, <3>2 DEF MaxRetries
    <3> QED BY <1>0, <1>a, <2>1, <3>1, <3>3, CallTyped
  <2>3. CASE ~ (~ Registry[calling.tool].retryable \/ calling.attempts + 1 > MaxRetries)
    <3>1. calling' = [calling EXCEPT !.attempts = calling.attempts + 1] /\ UNCHANGED log
      BY <1>4, <2>3, Zenon DEF Retry
    <3>2. calling.attempts + 1 \in 0..MaxRetries
      BY <1>c, <2>3 DEF MaxRetries
    <3>3. calling' \in Callings
      BY <1>0, <3>1, <3>2, CallRepeated
    <3> QED BY <1>0, <1>a, <2>1, <3>1, <3>3
  <2> QED BY <2>2, <2>3
<1>5. ASSUME NEW c \in Agents, NEW t \in Tools, NEW p \in Paths \cup {""},
             NEW x \in FileTexts \cup {Blank}, NEW d \in BOOLEAN, Call(c, t, p, x, d)
      PROVE  ToolInv'
  <2>1. /\ calling' = [tool |-> t, path |-> p, text |-> x, attempts |-> 0]
        /\ UNCHANGED <<files, toolPolicy, log>>
    BY <1>5, Zenon DEF Call
  <2>2. calling' \in Callings
    BY <2>1, CallTyped, Zenon
  <2> QED BY <1>0, <1>a, <2>1, <2>2, Zenon
<1>6. ASSUME NEW ps, ParseQuoteFiles(ps) PROVE ToolInv'
  BY <1>0, <1>6, <1>a DEF ParseQuoteFiles
<1>7. ASSUME NEW p \in Inside, NEW x \in FileTexts, PutFile(p, x) PROVE ToolInv'
  <2>1. FilesTyped'
    BY <1>7, <1>b DEF PutFile
  <2> QED BY <1>0, <1>7, <1>a, <2>1 DEF PutFile
<1>8. ASSUME NEW x \in FileTexts, Screen(x) PROVE ToolInv'
  BY <1>0, <1>8, <1>a DEF Screen
<1>9. CASE UNCHANGED toolVars
  BY <1>0, <1>9, <1>a DEF toolVars
<1> QED BY <1>1, <1>2, <1>3, <1>4, <1>5, <1>6, <1>7, <1>8, <1>9, Zenon DEF ToolNext

-----------------------------------------------------------------------------
(* What sessions, services and documents are not bound by above.           *)

(* The approval requests of the chat.                                      *)
RequestsTyped ==
  /\ record \in [Cases -> {"none", "PENDING", "resolved"}] /\ asked \in Seq(Cases)
  /\ pressed \in [Chats -> BOOLEAN]

(* Every step writes such requests.                                        *)
LEMMA RequestsStep == RequestsTyped /\ [DeskNext]_deskVars => RequestsTyped'
<1> SUFFICES ASSUME RequestsTyped, [DeskNext]_deskVars PROVE RequestsTyped'
  OBVIOUS
<1>1. ASSUME NEW k \in Cases, RequestApproval(k) PROVE RequestsTyped'
  <2>1. record' \in [Cases -> {"none", "PENDING", "resolved"}] /\ pressed' \in [Chats -> BOOLEAN]
    BY <1>1 DEF RequestApproval, RequestsTyped
  <2>2. asked' \in Seq(Cases)
    BY <1>1 DEF RequestApproval, RequestsTyped
  <2> QED BY <2>1, <2>2 DEF RequestsTyped
<1>2. ASSUME NEW c \in Chats, NEW k \in Cases, ResolveBlocking(c, k) PROVE RequestsTyped'
  BY <1>2 DEF ResolveBlocking, RequestsTyped
<1>3. ASSUME NEW c \in Chats, AfterResolve(c) PROVE RequestsTyped'
  BY <1>3 DEF AfterResolve, RequestsTyped
<1>4. CASE Restart
  BY <1>4 DEF Restart, RequestsTyped
<1>5. CASE UNCHANGED <<record, asked, pressed>>
  BY <1>5 DEF RequestsTyped
<1>6. ASSUME NEW k \in Cases, CaseStep(k)
      PROVE  RequestApproval(k) \/ UNCHANGED <<record, asked, pressed>>
  BY <1>6 DEF CaseStep, LoadQuotes, StartFails, CaseRaises, NoApproval, AnswerCase
<1>7. ASSUME NEW d \in Docs, HandleDocument(d) \/ Downloaded(d)
      PROVE  UNCHANGED <<record, asked, pressed>>
  BY <1>7 DEF HandleDocument, Downloaded
<1>8. ASSUME NEW c \in Chats, HandleMessage(c) PROVE UNCHANGED <<record, asked, pressed>>
  BY <1>8 DEF HandleMessage
<1>9. CASE UNCHANGED deskVars
  BY <1>5, <1>9 DEF deskVars
<1> QED BY <1>1, <1>2, <1>3, <1>4, <1>5, <1>6, <1>7, <1>8, <1>9 DEF DeskNext

(* There are none at first.                                                *)
LEMMA RequestsInitial == DeskInit => RequestsTyped
BY DEF DeskInit, RequestsTyped

(* With what cases and sessions keep, the chat has its types.              *)
LEMMA DeskTypes == DeskInv /\ RequestsTyped => DeskTypeOK
BY DEF DeskInv, DeskRows, SessionRow, RequestsTyped, DeskTypeOK

(* Documents and their full-text rows.                                     *)
LEMMA KnowledgeTypes == KnowledgeInv => KnowledgeTypeOK
<1> SUFFICES ASSUME KnowledgeInv PROVE KnowledgeTypeOK
  OBVIOUS
<1>1. kbDocs \in [DOMAIN kbDocs -> KnowledgeDoc] /\ DOMAIN kbDocs \in SUBSET DocIds
  <2> HIDE DEF KnowledgeDoc
  <2> QED BY DEF KnowledgeInv
<1>2. kbFts \subseteq DocIds \X Contents
  <2>1. \A id \in DOMAIN kbDocs : id \in DocIds /\ kbDocs[id].content \in Contents
    BY DEF KnowledgeInv, KnowledgeDoc
  <2> QED BY <2>1 DEF KnowledgeInv
<1> QED BY <1>1, <1>2 DEF KnowledgeTypeOK

-----------------------------------------------------------------------------
(* Attention reports.                                                      *)

(* What asks for attention.                                                *)
AttentionItems == [kind : {"invoicing", "crm"}, severity : DOMAIN Rank]

(* Every invoice has a severity that is ranked.                            *)
LEMMA SeverityKnown == \A inv : Severity(inv) \in DOMAIN Rank
<1>1. DOMAIN Rank = {"low", "medium", "high", "critical"}
  BY DEF Rank
<1>2. \A inv : Severity(inv) \in {"low", "medium", "high", "critical"}
  BY DEF Severity
<1> QED BY <1>1, <1>2

(* However the invoicing service answers, what is made of it are such      *)
(* items.                                                                  *)
LEMMA InvoicesMapped ==
  ASSUME NEW answers
  PROVE  MapInvoices(VendorRequest(answers)) \in Seq(AttentionItems)
<1> DEFINE got == VendorRequest(answers)
           open == Only(got, {inv \in Range(got) : inv.status \notin {"PAID", "DELETED", "VOIDED"}})
<1>1. got \in Seq(Range(got))
  <2>1. got = <<>> \/ \E name \in DOMAIN Invoices : got = Invoices[name]
    BY Zenon DEF VendorRequest
  <2>2. <<>> \in Seq(Range(<<>>))
    OBVIOUS
  <2> HIDE DEF got
  <2> QED BY <2>1, <2>2, ServiceAssumption
<1>2. open \in Seq(Range(got))
  <2> HIDE DEF got
  <2> QED BY <1>1, OnlyKeeps
<1> HIDE DEF open, got
<1>3. \A i \in DOMAIN open : [kind |-> "invoicing", severity |-> Severity(open[i])] \in AttentionItems
  BY SeverityKnown DEF AttentionItems
<1>4. DOMAIN open = 1..Len(open) /\ Len(open) \in Nat
  BY <1>2
<1>5. MapInvoices(got) = [i \in 1..Len(open) |->
                            [kind |-> "invoicing", severity |-> Severity(open[i])]]
  BY <1>4 DEF MapInvoices, open
<1>6. MapInvoices(got) \in Seq(AttentionItems)
  <2> HIDE DEF AttentionItems
  <2> QED BY <1>3, <1>4, <1>5
<1> QED BY <1>6 DEF got

(* What the sources that are only asked by HTTP have to say.               *)
Https == [Range(Kinds) -> {<<>>, <<[kind |-> "crm", severity |-> "medium"]>>}]

(* All the sources together give such items.                               *)
LEMMA ReportTyped ==
  ASSUME NEW sources \in Seq(Range(Kinds)), NEW native \in BOOLEAN, NEW answers, NEW http \in Https
  PROVE  CollectAttention(sources, native, answers, http) \in Seq(AttentionItems)
<1> DEFINE lists == [i \in DOMAIN sources |-> Items(sources[i], native, answers, http)]
           items == FlattenSeq(lists)
           of(severity) == Only(items, {it \in Range(items) : it.severity = severity})
<1>1. \A kind \in Range(Kinds) : Items(kind, native, answers, http) \in Seq(AttentionItems)
  <2> SUFFICES ASSUME NEW kind \in Range(Kinds)
               PROVE  Items(kind, native, answers, http) \in Seq(AttentionItems)
    OBVIOUS
  <2> DEFINE deal == [kind |-> "crm", severity |-> "medium"]
  <2>1. deal \in AttentionItems
    BY DEF AttentionItems, Rank
  <2>2. http[kind] \in {<<>>, <<deal>>}
    BY DEF Https
  <2> HIDE DEF AttentionItems, deal
  <2>3. <<>> \in Seq(AttentionItems) /\ <<deal>> \in Seq(AttentionItems)
    BY <2>1
  <2>4. http[kind] \in Seq(AttentionItems)
    BY <2>2, <2>3, Zenon
  <2> QED BY <2>4, InvoicesMapped DEF Items
<1>2. lists \in Seq(Seq(AttentionItems))
  <2>1. DOMAIN sources = 1..Len(sources) /\ Len(sources) \in Nat
    OBVIOUS
  <2>2. \A i \in 1..Len(sources) : Items(sources[i], native, answers, http) \in Seq(AttentionItems)
    BY <1>1, <2>1
  <2> HIDE DEF AttentionItems
  <2> QED BY <2>1, <2>2
<1>3. items \in Seq(AttentionItems)
  <2> HIDE DEF lists, AttentionItems
  <2> QED BY <1>2, FlattenHas
<1>4. \A severity : of(severity) \in Seq(AttentionItems)
  <2> HIDE DEF items, AttentionItems
  <2> QED BY <1>3, OnlyKeeps
<1> HIDE DEF of, AttentionItems
<1>5. of("critical") \o of("high") \o of("medium") \o of("low") \in Seq(AttentionItems)
  BY <1>4
<1>6. CollectAttention(sources, native, answers, http)
        = of("critical") \o of("high") \o of("medium") \o of("low")
  BY Zenon DEF CollectAttention, of, items, lists
<1> QED BY <1>5, <1>6

(* A report names severities that there are.                               *)
LEMMA AttentionStep ==
  Range(report) \subseteq DOMAIN Rank /\ [ServiceNext]_serviceVars
    => (Range(report) \subseteq DOMAIN Rank)'
<1> SUFFICES ASSUME Range(report) \subseteq DOMAIN Rank, [ServiceNext]_serviceVars
             PROVE  Range(report') \subseteq DOMAIN Rank
  OBVIOUS
<1>1. ASSUME NEW t \in Threads, Attend(t) PROVE Range(report') \subseteq DOMAIN Rank
  <2>1. PICK native \in BOOLEAN, answers \in Replies, http \in Https :
          LET items == CollectAttention(Only(Kinds, desk[asking[t]].sources), native, answers, http)
          IN  report' = [i \in DOMAIN items |-> items[i].severity]
    BY <1>1, Zenon DEF Attend, Https
  <2>2. Only(Kinds, desk[asking[t]].sources) \in Seq(Range(Kinds))
    BY ServiceAssumption, OnlyKeeps
  <2> DEFINE items == CollectAttention(Only(Kinds, desk[asking[t]].sources), native, answers, http)
  <2>3. items \in Seq(AttentionItems)
    BY <2>2, ReportTyped
  <2>4. report' = [i \in DOMAIN items |-> items[i].severity]
    BY <2>1
  <2> HIDE DEF items
  <2>5. \A i \in DOMAIN items : items[i].severity \in DOMAIN Rank
    <3>1. \A it \in AttentionItems : it.severity \in DOMAIN Rank
      BY DEF AttentionItems
    <3>2. \A i \in DOMAIN items : items[i] \in AttentionItems
      <4> HIDE DEF AttentionItems
      <4> QED BY <2>3
    <3> QED BY <3>1, <3>2
  <2> QED BY <2>4, <2>5 DEF Range
<1>2. CASE UNCHANGED report
  BY <1>2
<1> QED BY <1>1, <1>2 DEF ServiceNext, Enter, Build, ChatBrief, ApiBrief, Watch, Connect,
       ServiceTick, serviceVars

(* The services have their types then.                                     *)
LEMMA ServiceTypes == ServiceInv /\ Range(report) \subseteq DOMAIN Rank => ServiceTypeOK
BY DEF ServiceInv, DeskOf, ServiceTypeOK

(* No services were built and nothing was reported.                        *)
LEMMA ServiceInitial == ServiceInit => ServiceInv /\ Range(report) \subseteq DOMAIN Rank
<1> SUFFICES ASSUME ServiceInit PROVE ServiceInv /\ Range(report) \subseteq DOMAIN Rank
  OBVIOUS
<1>1. Range(report) = {}
  BY DEF ServiceInit, Range
<1> QED BY <1>1, NewDeskTyped DEF ServiceInit, ServiceInv

-----------------------------------------------------------------------------
(* The types of a case.                                                    *)

(* What the types of a case rest on: no task has a state before there is a *)
(* request, and while the verifier reads, its own task is under way.       *)
CaseInv ==
  /\ GraphInv
  /\ request = NoRequest \/ request \in [text : CaseTexts, offers : CaseOffers, spec : BOOLEAN]
  /\ Completed \subseteq DOMAIN Graph
  /\ \A t \in Completed \cap {"analysis", "verification"} :
       outcome[t].vendor \in VendorsOf(request.offers)
  /\ left \in [DOMAIN Graph -> 0..Executions]
  /\ reading \in [next : 0..Len(LeafAgents) + 1, found : SUBSET Range(LeafAgents)]
  /\ reading # NotReading =>
       /\ "verification" \in DOMAIN Graph \ Completed /\ left["verification"] > 0
       /\ returned = NotYet
  /\ returned.status \in {"none", "completed", "failed"}
  /\ returned.vendor \in VendorsOf(request.offers) \cup {NoVendor}

(* They hold then.                                                         *)
LEMMA CaseTypes == CaseInv => CaseTypeOK
BY DEF CaseInv, CaseTypeOK

(* There is nothing but the request before a case.                         *)
LEMMA NothingToRun ==
  /\ request = NoRequest => DOMAIN Graph = {}
  /\ request # NoRequest => Graph = BuildGraphForPlan(RouteCase(request.text))
BY DEF Graph

(* The request of a case is not the absent one.                            *)
LEMMA RequestKnown ==
  ASSUME NEW r \in [text : CaseTexts, offers : CaseOffers, spec : BOOLEAN]
  PROVE  r # NoRequest /\ r.offers \in Seq(Offers)
BY CaseAssumption

(* Whatever it was reported, the policy recommends one of the vendors      *)
(* asked for an offer, or nobody.                                          *)
LEMMA RecommendsAnOffer ==
  ASSUME request.offers \in Seq(Offers), NEW found, EvidenceCheck(Analysis(found))
  PROVE  Analysis(found).vendor \in VendorsOf(request.offers)
<1> DEFINE r == IF found = {} THEN FromPayload ELSE Reported(found)
<1>1. r.quotes \in {request.offers, <<>>}
  BY DEF FromPayload, Reported
<1> HIDE DEF r
<1>2. Evaluate(r).vendor # NoVendor /\ Analysis(found) = Evaluate(r)
  BY DEF EvidenceCheck, Analysis, r
<1>3. r.quotes # <<>> /\ SelectBest(r) # 0
  BY <1>2 DEF Evaluate, Draft
<1>4. Evaluate(r).vendor = r.quotes[SelectBest(r)].vendor
  BY <1>3 DEF Evaluate
<1>5. r.quotes = request.offers /\ Len(request.offers) \in Nat
      /\ DOMAIN r.quotes = 1..Len(request.offers)
  BY <1>1, <1>3
<1>6. SelectBest(r) \in DOMAIN r.quotes
  BY <1>3, <1>5, FirstOfTheBest DEF Winners, Eligible
<1> QED BY <1>2, <1>4, <1>5, <1>6 DEF VendorsOf

(* A task that completes stores one of them, if it stores one.             *)
LEMMA CompletesTyped ==
  ASSUME CaseInv, NEW t \in DOMAIN Graph \ Completed, NEW result, Complete(t, result),
         UNCHANGED request, t \in {"analysis", "verification"} =>
           result.vendor \in VendorsOf(request.offers)
  PROVE  /\ Completed' = Completed \cup {t} /\ Completed' \subseteq DOMAIN Graph'
         /\ \A x \in Completed' \cap {"analysis", "verification"} :
              outcome'[x].vendor \in VendorsOf(request.offers)
         /\ left' \in [DOMAIN Graph' -> 0..Executions]
<1>1. Graph' = Graph
  BY DEF Graph
<1>2. Completed' = Completed \cup {t}
      /\ \A x \in Completed' : outcome'[x] = IF x = t THEN result ELSE outcome[x]
  BY DEF Complete, Completed
<1>3. left' = left
  BY DEF Complete
<1> QED BY <1>1, <1>2, <1>3 DEF CaseInv

(* One that is rejected has an execution less.                             *)
LEMMA RejectsTyped ==
  ASSUME CaseInv, NEW t \in DOMAIN Graph \ Completed, left[t] > 0, Reject(t), UNCHANGED request
  PROVE  /\ Completed' = Completed /\ Completed' \subseteq DOMAIN Graph'
         /\ \A x \in Completed' \cap {"analysis", "verification"} :
              outcome'[x].vendor \in VendorsOf(request.offers)
         /\ left' \in [DOMAIN Graph' -> 0..Executions]
<1>1. Graph' = Graph
  BY DEF Graph
<1>2. outcome' = outcome /\ Completed' = Completed
  BY DEF Reject, Completed
<1>3. left[t] - 1 \in 0..Executions
  BY CaseAssumption DEF CaseInv
<1>4. left' \in [DOMAIN Graph -> 0..Executions]
  BY <1>3 DEF Reject, CaseInv
<1> QED BY <1>1, <1>2, <1>4 DEF CaseInv

(* No request or task, reading or return breaks the types.                 *)
LEMMA CaseStepTyped == CaseInv /\ [CaseNext]_caseVars => CaseInv'
<1> SUFFICES ASSUME CaseInv, [CaseNext]_caseVars PROVE CaseInv'
  OBVIOUS
<1>0. GraphInv'
  BY GraphStep DEF CaseInv
<1>1. ASSUME UNCHANGED request, Completed' \subseteq DOMAIN Graph',
             \A x \in Completed' \cap {"analysis", "verification"} :
               outcome'[x].vendor \in VendorsOf(request.offers),
             left' \in [DOMAIN Graph' -> 0..Executions],
             reading' \in [next : 0..Len(LeafAgents) + 1, found : SUBSET Range(LeafAgents)],
             reading' # NotReading =>
               /\ "verification" \in DOMAIN Graph' \ Completed' /\ left'["verification"] > 0
               /\ returned' = NotYet,
             returned'.status \in {"none", "completed", "failed"},
             returned'.vendor \in VendorsOf(request.offers) \cup {NoVendor}
      PROVE  CaseInv'
  BY <1>0, <1>1 DEF CaseInv
<1>2. NotReading \in [next : 0..Len(LeafAgents) + 1, found : SUBSET Range(LeafAgents)]
      /\ Len(LeafAgents) = 4 /\ DOMAIN LeafAgents = 1..4
  BY DEF NotReading, LeafAgents
<1>3. request # NoRequest => request.offers \in Seq(Offers)
  BY RequestKnown DEF CaseInv
<1>4. \A t \in DOMAIN Graph : request # NoRequest
  BY NothingToRun
<1>5. UNCHANGED request => Graph' = Graph
  BY DEF Graph
<1>10. CASE Receive
  <2>1. request' \in [text : CaseTexts, offers : CaseOffers, spec : BOOLEAN]
        /\ request' # NoRequest
    BY <1>10, RequestKnown DEF Receive
  <2>2. DOMAIN outcome = {} /\ reading = NotReading
    BY <1>10, NothingToRun DEF Receive, CaseInv, Completed
  <2>3. UNCHANGED <<outcome, reading, returned>>
    BY <1>10 DEF Receive
  <2>4. Graph' = BuildGraphForPlan(RouteCase(request'.text))
    BY <2>1 DEF Graph
  <2>5. left' \in [DOMAIN Graph' -> 0..Executions]
    BY <1>10, <2>4, CaseAssumption DEF Receive
  <2>6. returned.vendor \in {NoVendor}
    BY <1>10 DEF Receive, CaseInv, NoRequest, VendorsOf
  <2>7. DOMAIN outcome' = {}
    BY <2>2, <2>3
  <2> QED BY <1>0, <1>2, <2>1, <2>2, <2>3, <2>5, <2>6, <2>7 DEF CaseInv, Completed
<1>11. CASE Analyse
  <2>1. MayRun("analysis") /\ UNCHANGED <<request, reading, returned>>
    BY <1>11 DEF Analyse
  <2>2. "analysis" \in DOMAIN Graph \ Completed /\ left["analysis"] > 0
    BY <2>1 DEF MayRun
  <2> DEFINE rec == Analysis(Completed \cap Range(LeafAgents))
  <2>3. (EvidenceCheck(rec) /\ Complete("analysis", rec)) \/ Reject("analysis")
    BY <1>11 DEF Analyse
  <2>4. EvidenceCheck(rec) => rec.vendor \in VendorsOf(request.offers)
    BY <1>3, <1>4, <2>2, RecommendsAnOffer
  <2> HIDE DEF rec
  <2>5. /\ Completed' \subseteq Completed \cup {"analysis"} /\ Completed' \subseteq DOMAIN Graph'
        /\ \A x \in Completed' \cap {"analysis", "verification"} :
             outcome'[x].vendor \in VendorsOf(request.offers)
        /\ left' \in [DOMAIN Graph' -> 0..Executions]
    BY <2>1, <2>2, <2>3, <2>4, CompletesTyped, RejectsTyped
  <2>6. left'["verification"] = left["verification"]
        \/ "verification" \notin DOMAIN Graph
    BY <2>2, <2>3 DEF Complete, Reject, CaseInv
  <2> QED BY <1>1, <1>5, <2>1, <2>5, <2>6 DEF CaseInv
<1>12. ASSUME NEW t \in Range(LeafAgents), Leaf(t) PROVE CaseInv'
  <2>1. MayRun(t) /\ Complete(t, "lines") /\ UNCHANGED <<request, reading, returned>>
    BY <1>12 DEF Leaf
  <2>2. t \in DOMAIN Graph \ Completed /\ t \notin {"analysis", "verification"}
    BY <2>1, LeavesAre DEF MayRun, Leaves
  <2>3. /\ Completed' = Completed \cup {t} /\ Completed' \subseteq DOMAIN Graph'
        /\ \A x \in Completed' \cap {"analysis", "verification"} :
             outcome'[x].vendor \in VendorsOf(request.offers)
        /\ left' \in [DOMAIN Graph' -> 0..Executions]
    BY <2>1, <2>2, CompletesTyped
  <2>4. left' = left
    BY <2>1 DEF Complete
  <2> QED BY <1>1, <1>5, <2>1, <2>2, <2>3, <2>4 DEF CaseInv
<1>13. ASSUME NEW rec, Judge(rec), UNCHANGED <<request, returned>>,
              "verification" \in DOMAIN Graph \ Completed, left["verification"] > 0,
              EvidenceCheck(rec) => rec.vendor \in VendorsOf(request.offers)
       PROVE  CaseInv'
  <2>1. reading' = NotReading
    BY <1>13 DEF Judge
  <2>2. (Verifies(rec) /\ Complete("verification", rec)) \/ Reject("verification")
    BY <1>13 DEF Judge
  <2>3. Verifies(rec) => rec.vendor \in VendorsOf(request.offers)
    BY <1>13 DEF Verifies
  <2>4. /\ Completed' \subseteq DOMAIN Graph'
        /\ \A x \in Completed' \cap {"analysis", "verification"} :
             outcome'[x].vendor \in VendorsOf(request.offers)
        /\ left' \in [DOMAIN Graph' -> 0..Executions]
    BY <1>13, <2>2, <2>3, CompletesTyped, RejectsTyped
  <2> QED BY <1>1, <1>2, <1>13, <2>1, <2>4 DEF CaseInv
<1>14. CASE ReadAnalysis
  <2>1. /\ MayRun("verification") /\ UNCHANGED <<request, returned>>
        /\ "verification" \in DOMAIN Graph \ Completed /\ left["verification"] > 0
        /\ returned = NotYet
    BY <1>14 DEF ReadAnalysis, MayRun
  <2>2. CASE "analysis" \in Completed
    <3>1. Judge(outcome["analysis"]) /\ outcome["analysis"].vendor \in VendorsOf(request.offers)
      BY <1>14, <2>2 DEF ReadAnalysis, CaseInv
    <3> QED BY <1>13, <2>1, <3>1
  <2>3. CASE "analysis" \notin Completed
    <3>1. reading' = [next |-> 1, found |-> {}] /\ UNCHANGED <<outcome, left>>
      BY <1>14, <2>3 DEF ReadAnalysis
    <3>2. Completed' = Completed
      BY <3>1 DEF Completed
    <3> QED BY <1>1, <1>2, <1>5, <2>1, <3>1, <3>2 DEF CaseInv
  <2> QED BY <2>2, <2>3
<1>15. CASE ReadSibling
  <2>1. /\ UNCHANGED <<request, outcome, left, returned>> /\ reading # NotReading
        /\ reading.next \in 1..4
    BY <1>2, <1>15 DEF ReadSibling, NotReading
  <2>2. LeafAgents[reading.next] \in Range(LeafAgents)
    BY <1>2, <2>1 DEF Range
  <2>3. reading' = [next |-> reading.next + 1,
                    found |-> reading.found \cup ({LeafAgents[reading.next]} \cap Completed)]
    BY <1>15 DEF ReadSibling
  <2>4. reading' \in [next : 0..Len(LeafAgents) + 1, found : SUBSET Range(LeafAgents)]
    BY <1>2, <2>1, <2>2, <2>3 DEF CaseInv
  <2>5. Completed' = Completed
    BY <2>1 DEF Completed
  <2> QED BY <1>1, <1>5, <2>1, <2>4, <2>5 DEF CaseInv
<1>16. CASE OwnAnalysis
  <2>1. /\ UNCHANGED <<request, returned>> /\ reading # NotReading
        /\ Judge(Analysis(reading.found))
    BY <1>2, <1>16 DEF OwnAnalysis, NotReading
  <2>2. "verification" \in DOMAIN Graph \ Completed /\ left["verification"] > 0
    BY <2>1 DEF CaseInv
  <2>3. EvidenceCheck(Analysis(reading.found)) =>
          Analysis(reading.found).vendor \in VendorsOf(request.offers)
    BY <1>3, <1>4, <2>2, RecommendsAnOffer
  <2> QED BY <1>13, <2>1, <2>2, <2>3
<1>17. CASE Return
  <2>1. /\ UNCHANGED <<request, outcome, left, reading>> /\ reading = NotReading
        /\ returned'.status \in {"completed", "failed"}
        /\ returned'.vendor # NoVendor => /\ Completed = DOMAIN Graph
                                          /\ "verification" \in Completed
                                          /\ returned'.vendor = outcome["analysis"].vendor
    BY <1>17 DEF Return
  <2>2. returned'.vendor # NoVendor => "analysis" \in Completed
    BY <2>1, CheckedIsAnalysed
  <2>3. returned'.vendor \in VendorsOf(request.offers) \cup {NoVendor}
    BY <2>1, <2>2 DEF CaseInv
  <2>4. Completed' = Completed
    BY <2>1 DEF Completed
  <2> QED BY <1>1, <1>5, <2>1, <2>3, <2>4 DEF CaseInv
<1>18. CASE Forget
  <2>1. returned # NotYet /\ UNCHANGED reading /\ reading = NotReading
    BY <1>18 DEF Forget, CaseInv
  <2>2. /\ request' = NoRequest /\ DOMAIN outcome' = {} /\ left' = <<>> /\ returned' = NotYet
    BY <1>18 DEF Forget
  <2>3. DOMAIN Graph' = {}
    BY <2>2 DEF Graph
  <2>4. left' \in [DOMAIN Graph' -> 0..Executions]
    BY <2>2, <2>3
  <2>5. returned'.status = "none" /\ returned'.vendor = NoVendor
    BY <2>2 DEF NotYet
  <2> QED BY <1>0, <1>2, <2>1, <2>2, <2>3, <2>4, <2>5 DEF CaseInv, Completed
<1>19. CASE UNCHANGED caseVars
  <2>1. UNCHANGED <<request, outcome, left, reading, returned>>
    BY <1>19 DEF caseVars
  <2>2. Completed' = Completed
    BY <2>1 DEF Completed
  <2> QED BY <1>1, <1>5, <2>1, <2>2 DEF CaseInv
<1> QED BY <1>10, <1>11, <1>12, <1>14, <1>15, <1>16, <1>17, <1>18, <1>19 DEF CaseNext

(* There is no case at first.                                              *)
LEMMA CaseInitial == CaseInit => CaseInv
<1> SUFFICES ASSUME CaseInit PROVE CaseInv
  OBVIOUS
<1>1. DOMAIN outcome = {} /\ DOMAIN Graph = {}
  BY NothingToRun DEF CaseInit
<1>2. left \in [DOMAIN Graph -> 0..Executions]
  BY <1>1 DEF CaseInit
<1>3. NotReading \in [next : 0..Len(LeafAgents) + 1, found : SUBSET Range(LeafAgents)]
  BY DEF NotReading, LeafAgents
<1>4. returned.status = "none" /\ returned.vendor = NoVendor
  BY DEF CaseInit, NotYet
<1> QED BY <1>1, <1>2, <1>3, <1>4, GraphInitial DEF CaseInv, CaseInit, Completed

-----------------------------------------------------------------------------
(* The parts together.                                                     *)

(* The knowledge base is empty at first.                                   *)
LEMMA KnowledgeInitial == KnowledgeInit => KnowledgeInv
BY FS_EmptySet DEF KnowledgeInit, KnowledgeInv

(* A step of one part is none of any other.                                *)
LEMMA StepOfParts ==
  ASSUME [ServicesNext]_servicesVars
  PROVE  /\ part' = part
         /\ [ResilienceNext]_resilienceVars
         /\ [GateNext]_gateVars
         /\ [DeskNext]_deskVars
         /\ [CaseNext]_caseVars
         /\ [PlanNext]_planVars
         /\ [DocumentsNext]_documentsVars
         /\ [KnowledgeNext]_knowledgeVars
         /\ [ServiceNext]_serviceVars
         /\ [AccessNext]_accessVars
         /\ [ToolNext]_toolVars
         /\ [ChecksNext]_checksVars
         /\ [ScrapingNext]_scrapingVars
         /\ [AdviceNext]_adviceVars
         /\ [ResumeNext]_resumeVars
BY DEF servicesVars, ServicesNext, ResiliencePart, GatePart, DeskPart, CasePart, PlanPart,
   DocumentsPart, KnowledgePart, ServicePart, AccessPart, ToolPart, ChecksPart,
   ScrapingPart, AdvicePart, ResumePart

(* Each component does, among the others, what its own specification says. *)
THEOREM PartsKeepTheirSpecs ==
  ServicesSpec => /\ ResilienceSpec /\ GateSpec /\ DeskSpec /\ CaseSpec /\ PlanSpec
                  /\ DocumentsSpec /\ KnowledgeSpec /\ ServiceSpec /\ AccessSpec /\ ToolSpec
                  /\ ChecksSpec /\ ScrapingSpec /\ AdviceSpec /\ ResumeSpec
<1>1. ServicesInit => /\ ResilienceInit /\ GateInit /\ DeskInit /\ CaseInit /\ PlanInit
                      /\ DocumentsInit /\ KnowledgeInit /\ ServiceInit /\ AccessInit /\ ToolInit
                      /\ ChecksInit /\ ScrapingInit /\ AdviceInit /\ ResumeInit
  BY DEF ServicesInit
<1> QED
  BY <1>1, StepOfParts, PTL
     DEF ServicesSpec, ResilienceSpec, GateSpec, DeskSpec, CaseSpec, PlanSpec,
         DocumentsSpec, KnowledgeSpec, ServiceSpec, AccessSpec, ToolSpec, ChecksSpec,
         ScrapingSpec, AdviceSpec, ResumeSpec

(* The types of each component, for any values of its constants.           *)
LEMMA AllTyped ==
  /\ ResilienceSpec => []ResilienceTypeOK
  /\ GateSpec => []GateTypeOK
  /\ DeskSpec => []DeskTypeOK
  /\ CaseSpec => []CaseTypeOK
  /\ PlanSpec => []PlanTypeOK
  /\ DocumentsSpec => []DocumentsTypeOK
  /\ KnowledgeSpec => []KnowledgeTypeOK
  /\ ServiceSpec => []ServiceTypeOK
  /\ AccessSpec => []AccessTypeOK
  /\ ToolSpec => []ToolTypeOK
  /\ ChecksSpec => []ChecksTypeOK
  /\ ScrapingSpec => []ScrapingTypeOK
  /\ AdviceSpec => []AdviceTypeOK
  /\ ResumeSpec => []ResumeTypeOK
<1>1. ResilienceSpec => []ResilienceTypeOK
  <2>1. BreakerInv => ResilienceTypeOK
    BY DEF BreakerInv
  <2> QED BY <2>1, BreakerInitial, BreakerStep, PTL DEF ResilienceSpec
<1>2. GateSpec => []GateTypeOK
  BY GateInitial, GateStep, PTL DEF GateSpec
<1>3. DeskSpec => []DeskTypeOK
  BY DeskInitial, RequestsInitial, DeskStep, RequestsStep, DeskTypes, PTL DEF DeskSpec
<1>4. CaseSpec => []CaseTypeOK
  BY CaseInitial, CaseStepTyped, CaseTypes, PTL DEF CaseSpec
<1>5. PlanSpec => []PlanTypeOK
  <2>1. PlanInv => PlanTypeOK
    BY DEF PlanInv
  <2> QED BY <2>1, PlanInitial, PlanStep, PTL DEF PlanSpec
<1>6. DocumentsSpec => []DocumentsTypeOK
  <2>1. DocInv => DocumentsTypeOK
    BY DEF DocInv
  <2> QED BY <2>1, DocInitial, DocStep, PTL DEF DocumentsSpec
<1>7. KnowledgeSpec => []KnowledgeTypeOK
  BY KnowledgeInitial, KnowledgeStep, KnowledgeTypes, PTL DEF KnowledgeSpec
<1>8. ServiceSpec => []ServiceTypeOK
  <2>1. ServiceInv /\ [ServiceNext]_serviceVars => ServiceInv'
    BY ServiceStep
  <2> QED BY <2>1, ServiceInitial, AttentionStep, ServiceTypes, PTL DEF ServiceSpec
<1>9. AccessSpec => []AccessTypeOK
  BY AccessInitial, AccessStep, PTL DEF AccessSpec
<1>10. ToolSpec => []ToolTypeOK
  BY ToolInitial, ToolStep, ToolTypes, PTL DEF ToolSpec
<1>11. ChecksSpec => []ChecksTypeOK
  BY ChecksInitial, ChecksStep, PTL DEF ChecksSpec
<1>12. ScrapingSpec => []ScrapingTypeOK
  BY ScrapingInitial, ScrapingStep, PTL DEF ScrapingSpec
<1>13. AdviceSpec => []AdviceTypeOK
  BY AdviceInitial, AdviceStep, PTL DEF AdviceSpec
<1>14. ResumeSpec => []ResumeTypeOK
  <2>1. ResumeInv => ResumeTypeOK
    BY DEF ResumeInv
  <2> QED BY <2>1, ResumeInitial, ResumeInvStep, PTL DEF ResumeSpec
<1> QED BY <1>1, <1>2, <1>3, <1>4, <1>5, <1>6, <1>7, <1>8, <1>9, <1>10, <1>11, <1>12, <1>13, <1>14

(* With the types of all, those of the part at work hold.                  *)
LEMMA PartAtWorkTyped ==
  ASSUME part \in Parts,
         ResilienceTypeOK, GateTypeOK, DeskTypeOK, CaseTypeOK, PlanTypeOK,
         DocumentsTypeOK, KnowledgeTypeOK, ServiceTypeOK, AccessTypeOK, ToolTypeOK,
         ChecksTypeOK, ScrapingTypeOK, AdviceTypeOK, ResumeTypeOK
  PROVE  ServicesTypeOK
<1>1. CASE part = "breaker"
  BY <1>1 DEF ServicesTypeOK
<1>2. CASE part = "gate"
  BY <1>2 DEF ServicesTypeOK
<1>3. CASE part = "desk"
  BY <1>3 DEF ServicesTypeOK
<1>4. CASE part = "case"
  BY <1>4 DEF ServicesTypeOK
<1>5. CASE part = "plan"
  BY <1>5 DEF ServicesTypeOK
<1>6. CASE part = "documents"
  BY <1>6 DEF ServicesTypeOK
<1>7. CASE part = "knowledge"
  BY <1>7 DEF ServicesTypeOK
<1>8. CASE part = "services"
  BY <1>8 DEF ServicesTypeOK
<1>9. CASE part = "access"
  BY <1>9 DEF ServicesTypeOK
<1>10. CASE part = "tools"
  BY <1>10 DEF ServicesTypeOK
<1>11. CASE part = "checks"
  BY <1>11 DEF ServicesTypeOK
<1>12. CASE part = "scraping"
  BY <1>12 DEF ServicesTypeOK
<1>13. CASE part = "advice"
  BY <1>13 DEF ServicesTypeOK
<1>14. CASE part = "resume"
  BY <1>14 DEF ServicesTypeOK
<1> QED
  BY <1>1, <1>2, <1>3, <1>4, <1>5, <1>6, <1>7, <1>8, <1>9, <1>10, <1>11, <1>12, <1>13,
     <1>14
     DEF Parts

(* Every component around the engine keeps the types of its state, with    *)
(* any number of workers, chats, offers, nodes, documents, threads, users, *)
(* tools, results, pages, providers and tasks.                             *)
THEOREM PartsTypeCorrect == ServicesSpec => []ServicesTypeOK
<1>1. ServicesInit => part \in Parts
  BY DEF ServicesInit
<1>2. part \in Parts /\ [ServicesNext]_servicesVars => (part \in Parts)'
  BY StepOfParts
<1> QED BY <1>1, <1>2, PartsKeepTheirSpecs, AllTyped, PartAtWorkTyped, PTL DEF ServicesSpec

(* What each of them guarantees by itself holds of them together.          *)
THEOREM PartsKeepTheirPromises ==
  ServicesSpec => /\ [](/\ CaseSeesUploads /\ AsksForItsOwn /\ RecommendedIsBest
                        /\ CheaperStaysBest /\ IngestKeepsContent /\ AnswersAreCurrent
                        /\ RepublishedTaskEnds)
                  /\ CooldownRespected /\ WatchesKept
BY PartsKeepTheirSpecs, CasesSeeUploads, ChatsAskForTheirOwn, BestIsRecommended,
   LowerPriceStaysBest, IngestedIsKept, SearchesAreCurrent, RepublishedTasksEnd,
   CooldownHolds, ServicesStay, PTL
=============================================================================
