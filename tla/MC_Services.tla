---------------------------- MODULE MC_Services -----------------------------
(***************************************************************************)
(* The components around the engine, for TLC.  They share no variable: a   *)
(* behaviour is one of one part, chosen in its first state, and the others *)
(* stay as they are.                                                       *)
(***************************************************************************)
EXTENDS MC_CaseGraph, Resilience, ChatDesk, Planning, Documents, KnowledgeDesk, ServiceDesk,
        AccessRules, Toolbox, OutputChecks, Scraping, Advice, TaskResume

CONSTANTS t1, w1, c1, c2

VARIABLE part

servicesVars ==
  << part, resilienceVars, gateVars, deskVars, caseVars, planVars, documentsVars,
     knowledgeVars, serviceVars, accessVars, toolVars, checksVars, scrapingVars, adviceVars,
     resumeVars >>

Parts ==
  {"breaker", "gate", "desk", "case", "plan", "documents", "knowledge", "services",
   "access", "tools", "checks", "scraping", "advice", "resume"}

(* Cases may be of either chat.  Bound: three uploads, cases and answers   *)
(* under way in all.                                                       *)
DeskBound ==
  3 >= Cardinality({d \in Docs : upload[d] # "none"})
         + Cardinality({k \in Cases : case[k].stage # "none"})
         + Cardinality({c \in Chats : pressed[c]})

ServicesInit ==
  /\ part \in Parts
  /\ ResilienceInit /\ GateInit /\ DeskInit /\ CaseInit /\ PlanInit /\ DocumentsInit
  /\ KnowledgeInit /\ ServiceInit /\ AccessInit /\ ToolInit /\ ResumeInit
  /\ ChecksInit /\ (part # "checks" => payload = <<>>)
  /\ ScrapingInit /\ (part # "scraping" => scraped = <<>>)
  /\ AdviceInit /\ (part # "advice" => keys = {})

ResiliencePart ==
  /\ part = "breaker" /\ ResilienceNext
  /\ UNCHANGED <<part, gateVars, deskVars, caseVars, planVars, documentsVars,
              knowledgeVars, serviceVars, accessVars, toolVars, checksVars, scrapingVars,
              adviceVars, resumeVars>>

GatePart ==
  /\ part = "gate" /\ GateNext
  /\ UNCHANGED <<part, resilienceVars, deskVars, caseVars, planVars, documentsVars,
              knowledgeVars, serviceVars, accessVars, toolVars, checksVars, scrapingVars,
              adviceVars, resumeVars>>

DeskPart ==
  /\ part = "desk" /\ DeskNext /\ DeskBound'
  /\ UNCHANGED <<part, resilienceVars, gateVars, caseVars, planVars, documentsVars,
              knowledgeVars, serviceVars, accessVars, toolVars, checksVars, scrapingVars,
              adviceVars, resumeVars>>

CasePart ==
  /\ part = "case" /\ CaseNext
  /\ UNCHANGED <<part, resilienceVars, gateVars, deskVars, planVars, documentsVars,
              knowledgeVars, serviceVars, accessVars, toolVars, checksVars, scrapingVars,
              adviceVars, resumeVars>>

PlanPart ==
  /\ part = "plan" /\ PlanNext
  /\ UNCHANGED <<part, resilienceVars, gateVars, deskVars, caseVars, documentsVars,
              knowledgeVars, serviceVars, accessVars, toolVars, checksVars, scrapingVars,
              adviceVars, resumeVars>>

DocumentsPart ==
  /\ part = "documents" /\ DocumentsNext
  /\ UNCHANGED <<part, resilienceVars, gateVars, deskVars, caseVars, planVars,
              knowledgeVars, serviceVars, accessVars, toolVars, checksVars, scrapingVars,
              adviceVars, resumeVars>>

KnowledgePart ==
  /\ part = "knowledge" /\ KnowledgeNext
  /\ UNCHANGED <<part, resilienceVars, gateVars, deskVars, caseVars, planVars,
              documentsVars, serviceVars, accessVars, toolVars, checksVars, scrapingVars,
              adviceVars, resumeVars>>

ServicePart ==
  /\ part = "services" /\ ServiceNext
  /\ UNCHANGED <<part, resilienceVars, gateVars, deskVars, caseVars, planVars,
              documentsVars, knowledgeVars, accessVars, toolVars, checksVars, scrapingVars,
              adviceVars, resumeVars>>

AccessPart ==
  /\ part = "access" /\ AccessNext
  /\ UNCHANGED <<part, resilienceVars, gateVars, deskVars, caseVars, planVars,
              documentsVars, knowledgeVars, serviceVars, toolVars, checksVars, scrapingVars,
              adviceVars, resumeVars>>

ToolPart ==
  /\ part = "tools" /\ ToolNext
  /\ UNCHANGED <<part, resilienceVars, gateVars, deskVars, caseVars, planVars,
              documentsVars, knowledgeVars, serviceVars, accessVars, checksVars, scrapingVars,
              adviceVars, resumeVars>>

ChecksPart ==
  /\ part = "checks" /\ ChecksNext
  /\ UNCHANGED <<part, resilienceVars, gateVars, deskVars, caseVars, planVars,
              documentsVars, knowledgeVars, serviceVars, accessVars, toolVars, scrapingVars,
              adviceVars, resumeVars>>

ScrapingPart ==
  /\ part = "scraping" /\ ScrapingNext
  /\ UNCHANGED <<part, resilienceVars, gateVars, deskVars, caseVars, planVars,
              documentsVars, knowledgeVars, serviceVars, accessVars, toolVars, checksVars,
              adviceVars, resumeVars>>

AdvicePart ==
  /\ part = "advice" /\ AdviceNext
  /\ UNCHANGED <<part, resilienceVars, gateVars, deskVars, caseVars, planVars,
              documentsVars, knowledgeVars, serviceVars, accessVars, toolVars, checksVars,
              scrapingVars, resumeVars>>

ResumePart ==
  /\ part = "resume" /\ ResumeNext
  /\ UNCHANGED <<part, resilienceVars, gateVars, deskVars, caseVars, planVars,
              documentsVars, knowledgeVars, serviceVars, accessVars, toolVars, checksVars,
              scrapingVars, adviceVars>>

ServicesNext ==
  \/ ResiliencePart \/ GatePart \/ DeskPart \/ CasePart \/ PlanPart \/ DocumentsPart
  \/ KnowledgePart \/ ServicePart \/ AccessPart \/ ToolPart \/ ChecksPart
  \/ ScrapingPart \/ AdvicePart \/ ResumePart

(* Time passes, and a worker that can go on does.  Of the ways a call can  *)
(* end none is favoured, but whoever was admitted again and again wins the *)
(* claim of a message once.                                                *)
ServicesFairness ==
  /\ WF_resilienceVars(part = "breaker" /\ BreakerTick)
  /\ \A w \in Callers :
       /\ WF_resilienceVars(part = "breaker" /\ CallerStep(w))
       /\ SF_resilienceVars(part = "breaker" /\ BeginCall(w))

ServicesSpec == ServicesInit /\ [][ServicesNext]_servicesVars /\ ServicesFairness

-----------------------------------------------------------------------------
(* The type invariant of the part at work: each names the values its state *)
(* has in the code.  The state of the others does not change.              *)
ServicesTypeOK ==
  CASE part = "breaker"   -> ResilienceTypeOK
    [] part = "gate"      -> GateTypeOK
    [] part = "desk"      -> DeskTypeOK
    [] part = "case"      -> CaseTypeOK
    [] part = "plan"      -> PlanTypeOK
    [] part = "documents" -> DocumentsTypeOK
    [] part = "knowledge" -> KnowledgeTypeOK
    [] part = "services"  -> ServiceTypeOK
    [] part = "access"    -> AccessTypeOK
    [] part = "tools"     -> ToolTypeOK
    [] part = "checks"    -> ChecksTypeOK
    [] part = "scraping"  -> ScrapingTypeOK
    [] part = "advice"    -> AdviceTypeOK
    [] part = "resume"    -> ResumeTypeOK

-----------------------------------------------------------------------------
(* Both documents go to one chat.                                          *)
BothToOne == <<c1, c1>>

(* Plans a model may propose: a join whose nodes come last first and are   *)
(* one too many, a cycle, a fan one too wide, a join of two tails that the *)
(* cap cuts, a chain with a shortcut, a missing task and an unknown type.  *)
PlanProposals ==
  { << Node("d", "report", <<"b", "c">>), Node("e", "notify", <<"d">>),
       Node("b", "analyze", <<"a">>), Node("c", "analyze", <<"a", "b">>),
       Node("a", "research", <<>>), Node("f", "report", <<"e">>) >>,
    << Node("a", "research", <<"b">>), Node("b", "report", <<"a">>) >>,
    << Node("a", "research", <<"b">>), Node("b", "report", <<"c">>),
       Node("c", "analyze", <<"a">>), Node("d", "analyze", <<"a">>),
       Node("e", "analyze", <<"a">>), Node("f", "analyze", <<"a">>) >>,
    << Node("a", "research", <<>>), Node("b", "research", <<>>), Node("c", "research", <<>>),
       Node("d", "report", <<"e", "f">>), Node("e", "analyze", <<>>),
       Node("f", "analyze", <<>>) >>,
    << Node("r", "research", <<>>), Node("a", "analyze", <<"r">>),
       Node("b", "analyze", <<"r", "a">>), Node("c", "analyze", <<"b">>),
       Node("d", "report", <<"c">>) >>,
    << Node("a", "research", <<"z">>) >>,
    << Node("a", "cook", <<>>) >> }
Records == {[failed |-> 0, total |-> 0], [failed |-> 1, total |-> 2], [failed |-> 1, total |-> 20]}

(* Sources: pages and records with blank, trivial, short and long values.  *)
WordsOf ==
  ("" :> 0) @@ ("-" :> 1) @@ ("()" :> 1) @@ ("words" :> 2) @@ ("more" :> 3) @@ ("None" :> 1)
    @@ ("dump" :> 9) @@ ("placeholder" :> 9)
Source(kind, text, html, payload_, metadata, dynamic) ==
  [kind |-> kind, text |-> text, html |-> html, payload |-> payload_,
   metadata |-> metadata, dynamic |-> dynamic]
NoPayload == [present |-> FALSE, fields |-> <<>>]
Page ==
  [title |-> "more", headings |-> <<"", "more">>, jsonld |-> <<Field("Note", "()")>>,
   meta |-> << Field("Price", "words"), Field("Price", "more"), Field("Price", "words"),
               Field("", "words") >>]
Prices == {Field("Price", v) : v \in {"-", "words", "more", "()"}}
Others ==
  {Field("Total", "words"), Field("Total", "None"), Field("Price", "words"), Field("Note", "more")}
Metas  == {<<>>, <<Field("Price", "words")>>}
Ingested ==
  { Source("html", t, h, NoPayload, m, d) :
      t \in {"", "-", "()", "words", "more"}, h \in {NoHtml, Page}, m \in Metas, d \in BOOLEAN }
  \cup
  { Source("dict", t, NoHtml, [present |-> TRUE, fields |-> <<f, g>>], m, FALSE) :
      t \in {"", "words", "()"}, f \in Prices, g \in Others, m \in Metas }

(* A user of the API and one of the chat, and what a document may say.     *)
TwoReaders == {<<"user_1">>, <<"tg", "7">>}
TwoWords   == {{"warranty"}, {"price"}, {"price", "warranty"}}

(* One accounting service that may refuse, and refuse for ever.            *)
Invoice(status_, due, late, left_, amount) ==
  [status |-> status_, due |-> due, late |-> late, left |-> left_, amount |-> amount]
InvoiceSets ==
  [many |-> << Invoice("DRAFT", "known", 0, 9, 5), Invoice("PAID", "known", 9, 0, 5),
               Invoice("OVERDUE", "unknown", 0, 0, 5) >>]
OneKind     == <<"invoicing">>
ReplySeries == {<<"401", "many">>, <<"401", "401", "401">>, <<"many">>}

(* Senders with and without headers and token, amounts at the thresholds   *)
(* in thousandths of a dollar, an asset in two tiers.                      *)
Sender(user, name, tenant, token) ==
  [user |-> user, name |-> name, tenant |-> tenant, token |-> token]
SomeClients ==
  { Sender("", "", "", <<>>), Sender("user_1", "", "", <<>>), Sender("user_9", "", "acme", <<>>),
    Sender("", "dave", "", <<>>), Sender("", "dave", "acme", <<>>),
    Sender("", "", "", <<"acme", "user_3">>) }
SomeAssets ==
  { [tenant |-> "default", owner |-> "user_1", visibility |-> "team", tier |-> t,
     acls |-> {<<"user_2", "read">>, <<"user_2", "authorize">>}] : t \in {"raw_store", "approved"} }
SomePrincipals == {<<"user_1", "default">>, <<"user_2", "default">>, <<"user_2", "acme">>}
SomeChanges ==
  {<<"user_2", "finance_approver">>, <<"user_2", "admin">>, <<"user_4", "procurement_manager">>}
SomeApprovals == <<"default", "acme", "default">>

(* Files of quotes, questions and denied paths; three agents.              *)
FileText(found, amounts, quantity, size) ==
  [found |-> found, amounts |-> amounts, quantity |-> quantity, size |-> size]
SomeTexts ==
  { FileText({"pdf", "Dell", "expires", "EUR"}, <<9, 12>>, 4, "some"),
    FileText({"pdf", "HP", "tax excluded", "€", "net"}, <<>>, 3, "some"),
    FileText({"allowlisted", "bad total", "ssd", "secret"}, <<>>, 0, "some"),
    FileText({"denied", "injection"}, <<>>, 0, "long") }
SomeAgents ==
  { <<"builder", {"general", "build"}>>, <<"price", {"general", "procurement_price"}>>,
    <<"spec", {"procurement_spec", "procurement_vendor", "procurement_contract", "research"}>> }
SomePolicies ==
  { [risk |-> [x \in {} |-> "LOW"], clearance |-> [x \in {"builder"} |-> "HIGH"], ask |-> TRUE] }

(* Results that satisfy and that fail each validator.                      *)
Result(length, json, vendor, total, reasons, mark) ==
  [length |-> length, json |-> json, vendor |-> vendor, total |-> total, reasons |-> reasons,
   mark |-> mark, mentions |-> {"A", "Z"}, refs |-> TRUE]
SomeResults ==
  { Result(n, FALSE, "", -1, {}, k) :
      n \in {0, 5, 15, 25, 50, 100001}, k \in {"", "VERIFICATION PASSED", "VERIFICATION FAILED"} }
  \cup { Result(50, TRUE, v, t, rs, "") :
           v \in {"", "A", "Z"}, t \in {-1, 1, 2}, rs \in {{}, {TRUE}, {TRUE, FALSE}} }
QuotedBefore == {<<>>, <<[vendor |-> "A", total |-> 2], [vendor |-> "A", total |-> 1],
                         [vendor |-> "B", total |-> -1]>>}
TrustedQuotes ==
  [until : {"unknown", "past", "ahead"}, entity : BOOLEAN, taxStated : BOOLEAN,
   currencyCode : {TRUE}, hash : {"none", "h"}, file : {"h", "other"}]
SomeAnswers == {<<>>, <<{"claim", "figure"}>>, <<{"claim", "figure", "citation"}, {"claim"}>>}

(* A blocked site's page, one that is a PDF by name, one that is not.      *)
Pages == {[site |-> "a", pdf |-> TRUE], [site |-> "b", pdf |-> FALSE]}

(* Providers with a key, and quotes by the ages of their two dates.        *)
TwoProviders == {{}, {"hf", "cloudflare"}}
Dated ==
  { [demo |-> TRUE, until |-> NoDate, quoted |-> 0], [demo |-> FALSE, until |-> -5, quoted |-> 90],
    [demo |-> FALSE, until |-> NoDate, quoted |-> 31],
    [demo |-> FALSE, until |-> NoDate, quoted |-> NoDate] }

(* One task, so that the resumer and a worker meet on it.                  *)
OneTask == [t \in {t1} |-> {}]
=============================================================================
