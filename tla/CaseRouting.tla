----------------------------- MODULE CaseRouting -----------------------------
(***************************************************************************)
(* From the text of a request to the graph of its case: classify_intent,   *)
(* build_routing_plan and _build_graph_for_plan; and the project a text    *)
(* belongs to.  A text is the set of the keyword lists it hits.            *)
(***************************************************************************)
EXTENDS Naturals, Sequences, SequencesExt, FiniteSets

(* The explicit commands and the question for a price, in the order of     *)
(* classify_intent; "empty" is a blank text.                               *)
Commands == << <<"empty", "help">>, <<"help", "help">>, <<"inbox", "inbox">>,
               <<"task_detail", "inbox">>, <<"approval", "approval">>,
               <<"price_question", "price_question">> >>

(* What is asked when no prompt is open.  A procurement word decides alike *)
(* with and without quotes and details.                                    *)
Requests == << <<"compare", "compare_task">>, <<"quote_validity", "simple_task">>,
               <<"vendor_check", "simple_task">>, <<"price_check", "simple_task">>,
               <<"spec_check", "simple_task">>, <<"procure", "procurement_decision">> >>

(* The other services; a text that both watches and asks for a brief of    *)
(* competitors is a brief.                                                 *)
Domains == << <<"advisor", "ask_advisor">>, <<"ops_status", "ops_status">>,
              <<"ops_connect", "ops_connect">>, <<"brief", "competitor_brief">>,
              <<"watch", "competitor_watch">>, <<"brain_ingest", "brain_ingest">>,
              <<"brain_query", "brain_query">>, <<"kb_ingest", "kb_ingest">>,
              <<"kb_query", "kb_query">> >>

IntentIn(table, text, default) ==
  LET i == SelectInSeq(table, LAMBDA row : row[1] \in text)
  IN  IF i = 0 THEN default ELSE table[i][2]

(* classify_intent                                                         *)
ClassifyIntent(text, state) ==
  IntentIn(Commands, text,
    IF state = "awaiting_spec" THEN "procurement_decision"
    ELSE IntentIn(Requests \o Domains, text, "chitchat"))

-----------------------------------------------------------------------------
LeafAgents == <<"price", "vendor", "contract", "spec">>
FullProcurementAgents == LeafAgents \o <<"analysis", "verification">>
CompareAgents == <<"price", "vendor", "spec">>

(* _is_simple_task, asked again for the agent; contract by default         *)
SimpleAgents(text) ==
  << IntentIn(<< <<"quote_validity", "contract">>, <<"vendor_check", "vendor">>,
                 <<"price_check", "price">>, <<"spec_check", "spec">> >>, text, "contract") >>

DomainAgents ==
  [ask_advisor |-> <<"advisor">>, ops_status |-> <<"ops_aggregator">>,
   ops_connect |-> <<"ops_aggregator">>,
   competitor_brief |-> <<"competitor_collect", "competitor_analyze">>,
   competitor_watch |-> <<"competitor_collect">>, kb_query |-> <<"kb_answer">>,
   kb_ingest |-> <<"kb_answer">>, brain_query |-> <<"brain_answer">>,
   brain_ingest |-> <<"brain_answer">>]

(* build_routing_plan; its estimates are read by nobody                    *)
RequiredAgents(intent, text) ==
  CASE intent = "simple_task" -> SimpleAgents(text)
    [] intent = "compare_task" -> CompareAgents
    [] intent = "procurement_decision" -> FullProcurementAgents
    [] intent \in DOMAIN DomainAgents -> DomainAgents[intent]
    [] OTHER -> <<>>

(* run_procurement_case routes the request again, outside any session      *)
RouteCase(text) == RequiredAgents(ClassifyIntent(text, "idle"), text)

(* Fault: the join waits for all leaves of the plan but one.               *)
BuildGraphForPlan_EarlyJoin(required) ==
  LET agents == IF required = <<>> THEN FullProcurementAgents ELSE required
      leaves == Range(agents) \cap Range(LeafAgents)
      join   == IF leaves # {} THEN Range(agents) \cap {"analysis"} ELSE {}
      check  == IF join # {} THEN Range(agents) \cap {"verification"} ELSE {}
  IN  [t \in leaves \cup join \cup check |-> IF t = "analysis" THEN leaves \ {"spec"} ELSE {}]

(* _build_graph_for_plan, the tasks with their dependencies: no agents     *)
(* mean all six, agents of other services are left out, and verification   *)
(* is a root                                                               *)
BuildGraphForPlan(required) ==
  LET agents == IF required = <<>> THEN FullProcurementAgents ELSE required
      leaves == Range(agents) \cap Range(LeafAgents)
      join   == IF leaves # {} THEN Range(agents) \cap {"analysis"} ELSE {}
      check  == IF join # {} THEN Range(agents) \cap {"verification"} ELSE {}
  IN  [t \in leaves \cup join \cup check |-> IF t = "analysis" THEN leaves ELSE {}]

-----------------------------------------------------------------------------
(* RoutingRegistry.load: the configured projects, and always a default     *)
LoadRoutes(configured) == configured \cup {"default"}

(* RouterAgent.route: the hint, the guess of the model ("" when there is   *)
(* none or it raised), the first project named in the text, in the order   *)
(* of the names                                                            *)
RouteProject(projects, hint, guess, named) ==
  IF hint \in Range(projects) THEN hint
  ELSE IF guess \in Range(projects) THEN guess
  ELSE LET i == SelectInSeq(projects, LAMBDA p : p # "default" /\ p \in named)
       IN  IF i = 0 THEN "default" ELSE projects[i]
=============================================================================
