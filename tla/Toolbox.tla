------------------------------- MODULE Toolbox ------------------------------
(***************************************************************************)
(* ToolExecutor and the tools: permission, deny list and policy before a   *)
(* call, retries during it, and what each tool makes of its input.  A text *)
(* is the record of what the patterns of the tools find in it.             *)
(***************************************************************************)
EXTENDS Integers, Sequences, SequencesExt, FiniteSetsExt

CONSTANTS
  Inside,     \* paths that resolve into the sandbox
  Outside,    \* and those that do not
  FileTexts,      \* what a file may hold, and what the chat or a user writes
  Agents,    \* agents: <<role, permissions>>
  PolicyFiles \* tables [risk, clearance, ask] that a policy file may hold

VARIABLES
  files,   \* path -> text, of the sandbox
  toolPolicy,  \* the tables of the PolicyEngine
  calling,    \* the call that the executor is making
  log,     \* of the executor: the entry of the latest call that was made
  output   \* what the latest call made, if it made anything

toolVars == <<files, toolPolicy, calling, log, output>>

MaxRetries == 3

(* REGISTRY                                                                *)
Tool(permission, retryable) == [permission |-> permission, retryable |-> retryable]

Registry ==
  [ parse_quote_pdf |-> Tool("general", FALSE), retrieve_evidence |-> Tool("general", TRUE),
    compare_prices |-> Tool("procurement_price", TRUE),
    check_approved_vendor |-> Tool("procurement_vendor", TRUE),
    extract_contract_terms |-> Tool("procurement_contract", TRUE),
    score_spec |-> Tool("procurement_spec", TRUE), web_search |-> Tool("research", TRUE),
    read_file |-> Tool("general", FALSE), write_file |-> Tool("build", TRUE),
    run_shell |-> Tool("build", TRUE) ]

Tools == DOMAIN Registry

-----------------------------------------------------------------------------
(* _parse_quote_text.  found names the cues of a text, amounts its dollar  *)
(* amounts in order, quantity is 0 when no pattern matches.                *)
FirstOf(cues, text, otherwise) ==
  LET i == SelectInSeq(cues, LAMBDA c : c \in text.found)
  IN  IF i = 0 THEN otherwise ELSE cues[i]

Vendor(text) == FirstOf(<<"Lenovo", "Dell", "HP">>, text, "")

(* _extract_valid_until and _extract_legal_entity: the first cue, in the   *)
(* order of the patterns, that the text has                                *)
ValidUntil(text)  == FirstOf(<<"valid until", "expires", "valid through", "expiry date">>, text, "")
LegalEntity(text) ==
  FirstOf(<<"legal entity", "company name", "issued by", "seller", "vendor">>, text, "")

(* _extract_tax_included: included when the text does not say              *)
TaxIncluded(text) == FirstOf(<<"tax included", "tax excluded">>, text, "tax included") = "tax included"

(* _extract_currency: a code before a symbol, dollars when there is none   *)
Currency(text) ==
  FirstOf(<<"USD", "EUR", "GBP", "VND", "JPY", "CNY", "SGD", "AUD", "CAD", "CHF">>, text,
    CASE text.amounts # <<>> -> "USD"
      [] "€" \in text.found -> "EUR" [] "£" \in text.found -> "GBP" [] "₫" \in text.found -> "VND"
      [] OTHER -> "USD")

Incoterms(text) ==
  FirstOf(<<"EXW", "FCA", "FAS", "FOB", "CFR", "CIF", "CPT", "CIP", "DAP", "DPU", "DDP">>, text, "")

(* The unit price is the first amount, the total the highest: the quantity *)
(* counts for nothing as soon as there is an amount, and without one the   *)
(* unit price is 0.                                                        *)
Total(text) == IF text.amounts = <<>> THEN 0 ELSE Max(Range(text.amounts))

ParseQuoteText(text) ==
  [ vendor |-> Vendor(text), unit |-> IF text.amounts = <<>> THEN 0 ELSE Head(text.amounts),
    quantity |-> text.quantity, total |-> Total(text), until |-> ValidUntil(text),
    entity |-> LegalEntity(text), tax |-> TaxIncluded(text), currency |-> Currency(text),
    incoterms |-> Incoterms(text) ]

(* extract_contract_terms                                                  *)
ContractTerms(text) ==
  [ payment |-> IF "net" \in text.found THEN "Net" ELSE "",
    warranty |-> "years warranty" \in text.found, sla |-> "hours sla" \in text.found ]

(* score_spec: per cent of the words asked for; asked for nothing, it is   *)
(* not applicable and met                                                  *)
ScoreSpec(text, words) ==
  IF words = <<>> THEN [score |-> 100, met |-> TRUE]
  ELSE LET hits == Len(SelectSeq(words, LAMBDA w : w \in text.found))
       IN  [score |-> (100 * hits) \div Len(words), met |-> 2 * hits >= Len(words)]

(* check_approved_vendor: vendors.json, and the list in the code that      *)
(* stands in for it, approve the same                                      *)
ApprovedVendor(text) == Vendor(text) \in {"Lenovo", "Dell"}

-----------------------------------------------------------------------------
(* The policy of a role and a tool: policy_aware_call                      *)
Level == [LOW |-> 0, MEDIUM |-> 1, HIGH |-> 2]

(* RiskLevel: a file that names any other level is broken.                 *)
ASSUME ToolAssumption ==
  \A f \in PolicyFiles : Range(f.risk) \cup Range(f.clearance) \subseteq DOMAIN Level

DefaultToolRisk == [web_search |-> "LOW", read_file |-> "LOW", write_file |-> "MEDIUM", run_shell |-> "HIGH"]

DefaultClearance == [research |-> "LOW", builder |-> "MEDIUM", validator |-> "LOW", general |-> "LOW"]

DefaultPolicy == [risk |-> DefaultToolRisk, clearance |-> DefaultClearance, ask |-> TRUE]

Lookup(table, key, otherwise) == IF key \in DOMAIN table THEN table[key] ELSE otherwise

Decide(role, tool) ==
  LET risk == Lookup(toolPolicy.risk, tool, "MEDIUM")
      clearance == Lookup(toolPolicy.clearance, role, "LOW")
  IN  CASE tool \notin Tools \/ Level[risk] > Level[clearance] -> "DENY"
        [] risk = "HIGH" /\ toolPolicy.ask -> "REQUIRE_APPROVAL"
        [] OTHER -> "ALLOW"

(* InputGuardrail and ToolCallGuardrail, which only tests call; the        *)
(* OutputGuardrail looks at the length and blanks what looks like a secret *)
InputPasses(text)    == text.size = "some" /\ "injection" \notin text.found
ToolCallPasses(text) == text.size # "long" /\ "injection" \notin text.found
OutputPasses(text)   == text.size # "long"
Sanitize(text)       == [text EXCEPT !.found = @ \ {"secret"}]

-----------------------------------------------------------------------------
Blank == [found |-> {}, amounts |-> <<>>, quantity |-> 0, size |-> "none"]
Idle  == [tool |-> "none", path |-> "", text |-> Blank, attempts |-> 0]
Entry(tool, ok, fatal, attempts) == [tool |-> tool, ok |-> ok, fatal |-> fatal, attempts |-> attempts]
FileTools == {"parse_quote_pdf", "read_file", "write_file"}
Paths == Inside \cup Outside

ToolTypeOK ==
  /\ DOMAIN files \subseteq Inside /\ Range(files) \subseteq FileTexts \cup {Blank}
  /\ Range(toolPolicy.risk) \cup Range(toolPolicy.clearance) \subseteq DOMAIN Level
  /\ calling.tool \in Tools \cup {"none"} /\ calling.attempts \in 0..MaxRetries
  /\ log.attempts \in 0..MaxRetries + 1

ToolInit ==
  /\ files = <<>> /\ toolPolicy = DefaultPolicy /\ calling = Idle
  /\ log = Entry("none", FALSE, FALSE, 0) /\ output = Blank

(* PolicyEngine.from_file: a file that is missing or broken gives the      *)
(* defaults, what a file leaves out keeps its default                      *)
Over(default, table) ==
  [k \in DOMAIN default \cup DOMAIN table |-> IF k \in DOMAIN table THEN table[k] ELSE default[k]]

LoadPolicy ==
  /\ calling = Idle
  /\ toolPolicy' \in {DefaultPolicy} \cup
       {[risk |-> Over(DefaultToolRisk, f.risk), ask |-> f.ask,
         clearance |-> Over(DefaultClearance, f.clearance)] : f \in PolicyFiles}
  /\ UNCHANGED <<files, calling, log, output>>

(* ToolExecutor.call up to its loop: a tool that is not permitted, and an  *)
(* input on the deny list, is fatal and leaves no entry in the log.        *)
(* Direct calls, the only ones that agents make, ask no policy.            *)
Call(caller, tool, path, text, direct) ==
  /\ calling = Idle
  /\ IF tool \in FileTools THEN path # "" /\ (text = Blank \/ tool = "write_file") ELSE path = ""
  /\ direct \/ Decide(caller[1], tool) = "ALLOW"
  /\ Registry[tool].permission \in caller[2]
  /\ "denied" \notin text.found
  /\ calling' = [tool |-> tool, path |-> path, text |-> text, attempts |-> 0]
  /\ output' = Blank
  /\ UNCHANGED <<files, toolPolicy, log>>

(* What one run of a tool ends with: a total that is no number fails       *)
(* compare_prices with another exception than its own                      *)
Runs(tool, path, text) ==
  CASE tool = "parse_quote_pdf" ->
         {IF path \in DOMAIN files /\ "pdf" \in files[path].found /\ files[path].size # "none"
          THEN "ok" ELSE "fatal"}
    [] tool = "read_file" ->
         {IF path \notin DOMAIN files THEN "fatal" ELSE IF "pdf" \in files[path].found THEN "error" ELSE "ok"}
    [] tool = "write_file" -> {IF path \in Inside THEN "ok" ELSE "fatal"}
    [] tool = "retrieve_evidence" -> {"ok", "fatal"}
    [] tool = "compare_prices" ->
         {IF text.size = "none" THEN "fatal" ELSE IF "bad total" \in text.found THEN "error" ELSE "ok"}
    [] tool = "run_shell" -> IF "allowlisted" \in text.found THEN {"ok", "error"} ELSE {"fatal"}
    [] OTHER -> {"ok"}

(* What a tool that succeeds leaves behind                                 *)
Effect ==
  /\ files' = IF calling.tool = "write_file" THEN Over(files, [p \in {calling.path} |-> calling.text]) ELSE files
  /\ output' = CASE calling.tool = "parse_quote_pdf" -> ParseQuoteText(files[calling.path])
                 [] calling.tool = "read_file" -> files[calling.path]
                 [] calling.tool = "extract_contract_terms" -> ContractTerms(calling.text)
                 [] calling.tool = "check_approved_vendor" -> [approved |-> ApprovedVendor(calling.text)]
                 [] calling.tool = "score_spec" -> ScoreSpec(calling.text, <<"ram", "ssd">>)
                 [] OTHER -> output

Succeed ==
  /\ calling # Idle /\ "ok" \in Runs(calling.tool, calling.path, calling.text)
  /\ Effect
  /\ log' = Entry(calling.tool, TRUE, FALSE, calling.attempts + 1)
  /\ calling' = Idle /\ UNCHANGED toolPolicy

Fail ==
  /\ calling # Idle /\ "fatal" \in Runs(calling.tool, calling.path, calling.text)
  /\ log' = Entry(calling.tool, FALSE, TRUE, 0)
  /\ calling' = Idle /\ UNCHANGED <<files, toolPolicy, output>>

(* Any other exception is tried again when the tool is retryable           *)
Retry ==
  /\ calling # Idle /\ "error" \in Runs(calling.tool, calling.path, calling.text)
  /\ IF ~Registry[calling.tool].retryable \/ calling.attempts + 1 > MaxRetries
     THEN calling' = Idle /\ log' = Entry(calling.tool, FALSE, FALSE, calling.attempts + 1)
     ELSE calling' = [calling EXCEPT !.attempts = @ + 1] /\ UNCHANGED log
  /\ UNCHANGED <<files, toolPolicy, output>>

(* parse_quote_files: one file that cannot be parsed fails them all        *)
ParseQuoteFiles(paths) ==
  /\ calling = Idle
  /\ \A p \in paths : Runs("parse_quote_pdf", p, Blank) = {"ok"}
  /\ \E p \in paths : output' = ParseQuoteText(files[p])
  /\ UNCHANGED <<files, toolPolicy, calling, log>>

(* A document that somebody puts into the sandbox                          *)
PutFile(path, text) ==
  /\ calling = Idle
  /\ files' = Over(files, [p \in {path} |-> text])
  /\ UNCHANGED <<toolPolicy, calling, log, output>>

(* The guardrails, asked of a text: whether it passes as a request, as the *)
(* input of a tool and as a result, and what is left of it as a result     *)
Screen(text) ==
  /\ calling = Idle
  /\ output' = [request |-> InputPasses(text), tool |-> ToolCallPasses(text),
                result |-> OutputPasses(text), left |-> Sanitize(text)]
  /\ UNCHANGED <<files, toolPolicy, calling, log>>

ToolNext ==
  \/ LoadPolicy \/ Succeed \/ Fail \/ Retry
  \/ \E c \in Agents, t \in Tools, p \in Paths \cup {""}, x \in FileTexts \cup {Blank},
        d \in BOOLEAN : Call(c, t, p, x, d)
  \/ \E ps \in (SUBSET Inside) \ {{}} : ParseQuoteFiles(ps)
  \/ \E p \in Inside, x \in FileTexts : PutFile(p, x)
  \/ \E x \in FileTexts : Screen(x)

ToolSpec == ToolInit /\ [][ToolNext]_toolVars
=============================================================================
