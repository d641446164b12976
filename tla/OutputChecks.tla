---------------------------- MODULE OutputChecks ----------------------------
(***************************************************************************)
(* The checks on what agents write: the validators that Verifier runs on   *)
(* the result of a task, the trust checks of a quote, and the guardrails   *)
(* of the harness on an answer to the user.                                *)
(*                                                                         *)
(* A result is the record of what the checks read in it: its length in     *)
(* classes, its keys when it is a JSON object (json), or the vendors and   *)
(* the marks that its prose holds.                                         *)
(***************************************************************************)
EXTENDS Integers, Sequences, SequencesExt

CONSTANTS
  Results,   \* of agents
  QuoteSets, \* what the payload of a task may carry as payload
  Quotes,    \* quotes with the fields the trust checks read
  Answers    \* sequences of lines

VARIABLES
  payload, \* the quotes in the payload of the task
  checked   \* what the latest check said

checksVars == <<payload, checked>>

Pass == [passed |-> TRUE, reason |-> "", retryable |-> TRUE]

(* A result that is too long is retryable by the default of the record,    *)
(* all others are when the reason speaks of quality                        *)
TooLong == [passed |-> FALSE, reason |-> "schema", retryable |-> TRUE]
Failed(reason) == [passed |-> FALSE, reason |-> reason, retryable |-> reason = "quality"]

-----------------------------------------------------------------------------
(* Each check returns "" or the kind of its reason.                        *)
SchemaCheck(r) == IF r.length = 0 THEN "schema" ELSE ""

(* A recommendation without a reason, or a reason without its payload, is *)
(* refused; prose only has to say that verification passed.                *)
ProcurementEvidenceCheck(r) ==
  IF \/ r.mark = "VERIFICATION FAILED"
     \/ ~r.json /\ r.mark # "VERIFICATION PASSED"
     \/ r.json /\ (r.vendor = "" \/ r.reasons = {} \/ FALSE \in r.reasons \/ ~r.refs)
  THEN "quality" ELSE ""

QuotedVendors == {payload[i].vendor : i \in DOMAIN payload} \ {""}

(* the vendor a result claims: the one under the key of its JSON, or of    *)
(* the JSON that its prose quotes; a vendor that is only mentioned counts  *)
(* when it is a quoted one                                                 *)
Claimed(r) == IF r.vendor # "" THEN {r.vendor} ELSE r.mentions \cap QuotedVendors

GroundedVendorCheck(r) ==
  IF QuotedVendors # {} /\ ~(Claimed(r) \subseteq QuotedVendors) THEN "trust" ELSE ""

(* the lowest of the totals, of each vendor the last one quoted; -1 stands *)
(* for a total that is missing                                             *)
Counted == {i \in DOMAIN payload : payload[i].vendor # "" /\ payload[i].total >= 0}
Latest(i) == \A j \in Counted : payload[j].vendor = payload[i].vendor => j <= i
QuotedTotals == {payload[i].total : i \in {j \in Counted : Latest(j)}}
BestTotal == CHOOSE t \in QuotedTotals : \A u \in QuotedTotals : t <= u

GroundedPriceCheck(r) ==
  IF /\ QuotedTotals # {} /\ r.json /\ r.vendor # "" /\ r.total >= 0
     /\ r.total # BestTotal
  THEN "trust" ELSE ""

AtLeast(r, n) == IF r.length < n THEN "quality" ELSE ""

(* ALL_TASK_VALIDATORS, each after schema_check                            *)
Objections(type, r) ==
  << SchemaCheck(r) >> \o
  CASE type = "verification" -> << ProcurementEvidenceCheck(r), GroundedVendorCheck(r) >>
    [] type = "analysis" ->
         << ProcurementEvidenceCheck(r), GroundedVendorCheck(r), GroundedPriceCheck(r) >>
    [] type \in {"price", "vendor"} -> << GroundedVendorCheck(r) >>
    [] type \in {"research", "report"} -> << AtLeast(r, 20) >>
    [] type = "analyze" -> << AtLeast(r, 30) >>
    [] type \in {"notify", "scrape"} -> << AtLeast(r, 10) >>
    [] OTHER -> <<>>

MaxLength == 100000

(* Verifier.verify: the first failure wins                                 *)
Verdict(type, r) ==
  LET first == SelectInSeq(Objections(type, r), LAMBDA reason : reason # "")
  IN  IF r.length > MaxLength THEN TooLong
      ELSE IF first = 0 THEN Pass
      ELSE Failed(Objections(type, r)[first])

-----------------------------------------------------------------------------
(* evidence_trust_check, quote_validity_check and source_integrity_check:  *)
(* days to the end of validity, unknown when there is no date              *)
Unknown == "unknown"

EvidenceTrustCheck(q) ==
  IF \/ q.until = "past" \/ ~q.entity \/ ~q.taxStated \/ ~q.currencyCode THEN "trust" ELSE ""

QuoteStatus(q) ==
  CASE q.until = Unknown -> "UNKNOWN" [] q.until = "past" -> "EXPIRED" [] OTHER -> "VALID"

(* skipped for a quote without a hash                                      *)
SourceIntegrityCheck(q) == IF q.hash # "none" /\ q.hash # q.file THEN "integrity" ELSE ""

-----------------------------------------------------------------------------
(* check_output of the harness: in these domains a line with a claim and a *)
(* figure needs a citation                                                 *)
CitedDomains == {"knowledge", "advisor", "competitor", "procurement"}

CheckOutput(domain, lines) ==
  domain \in CitedDomains =>
    \A i \in DOMAIN lines : {"claim", "figure"} \subseteq lines[i] => "citation" \in lines[i]

-----------------------------------------------------------------------------
ChecksTypeOK ==
  /\ payload \in QuoteSets
  /\ checked.reason \in {"", "schema", "quality", "trust", "integrity", "VALID", "EXPIRED", "UNKNOWN"}

ChecksInit == payload \in QuoteSets /\ checked = Pass

Check(type, r) == checked' = Verdict(type, r) /\ UNCHANGED payload

CheckQuote(q) ==
  /\ checked' \in { [passed |-> reason = "", reason |-> reason, retryable |-> FALSE] :
                      reason \in {EvidenceTrustCheck(q), QuoteStatus(q), SourceIntegrityCheck(q)} }
  /\ UNCHANGED payload

CheckAnswer(domain, lines) ==
  /\ checked' = IF CheckOutput(domain, lines) THEN Pass ELSE Failed("quality")
  /\ UNCHANGED payload

ChecksNext ==
  \/ \E type \in {"verification", "analysis", "price", "contract", "research", "analyze", "notify"},
        r \in Results : Check(type, r)
  \/ \E q \in Quotes : CheckQuote(q)
  \/ \E domain \in CitedDomains \cup {"ops"}, lines \in Answers : CheckAnswer(domain, lines)

ChecksSpec == ChecksInit /\ [][ChecksNext]_checksVars
=============================================================================
