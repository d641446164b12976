------------------------------ MODULE CaseGraph ------------------------------
(***************************************************************************)
(* run_procurement_case: the request is routed, the graph built and run,   *)
(* and a recommendation read back.  The engine that runs the tasks is      *)
(* WorkflowRun; here a task that may run does so in one step, except the   *)
(* verification task, which reads the outcome of its siblings one by one.  *)
(* The specialists' agents have no language model and answer by rule.      *)
(***************************************************************************)
EXTENDS VendorChoice, CaseRouting

CONSTANTS
  CaseTexts,   \* texts of requests, as sets of the keyword lists they hit
  CaseOffers,  \* sequences of offers, what the documents of a case say
  Executions   \* how often a task is executed before it is dead-lettered

(* A quote with what the specialists can say of its vendor                 *)
Offers == [vendor : STRING \ {NoVendor}, tier : DOMAIN TierBonus, total : Int,
           terms : [payment : STRING, warranty : Int, sla : Int], score : Int,
           sourced : BOOLEAN, approved : BOOLEAN]

(* before any case; no request hits a keyword list of this name            *)
NoRequest == [text |-> {"no_request"}, offers |-> <<>>, spec |-> FALSE]

(* Bound: a vendor makes one offer, since what is known of offers is kept  *)
(* by vendor.                                                              *)
ASSUME CaseAssumption ==
  /\ Executions \in Nat \ {0} /\ NoRequest.text \notin CaseTexts
  /\ CaseOffers \subseteq Seq(Offers)
  /\ \A o \in CaseOffers : \A i, j \in DOMAIN o : o[i].vendor = o[j].vendor => i = j

VARIABLES
  request,   \* text, offers and whether a specification is required
  outcome,   \* what each completed task has stored; leaves store "lines"
  left,      \* the executions each task has left
  reading,   \* the siblings the running verification has read
  returned   \* status, and the vendor of agg["recommendation"]

caseVars == <<request, outcome, left, reading, returned>>

NotReading == [next |-> 0, found |-> {}]
NotYet     == [status |-> "none", vendor |-> NoVendor]

Graph      == IF request = NoRequest THEN <<>> ELSE BuildGraphForPlan(RouteCase(request.text))
Completed  == DOMAIN outcome
VendorsOf(offers) == {offers[i].vendor : i \in DOMAIN offers}
OfferOf(v) == LET o == request.offers IN o[CHOOSE i \in DOMAIN o : o[i].vendor = v]

CaseTypeOK ==
  /\ request = NoRequest \/ request \in [text : CaseTexts, offers : CaseOffers, spec : BOOLEAN]
  /\ Completed \subseteq DOMAIN Graph
  /\ \A t \in Completed \cap {"analysis", "verification"} :
       outcome[t].vendor \in VendorsOf(request.offers)
  /\ left \in [DOMAIN Graph -> 0..Executions]
  /\ reading \in [next : 0..Len(LeafAgents) + 1, found : SUBSET Range(LeafAgents)]
  /\ returned.status \in {"none", "completed", "failed"}
  /\ returned.vendor \in VendorsOf(request.offers) \cup {NoVendor}

CaseInit ==
  /\ request = NoRequest /\ outcome = <<>> /\ left = <<>>
  /\ reading = NotReading /\ returned = NotYet

-----------------------------------------------------------------------------
Receive ==
  /\ request = NoRequest
  /\ request' \in [text : CaseTexts, offers : CaseOffers, spec : BOOLEAN]
  /\ left' = [t \in DOMAIN BuildGraphForPlan(RouteCase(request'.text)) |-> Executions]
  /\ UNCHANGED <<outcome, reading, returned>>

(* What the leaves in S report: quotes from price, approvals from vendor,  *)
(* terms from contract, scores from spec, 100 when none is required        *)
Reported(S) ==
  LET known(agent) == IF agent \in S THEN VendorsOf(request.offers) ELSE {}
  IN  [quotes   |-> IF "price" \in S THEN request.offers ELSE <<>>,
       approved |-> [v \in known("vendor") |-> OfferOf(v).approved],
       terms    |-> [v \in known("contract") |-> OfferOf(v).terms],
       scores   |-> [v \in known("spec") |-> IF request.spec THEN OfferOf(v).score ELSE 100]]

(* without any result: the payload's quotes with terms that suit everybody *)
FromPayload ==
  [quotes   |-> request.offers,
   approved |-> [v \in VendorsOf(request.offers) |-> OfferOf(v).approved],
   terms    |-> [v \in VendorsOf(request.offers) |->
                   [payment |-> "Net_30", warranty |-> 3, sla |-> 4]],
   scores   |-> [v \in VendorsOf(request.offers) |-> 85]]

(* _analysis over the sibling outcome it finds                             *)
Analysis(found) == Evaluate(IF found = {} THEN FromPayload ELSE Reported(found))

(* procurement_evidence_check; grounded_vendor_check accepts every vendor  *)
(* of the payload, and grounded_price_check asks for a field that the      *)
(* recommendation does not have, so neither rejects anything here          *)
EvidenceCheck(rec) == rec.vendor # NoVendor /\ rec.reasons # {}

(* VerificationAgent.think: the price must cite the document of the quote  *)
Verifies(rec) ==
  EvidenceCheck(rec) /\ \A r \in rec.reasons : r[1] = "lowest_total_cost" => r[2] # "quotes"

MayRun(t) ==
  /\ returned = NotYet /\ t \in DOMAIN Graph \ Completed /\ left[t] > 0
  /\ Graph[t] \subseteq Completed

Complete(t, result) ==
  /\ outcome' = [x \in Completed \cup {t} |-> IF x = t THEN result ELSE outcome[x]]
  /\ UNCHANGED left

(* the verifier's "quality" failures are retried                           *)
Reject(t) == left' = [left EXCEPT ![t] = @ - 1] /\ UNCHANGED outcome

Leaf(t) ==
  /\ t \in Range(LeafAgents) /\ MayRun(t)
  /\ Complete(t, "lines")
  /\ UNCHANGED <<request, reading, returned>>

Analyse ==
  /\ MayRun("analysis")
  /\ LET rec == Analysis(Completed \cap Range(LeafAgents))
     IN  IF EvidenceCheck(rec) THEN Complete("analysis", rec) ELSE Reject("analysis")
  /\ UNCHANGED <<request, reading, returned>>

Judge(rec) ==
  /\ IF Verifies(rec) THEN Complete("verification", rec) ELSE Reject("verification")
  /\ reading' = NotReading

(* _verification: the result of analysis-1 if there is one ...             *)
ReadAnalysis ==
  /\ MayRun("verification") /\ reading = NotReading
  /\ IF "analysis" \in Completed
       THEN Judge(outcome["analysis"])
       ELSE reading' = [next |-> 1, found |-> {}] /\ UNCHANGED <<outcome, left>>
  /\ UNCHANGED <<request, returned>>

(* ... and else an analysis of its own, of the leaves done by the time     *)
(* each of them is read                                                    *)
ReadSibling ==
  /\ reading.next \in DOMAIN LeafAgents
  /\ LET t == LeafAgents[reading.next]
     IN  reading' = [next |-> reading.next + 1,
                     found |-> reading.found \cup ({t} \cap Completed)]
  /\ UNCHANGED <<request, outcome, left, returned>>

OwnAnalysis ==
  /\ reading.next > Len(LeafAgents)
  /\ Judge(Analysis(reading.found))
  /\ UNCHANGED <<request, returned>>

(* Every task has ended: the case fails unless all completed, or when      *)
(* run_workflow refused an empty graph.  Otherwise the recommendation is   *)
(* that of analysis-1, or none when the graph had no verification, and     *)
(* orchestrate writes VERIFICATION PASSED either way.                      *)
Return ==
  /\ request # NoRequest /\ returned = NotYet /\ reading = NotReading
  /\ \A t \in DOMAIN Graph \ Completed : left[t] = 0
  /\ LET ok == Completed = DOMAIN Graph /\ Completed # {}
     IN  returned' = [status |-> IF ok THEN "completed" ELSE "failed",
                      vendor |-> IF ok /\ "verification" \in Completed
                                   THEN outcome["analysis"].vendor ELSE NoVendor]
  /\ UNCHANGED <<request, outcome, left, reading>>

(* the next case                                                           *)
Forget ==
  /\ returned # NotYet
  /\ request' = NoRequest /\ outcome' = <<>> /\ left' = <<>>
  /\ returned' = NotYet /\ UNCHANGED reading

CaseNext ==
  \/ Receive \/ Analyse \/ ReadAnalysis \/ ReadSibling \/ OwnAnalysis \/ Return \/ Forget
  \/ \E t \in Range(LeafAgents) : Leaf(t)

CaseSpec == CaseInit /\ [][CaseNext]_caseVars

-----------------------------------------------------------------------------
(* What the policy promises of an offer, apart from how it is scored.      *)
Acceptable(o) ==
  /\ o.terms.warranty >= 3 /\ o.terms.sla <= 4 /\ o.terms.payment \in {"Net_30", "Net_45"}
  /\ request.spec => o.score >= 70

(* Cheaper and in nothing worse; no price and no SLA are no better ones.   *)
Beats(a, b) ==
  /\ 0 < a.total /\ a.total < b.total /\ a.terms.warranty >= b.terms.warranty
  /\ 0 < a.terms.sla /\ a.terms.sla <= b.terms.sla
  /\ a.score >= b.score /\ TierBonus[a.tier] >= TierBonus[b.tier]
  /\ (b.terms.payment = "Net_30" => a.terms.payment = "Net_30")

(* handlers.py:262, policy_engine.py:281: the vendor a case returns makes  *)
(* an acceptable offer, and nobody makes an acceptable one that is cheaper *)
(* and in nothing worse, in whatever order the tasks ended.                *)
RecommendedIsBest ==
  returned.vendor # NoVendor =>
    LET best == OfferOf(returned.vendor)
    IN  /\ Acceptable(best)
        /\ \A v \in VendorsOf(request.offers) :
             Acceptable(OfferOf(v)) => ~Beats(OfferOf(v), best)

(* policy_engine.py:113: the spread of all totals is part of every score,  *)
(* yet a winner who lowers a total stays the winner.                       *)
CheaperStaysBest ==
  LET r == Reported(Range(LeafAgents))
      w == SelectBest(r)
  IN  request # NoRequest /\ w # 0 =>
        \A t \in 1..request.offers[w].total :
          SelectBest([r EXCEPT !.quotes[w].total = t]) = w

(* pipeline.py:3, handlers.py:4: what a case returns as VERIFICATION       *)
(* PASSED is what its verification task has passed.                        *)
VerifiedIsReturned ==
  returned.status = "completed" =>
    "verification" \in Completed /\ outcome["verification"].vendor = returned.vendor
=============================================================================
