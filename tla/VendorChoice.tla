---------------------------- MODULE VendorChoice ----------------------------
(***************************************************************************)
(* PolicyEngine: from the quotes and what the four specialists say of      *)
(* their vendors to one recommendation, with the policy of policy.yaml.    *)
(* Scores are integers: the weights are per cent, and a score is scaled by *)
(* 23 (hours of SLA) and by the spread of the totals, so that nothing is   *)
(* rounded.  Where two exact scores are equal the code's floating point    *)
(* may prefer either; here the first quote wins.                           *)
(***************************************************************************)
EXTENDS Integers, Sequences, SequencesExt

Weights == [price |-> 40, warranty |-> 20, sla |-> 15, spec |-> 15, payment |-> 10]

TierBonus == [TIER_1 |-> 5, TIER_2 |-> 0]

Constraints == [minWarranty |-> 3, maxSla |-> 4, payments |-> {"Net_30", "Net_45"},
                minScore |-> 70]

Disqualifiers == {[field |-> "warranty", operator |-> "lt", value |-> 3],
                  [field |-> "sla", operator |-> "gt", value |-> 8]}

(* ContractTerms and SpecScore of a vendor nobody reported on              *)
NoTerms == [payment |-> "", warranty |-> 0, sla |-> 0]
NoScore == 0

-----------------------------------------------------------------------------
Lesser(a, b)  == IF a < b THEN a ELSE b
Greater(a, b) == IF a < b THEN b ELSE a

Totals(quotes) == {quotes[i].total : i \in DOMAIN quotes}
Lowest(quotes)  == CHOOSE t \in Totals(quotes) : \A u \in Totals(quotes) : t <= u
Highest(quotes) == CHOOSE t \in Totals(quotes) : \A u \in Totals(quotes) : t >= u
Spread(quotes)  == Greater(Highest(quotes) - Lowest(quotes), 1)

(* Fault: the dearer quote gets the higher price score.                    *)
NormalizePrice_Dearer(total, quotes) ==
  IF total <= 0 THEN 0
  ELSE IF Highest(quotes) = Lowest(quotes) THEN 100
  ELSE 100 * (total - Lowest(quotes))

(* each _normalize function, times Spread for the price, 23 for the SLA;   *)
(* disqualified quotes count among the totals                              *)
NormalizePrice(total, quotes) ==
  IF total <= 0 THEN 0
  ELSE IF Highest(quotes) = Lowest(quotes) THEN 100
  ELSE 100 * (Highest(quotes) - total)

NormalizeWarranty(years) == Lesser(100, 20 * Lesser(years, 5))

NormalizeSla(hours) == IF hours <= 0 THEN 0 ELSE 100 * (24 - Lesser(hours, 24))

NormalizeSpec(score) == Greater(0, Lesser(100, score))

NormalizePayment(payment) ==
  CASE payment = "Net_30" -> 100 [] payment = "Net_45" -> 80 [] payment = "Net_60" -> 60
    [] OTHER -> 40

Score(quote, terms, score, quotes) ==
  23 * Weights.price * NormalizePrice(quote.total, quotes)
  + Spread(quotes) * ( 23 * ( Weights.warranty * NormalizeWarranty(terms.warranty)
                            + Weights.spec * NormalizeSpec(score)
                            + Weights.payment * NormalizePayment(terms.payment)
                            + TierBonus[quote.tier] )
                     + Weights.sla * NormalizeSla(terms.sla) )

Compares(op, a, b) ==
  CASE op = "lt" -> a < b [] op = "gt" -> a > b [] op = "lte" -> a <= b
    [] op = "gte" -> a >= b [] op = "eq" -> a = b [] op = "ne" -> a # b
    [] op = "in" -> a \in b [] op = "not_in" -> a \notin b

CheckDisqualifiers(terms) ==
  \E d \in Disqualifiers : Compares(d.operator, terms[d.field], d.value)

(* a score is asked for only of a vendor that was scored                   *)
CheckConstraints(terms, score, assessed) ==
  /\ terms.warranty >= Constraints.minWarranty
  /\ terms.sla <= Constraints.maxSla
  /\ terms.payment \in Constraints.payments
  /\ assessed => score >= Constraints.minScore

-----------------------------------------------------------------------------
(* What the four specialists report: quotes, a sequence; approved, terms   *)
(* and scores, functions of the vendors each of them reports on.           *)
TermsOf(r, v) == IF v \in DOMAIN r.terms THEN r.terms[v] ELSE NoTerms
ScoreOf(r, v) == IF v \in DOMAIN r.scores THEN r.scores[v] ELSE NoScore

(* the quotes left by apply_constraints: whether the vendor is approved is *)
(* not asked                                                               *)
Eligible(r) ==
  {i \in DOMAIN r.quotes :
     LET v == r.quotes[i].vendor
     IN  /\ ~CheckDisqualifiers(TermsOf(r, v))
         /\ CheckConstraints(TermsOf(r, v), ScoreOf(r, v), v \in DOMAIN r.scores)}

ScoreAt(r, i) ==
  LET v == r.quotes[i].vendor
  IN  Score(r.quotes[i], TermsOf(r, v), ScoreOf(r, v), r.quotes)

(* select_best, 0 for none: max returns the first of the highest           *)
SelectBest(r) ==
  SelectInSeq([i \in DOMAIN r.quotes |-> i],
    LAMBDA i : i \in Eligible(r) /\ \A j \in Eligible(r) : ScoreAt(r, j) <= ScoreAt(r, i))

(* The reasons are claims with the evidence they cite; the price always    *)
(* claims to be the lowest.                                                *)
Reasons(r, i) ==
  LET q == r.quotes[i]
      t == TermsOf(r, q.vendor)
      source == IF q.sourced THEN "source" ELSE "quotes"
  IN  {<<"lowest_total_cost", source>>}
      \cup {c \in {<<"approved_vendor", "vendors.json">>} :
              q.vendor \in DOMAIN r.approved /\ r.approved[q.vendor]}
      \cup {c \in {<<"warranty", source>>} : t.warranty > 0}
      \cup {c \in {<<"payment", source>>} : t.payment # ""}
      \cup {c \in {<<"SLA", source>>} : t.sla > 0}
      \cup {c \in {<<"spec_score", "notes">>} : ScoreOf(r, q.vendor) > 0}
      \cup {c \in {<<"vendor_tier_bonus", "policy.yaml">>} : TierBonus[q.tier] > 0}

NoVendor == "no_vendor"
Draft    == [vendor |-> NoVendor, total |-> 0, reasons |-> {}, status |-> "DRAFT"]

(* evaluate                                                                *)
Evaluate(r) ==
  LET best == IF r.quotes = <<>> THEN 0 ELSE SelectBest(r)
  IN  IF best = 0 THEN Draft
      ELSE [vendor |-> r.quotes[best].vendor, total |-> r.quotes[best].total,
            reasons |-> Reasons(r, best), status |-> "PENDING_APPROVAL"]
=============================================================================
