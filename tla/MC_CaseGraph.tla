---------------------------- MODULE MC_CaseGraph ----------------------------
(* Offers and requests of a procurement case for TLC.                      *)
EXTENDS CaseGraph

GoodTerms == [payment |-> "Net_30", warranty |-> 3, sla |-> 4]

Offer(vendor, total, terms, score, sourced, approved) ==
  [vendor |-> vendor, tier |-> IF vendor = "A" THEN "TIER_2" ELSE "TIER_1", total |-> total,
   terms |-> terms, score |-> score, sourced |-> sourced, approved |-> approved]

(* A cheap offer, a dearer one that is better in everything, one without   *)
(* an SLA; one without a document that misses a payment term.              *)
OffersOf(v) ==
  { Offer(v, 1, GoodTerms, 60, TRUE, TRUE),
    Offer(v, 2, [GoodTerms EXCEPT !.warranty = 4], 80, TRUE, FALSE),
    Offer(v, 3, [GoodTerms EXCEPT !.sla = 0], 90, TRUE, TRUE) }
UnsourcedOffer(v) ==
  Offer(v, 4, [GoodTerms EXCEPT !.sla = 1, !.payment = "Net_45"], 80, FALSE, TRUE)

(* Three offers; or none, or a single one that the policy disqualifies or  *)
(* that has no document.                                                   *)
SmallOffers ==
  {<<a, b, Offer("C", 3, [GoodTerms EXCEPT !.sla = 0], 90, TRUE, TRUE)>> :
     a \in OffersOf("A"), b \in OffersOf("B") \cup {UnsourcedOffer("B")}}
  \cup {<<>>, <<Offer("A", 1, [GoodTerms EXCEPT !.warranty = 2], 80, TRUE, TRUE)>>,
        <<Offer("A", 1, GoodTerms, 80, FALSE, TRUE)>>}

(* What a request may ask for: a purchase, a comparison, advice, or the    *)
(* validity of quotes beside a purchase.                                   *)
CaseRequests == {{"procure"}, {"compare", "procure"}, {"advisor"}, {"quote_validity", "procure"}}
PurchaseOnly == {{"procure"}}
=============================================================================
