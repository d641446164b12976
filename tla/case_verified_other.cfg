SPECIFICATION CaseSpec
CONSTANTS
  CaseTexts <- PurchaseOnly
  CaseOffers <- SmallOffers
  Executions = 2
INVARIANTS
  VerifiedIsReturned
