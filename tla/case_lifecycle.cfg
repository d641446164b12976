SPECIFICATION FairSpec
CONSTANTS
  t1 = t1
  t2 = t2
  bob = bob
  telegram = telegram
  autopilot = autopilot
  Nobody = Nobody
  NoCall = NoCall
  Tap = {t1, t2}
  Resolver = {bob, telegram, autopilot}
  Authorized = {bob}
  BotLabel = telegram
  RetryLimits = {0, 1}
  AutoLabel = autopilot
INVARIANTS
  NoIllegalTransition
  ApprovedByAuthority
  StampAfterDecision
  LoneDecisionAgrees
PROPERTIES
  RejectionIsFinal
  CompletedIsOffered
\* A behaviour ends when the case has ended and nobody calls any more.
CHECK_DEADLOCK FALSE
