SPECIFICATION FairSpec
CONSTANTS
  NEvents = 3
  MaxAttempts = 2
  Batch = 2
  MaxAborts = 1
INVARIANTS
  PublishedWasDelivered
  DuplicatesOnlyFromAborts
  OldestFirst
PROPERTIES
  GivenUpStaysSilent
  Settles
\* The relay has nothing to do when every row is published or dead.
CHECK_DEADLOCK FALSE
