\* Three requests at once, with failures of Redis, of the database and of the process.
SPECIFICATION FairSpec
CONSTANTS
  Call = {c1, c2, c3}
  MayMissEviction = TRUE
  None = None
INVARIANTS BuyersAreToldTheTruth SummariesAreCurrent
PROPERTY StalenessEnds
CHECK_DEADLOCK FALSE
