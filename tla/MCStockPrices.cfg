\* Three overlapping requests, with failures at every step.
SPECIFICATION FairSpec
CONSTANTS
  Call = {c1, c2, c3}
  Price = {1, 2}
  MayFail = TRUE
  None = None
  Absent = Absent
INVARIANTS UndisturbedVersionsAreKept UndisturbedChangesArePublished
PROPERTY CachesConverge
CHECK_DEADLOCK FALSE
