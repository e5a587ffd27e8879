\* A past of up to three documents at three instants of two days, read with every
\* query while one write goes on.
SPECIFICATION Spec
CONSTANTS
  Id = {i1, i2, i3}
  Now = 2
  DayLength = 2
  Period <- Periods
  Limit = {1, 2}
  MaxPage = 2
  MaxWrites = 1
  AnyType = AnyType
  None = None
SYMMETRY Symmetry
CHECK_DEADLOCK FALSE
INVARIANTS QuietPagesAreExact OverlappedPagesMissOnlyApprovals
