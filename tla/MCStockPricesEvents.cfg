\* Price events of overlapping updates: refuted.
SPECIFICATION Spec
CONSTANTS
  Call = {c1, c2}
  Price = {1, 2}
  MayFail = FALSE
  None = None
  Absent = Absent
SYMMETRY Symmetry
INVARIANT PriceChangesArePublished
CHECK_DEADLOCK FALSE
