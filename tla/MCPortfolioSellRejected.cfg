\* order_rejected as the failure event of a sell: refuted.
SPECIFICATION Spec
CONSTANTS
  Call = {c1, c2}
  MayMissEviction = FALSE
  None = None
INVARIANT SellersAreToldTheTruth
CHECK_DEADLOCK FALSE
