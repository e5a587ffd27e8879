\* A paid session, one slot for its deliveries, and three more calls of any kind:
\* requests, reviews, adjustments, buys and sells that move one member's wallet.
SPECIFICATION PlatformSpec
CONSTANTS
  Member = {alice}
  Session = {s1}
  Delivery = {d1}
  Call = {d1, c1, c2, c3}
  Amount = {1}
  None = None
  Stock = {acme}
  MaxShares = 1
  Price = {1}
  Restock = {}
  InitialShares = 1
SYMMETRY Symmetry
INVARIANTS PlatformInv AtMostOnePending PaidIffApproved ToldTheOutcomeOnce
PROPERTIES AdjustmentsAudited KeepsOneAccount
