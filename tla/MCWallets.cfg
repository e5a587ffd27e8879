\* A session of a member without a wallet in two slots for its deliveries, beside two
\* other calls of any kind, of which a credit makes the wallet too: webhook retries
\* under fairness.
SPECIFICATION FairSpec
CONSTANTS
  Member = {alice}
  Session = {s1}
  Delivery = {d1, d2}
  Call = {d1, d2, c1, c2}
  Amount = {1}
  None = None
INVARIANTS OnlyPaidIsCredited AcknowledgedMeansCredited
PROPERTY PaidIsCredited
