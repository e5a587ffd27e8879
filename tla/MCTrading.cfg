\* Two members race with three requests for one stock of three shares; prices
\* stand still and no admin overwrites the share count.
SPECIFICATION Spec
CONSTANTS
  alice = alice
  bob = bob
  Balance = 5
  Member = {alice, bob}
  Stock = {acme}
  Call = {c1, c2, c3}
  MaxShares = 2
  Price = {2}
  Restock = {}
  InitialShares = 3
  InitialBalance <- Wallets
  NoRequest = NoRequest
  NoPlan = NoPlan
SYMMETRY CallSymmetry
INVARIANTS
  TypeOK NonNegative ClosedMeansSoldOut SharesConserved
  SalesMatchOrders OneOrderPerFilledRequest ReportsCountEveryTrade
PROPERTY OnlyActiveMembersTrade
