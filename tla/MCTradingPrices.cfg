\* One member's two requests for two stocks, while prices move (0 included),
\* stocks are delisted and relisted, and an admin sets the share counts.
SPECIFICATION FairSpec
CONSTANTS
  alice = alice
  bob = bob
  Balance = 3
  Member = {alice}
  Stock = {acme, bolt}
  Call = {c1, c2}
  MaxShares = 1
  Price = {0, 2}
  Restock = {1}
  InitialShares = 2
  InitialBalance <- AliceOnly
  NoRequest = NoRequest
  NoPlan = NoPlan
INVARIANTS IInv BooksInv ProfitsExplainWealth
PROPERTIES AtomicTrading TradesKeepAum EveryRequestAnswered
