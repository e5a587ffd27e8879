-------------------------------- MODULE Reports --------------------------------
(***************************************************************************)
(* What is computed from the books of Trading: a member's portfolio        *)
(* summary (orders.service.ts) and the analyst's totals and rankings       *)
(* (analyst.service.ts).  They are operators on a state, as if each query  *)
(* read one; periods and pages of the rankings are left out.               *)
(***************************************************************************)
EXTENDS TradingBooks

\* The totals run over all members and all stocks.
ASSUME CollectionsAreFinite == IsFiniteSet(Member) /\ IsFiniteSet(Stock)

OpenOrders == {o \in DOMAIN buyOrders : buyOrders[o].available > 0}

\* What is left of each order, at what it cost and at what it is worth now.
CostHeld  == [o \in DOMAIN buyOrders |-> Cost(buyOrders[o].cost, buyOrders[o].available)]
ValueHeld == [o \in DOMAIN buyOrders |-> Cost(stock[buyOrders[o].stock].price, buyOrders[o].available)]

\* A position of the summary: the open orders of member m for stock s, together.
Position(m, s) ==
  LET mine   == {o \in OpenOrders : buyOrders[o].owner = m /\ buyOrders[o].stock = s}
      shares == Total(mine, SharesHeld)
      cost   == Total(mine, CostHeld)
      value  == Cost(stock[s].price, shares)
  IN [shares |-> shares, totalCost |-> cost, marketValue |-> value,
      unrealizedGainLoss |-> value - cost]

Totals(m) ==
  [cost |-> Total(Stock, [s \in Stock |-> Position(m, s).totalCost]),
   marketValue |-> Total(Stock, [s \in Stock |-> Position(m, s).marketValue]),
   unrealizedGainLoss |-> Total(Stock, [s \in Stock |-> Position(m, s).unrealizedGainLoss])]

\* What a sell order records: proceeds less the cost basis.
ProfitLoss(x) == LET sale == sellOrders[x]
                 IN Cost(sale.price, sale.shares) - Cost(buyOrders[sale.order].cost, sale.shares)

SoldStock(x) == buyOrders[sellOrders[x].order].stock

Realized(m) == Total({x \in DOMAIN sellOrders : SellerOf(x) = m},
                     [x \in DOMAIN sellOrders |-> ProfitLoss(x)])
-------------------------------------------------------------------------------
WalletBalanceTotal == Total(DOMAIN balance, balance)

OpenPositionsValue == Total(OpenOrders, ValueHeld)

TotalAum == WalletBalanceTotal + OpenPositionsValue

Bought(s) == {o \in DOMAIN buyOrders : buyOrders[o].stock = s}
Sold(s)   == {x \in DOMAIN sellOrders : SoldStock(x) = s}

\* How many shares of stock s were traded in a period that has seen every trade.
SharesTraded(s) == Total(Bought(s), [o \in DOMAIN buyOrders |-> buyOrders[o].shares])
                     + Total(Sold(s), SharesSold)

\* ... and what was paid for them.
ValueTraded(s) == Total(Bought(s), CostOf) + Total(Sold(s), ProceedsOf)

\* Faulty: without the $unionWith of the sell orders.
TradeCountBought(s) == Cardinality(Bought(s))

\* How often stock s was traded.
TradeCount(s) == Cardinality(Bought(s)) + Cardinality(Sold(s))

\* How often member m has traded.
MemberTrades(m) == Cardinality({o \in DOMAIN buyOrders : buyOrders[o].owner = m})
                     + Cardinality({x \in DOMAIN sellOrders : SellerOf(x) = m})
-------------------------------------------------------------------------------
\* What a member has in his wallet and in shares is what he started with and what
\* his reports tell him he has gained: the profitLoss his sell orders recorded,
\* each when it was made, and the unrealizedGainLoss of his summary now.
ProfitsExplainWealth ==
  \A m \in DOMAIN balance :
    balance[m] + Totals(m).marketValue
      = InitialBalance[m] + Realized(m) + Totals(m).unrealizedGainLoss

\* What member m has invested: his shares at what they cost him.
Invested(m) == Total({o \in DOMAIN buyOrders : buyOrders[o].owner = m}, CostHeld)

FiniteBooks == IsFiniteSet(DOMAIN buyOrders) /\ IsFiniteSet(DOMAIN sellOrders)

\* A member's money is in his wallet or invested, but for what he has realized, and
\* nobody gets or loses a wallet by trading.
CashIsExplained ==
  /\ DOMAIN balance = DOMAIN InitialBalance
  /\ \A m \in DOMAIN balance : balance[m] + Invested(m) = InitialBalance[m] + Realized(m)

\* The inductive invariant of the books, on top of that of Trading: what is missing
\* from an order or a wallet is in other books, to the share and to the cent.
BooksInv == FiniteBooks /\ SalesMatchOrders /\ CashIsExplained

\* A trade moves value between wallets and positions and makes or loses none: at
\* standing prices the assets under management stay what they are, a trade at an
\* outdated price would change them.
TradesKeepAum ==
  [][(\A s \in Stock : stock'[s].price = stock[s].price) => TotalAum' = TotalAum]_vars

\* The rankings and the volumes count the same trades: every filled request once,
\* for its stock and for its member, with what it moved in the wallets; and a share
\* that was sold has been traded twice.
ReportsCountEveryTrade ==
  LET filled == Cardinality({c \in Call : status[c] = "filled"})
  IN /\ Total(Stock, [s \in Stock |-> TradeCount(s)]) = filled
     /\ Total(Member, [m \in Member |-> MemberTrades(m)]) = filled
     /\ Total(Stock, [s \in Stock |-> ValueTraded(s)])
          = Total(Member, [m \in Member |-> Spent(m) + Earned(m)])
     /\ \A s \in Stock :
          SharesTraded(s) - HeldOf(s) = 2 * Total(Sold(s), SharesSold)
===============================================================================
