----------------------------- MODULE TradingBooks -----------------------------
(***************************************************************************)
(* The books of Trading, added up: where the shares and the money went.    *)
(***************************************************************************)
EXTENDS Trading, Sums

SharesSold == [x \in DOMAIN sellOrders |-> sellOrders[x].shares]
SharesHeld == [o \in DOMAIN buyOrders |-> buyOrders[o].available]
CostOf     == [o \in DOMAIN buyOrders |-> Cost(buyOrders[o].cost, buyOrders[o].shares)]
ProceedsOf == [x \in DOMAIN sellOrders |-> Cost(sellOrders[x].price, sellOrders[x].shares)]

SellerOf(x) == buyOrders[sellOrders[x].order].owner

SoldFrom(o) == Total({x \in DOMAIN sellOrders : sellOrders[x].order = o}, SharesSold)
HeldOf(s)   == Total({o \in DOMAIN buyOrders : buyOrders[o].stock = s}, SharesHeld)
Spent(m)    == Total({o \in DOMAIN buyOrders : buyOrders[o].owner = m}, CostOf)
Earned(m)   == Total({x \in DOMAIN sellOrders : SellerOf(x) = m}, ProceedsOf)

\* A share is either on offer or in somebody's order, as long as no admin
\* overwrites availableShares.
SharesConserved ==
  \A s \in Stock : stock[s].available + HeldOf(s) = InitialShares

\* A buy order has left what its sell orders have not taken.
SalesMatchOrders ==
  \A o \in DOMAIN buyOrders :
    buyOrders[o].available = buyOrders[o].shares - SoldFrom(o)

\* A request that was not filled has left no order, and one that was has left
\* exactly one, however often its callback ran.
OneOrderPerFilledRequest ==
  \A c \in Call :
    /\ c \in DOMAIN buyOrders <=> status[c] = "filled" /\ request[c].op = "buy"
    /\ c \in DOMAIN sellOrders <=> status[c] = "filled" /\ request[c].op = "sell"
===============================================================================
