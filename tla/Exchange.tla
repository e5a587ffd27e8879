------------------------------- MODULE Exchange -------------------------------
(***************************************************************************)
(* What trading promises: a buy and a sell happen in one indivisible step, *)
(* at the price of that instant, for a member who is active in that        *)
(* instant, and never beyond the shares or the money there are.  Trading   *)
(* is the implementation: transactions that work on snapshots.             *)
(***************************************************************************)
EXTENDS Collections

CONSTANTS Member, Stock,
          OrderId,    \* names of buy and sell orders
          MaxShares,  \* the largest number of shares a request may name
          Price,      \* prices an admin may set
          Restock     \* share counts an admin may set

VARIABLES isActive,    \* isActive[m]: users.isActive
          stock,       \* stock[s]: price, available and listed
          balance,     \* wallets, defined on the members who have one
          buyOrders,   \* orders by id: owner, stock, shares, available, cost, closed
          sellOrders   \* orders by id: order, shares, price

Share == 1..MaxShares

books == <<isActive, stock, balance, buyOrders, sellOrders>>

Buy(m, s, n, id) ==
  LET cost == Cost(stock[s].price, n) IN
    /\ isActive[m] /\ stock[s].listed
    /\ stock[s].available >= n
    /\ m \in DOMAIN balance /\ balance[m] >= cost
    /\ id \notin DOMAIN buyOrders
    /\ stock' = [stock EXCEPT ![s].available = @ - n]
    /\ balance' = [balance EXCEPT ![m] = @ - cost]
    /\ buyOrders' = With(buyOrders, id,
                         [owner |-> m, stock |-> s, shares |-> n, available |-> n,
                          cost |-> stock[s].price, closed |-> FALSE])
    /\ UNCHANGED <<isActive, sellOrders>>

\* What is left of order b when n of its shares are sold.
Sold(b, n) == [b EXCEPT !.available = @ - n, !.closed = b.available = n]

\* A member sells from an order of his own; selling the rest closes it.
Sell(m, o, n, id) ==
  /\ o \in DOMAIN buyOrders /\ id \notin DOMAIN sellOrders
  /\ LET b == buyOrders[o]
         s == b.stock
     IN
       /\ isActive[m] /\ b.owner = m
       /\ n <= b.available
       /\ m \in DOMAIN balance
       /\ stock' = [stock EXCEPT ![s].available = @ + n]
       /\ balance' = [balance EXCEPT ![m] = @ + Cost(stock[s].price, n)]
       /\ buyOrders' = [buyOrders EXCEPT ![o] = Sold(b, n)]
       /\ sellOrders' = With(sellOrders, id,
                             [order |-> o, shares |-> n, price |-> stock[s].price])
       /\ UNCHANGED isActive

SetActive(m) == /\ isActive' = [isActive EXCEPT ![m] = ~@]
                /\ UNCHANGED <<stock, balance, buyOrders, sellOrders>>

Relist(s) ==
  /\ \E p \in Price, a \in Restock \cup {stock[s].available}, l \in BOOLEAN :
       stock' = [stock EXCEPT ![s] = [price |-> p, available |-> a, listed |-> l]]
  /\ UNCHANGED <<isActive, balance, buyOrders, sellOrders>>

Init == /\ isActive \in [Member -> BOOLEAN]
        /\ stock \in [Stock -> [price: Price, available: Nat, listed: BOOLEAN]]
        /\ \E holders \in SUBSET Member : balance \in [holders -> Nat]
        /\ buyOrders = EmptyCollection
        /\ sellOrders = EmptyCollection

Next == \/ \E m \in Member, id \in OrderId, n \in Share :
             \/ \E s \in Stock : Buy(m, s, n, id)
             \/ \E o \in OrderId : Sell(m, o, n, id)
        \/ \E m \in Member : SetActive(m)
        \/ \E s \in Stock : Relist(s)

Spec == Init /\ [][Next]_books
===============================================================================
