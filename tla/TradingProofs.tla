----------------------------- MODULE TradingProofs -----------------------------
(***************************************************************************)
(* Trading for any number of members, stocks, requests and shares: its     *)
(* inductive invariant, what follows from it, and that Trading implements  *)
(* Exchange.                                                               *)
(***************************************************************************)
EXTENDS TradingBooks, TLAPS

LEMMA CostIsNatural ==
  ASSUME NEW p \in Nat, NEW n \in Nat
  PROVE  Cost(p, n) \in Nat
BY SMT DEF Cost

\* A buy that is not refused has everything it needs.
LEMMA BuyIsCovered ==
  ASSUME NEW m, NEW s, NEW n, "ok" \in BuyOutcomes(m, s, n)
  PROVE  /\ isActive[m] /\ stock[s].listed /\ ~(stock[s].available < n)
         /\ m \in DOMAIN balance /\ ~(balance[m] < Cost(stock[s].price, n))
<1>1. isActive[m]
  BY Zenon DEF BuyOutcomes
<1>2. stock[s].listed
  BY <1>1, Zenon DEF BuyOutcomes
<1>3. ~(stock[s].available < n)
  BY <1>1, <1>2, Zenon DEF BuyOutcomes
<1>4. m \in DOMAIN balance
  BY <1>1, <1>2, <1>3, Zenon DEF BuyOutcomes
<1>5. ~(balance[m] < Cost(stock[s].price, n))
  BY <1>1, <1>2, <1>3, <1>4, Zenon DEF BuyOutcomes
<1> QED
  BY <1>1, <1>2, <1>3, <1>4, <1>5

\* The same for a sell.
LEMMA SellIsCovered ==
  ASSUME NEW m, NEW o, NEW n, "ok" \in SellOutcomes(m, o, n)
  PROVE  /\ isActive[m] /\ OwnOpenOrder(m, o) /\ ~(n > buyOrders[o].available)
         /\ m \in DOMAIN balance
<1>1. isActive[m]
  BY Zenon DEF SellOutcomes
<1>2. OwnOpenOrder(m, o)
  BY <1>1, Zenon DEF SellOutcomes
<1>3. ~(n > buyOrders[o].available)
  BY <1>1, <1>2, Zenon DEF SellOutcomes
<1>4. m \in DOMAIN balance
  BY <1>1, <1>2, <1>3, Zenon DEF SellOutcomes
<1> QED
  BY <1>1, <1>2, <1>3, <1>4

\* Two open transactions that write no document in common trade for different
\* members, in different stocks, from different orders.
LEMMA DisjointWrites ==
  ASSUME SchemasOK, PlansOK,
         NEW c \in Call, NEW d \in Call, status[c] = "open", status[d] = "open",
         writeSet[c] \cap writeSet[d] = {}
  PROVE  /\ request[c].member # request[d].member
         /\ plan[c].stock # plan[d].stock
         /\ request[c].op = "sell" /\ request[d].op = "sell"
              => request[c].order # request[d].order
<1>1. \A e \in {c, d} : /\ UserDoc(request[e].member) \in writeSet[e]
                        /\ StockDoc(plan[e].stock) \in writeSet[e]
                        /\ request[e].op = "sell" => OrderDoc(request[e].order) \in writeSet[e]
  BY DEF SchemasOK, PlansOK, Request, BuyFootprint, SellFootprint
<1> QED
  BY <1>1
\* What c's plan was decided on is not disturbed by a step that leaves c's
\* member, wallet, stock and order alone.
LEMMA FreshIsLocal ==
  ASSUME NEW c \in Call, Fresh(c),
         request'[c] = request[c], plan'[c] = plan[c],
         isActive'[request[c].member] = isActive[request[c].member],
         DOMAIN balance \subseteq DOMAIN balance',
         balance'[request[c].member] = balance[request[c].member],
         stock'[plan[c].stock] = stock[plan[c].stock],
         request[c].op = "sell" =>
           /\ DOMAIN buyOrders \subseteq DOMAIN buyOrders'
           /\ buyOrders'[request[c].order] = buyOrders[request[c].order]
  PROVE  Fresh(c)'
<1>1. /\ isActive'[request'[c].member] /\ request'[c].member \in DOMAIN balance'
      /\ plan'[c].price = stock'[plan'[c].stock].price
  BY DEF Fresh
<1>2. ASSUME request'[c].op = "buy"
      PROVE  /\ stock'[plan'[c].stock].listed
             /\ stock'[plan'[c].stock].available >= plan'[c].shares
             /\ balance'[request'[c].member] >= Cost(plan'[c].price, plan'[c].shares)
  BY <1>2 DEF Fresh
<1>3. ASSUME request'[c].op = "sell"
      PROVE  /\ OwnOpenOrder(request[c].member, request[c].order)'
             /\ plan'[c].stock = buyOrders'[request'[c].order].stock
             /\ plan'[c].shares <= buyOrders'[request'[c].order].available
             /\ plan'[c].full <=> plan'[c].shares = buyOrders'[request'[c].order].available
  BY <1>3 DEF Fresh, OwnOpenOrder
<1> QED
  BY <1>1, <1>2, <1>3 DEF Fresh, OwnOpenOrder
-------------------------------------------------------------------------------
LEMMA InitTrades == Init => TradesOK
<1> SUFFICES ASSUME Init PROVE TradesOK
  OBVIOUS
<1> USE DEF Init
<1>1. SchemasOK
  <2>1. \A c \in Call : status[c] = "new" /\ request[c] = NoRequest /\ plan[c] = NoPlan
                        /\ writeSet[c] = {}
    BY DEF SessionsInit
  <2>2. writeSet = [d \in Call |-> writeSet[d]]
    BY DEF SessionsInit
  <2>3. stock \in [Stock -> [price: Price, available: Int, listed: BOOLEAN]]
    BY InitialSharesIsNatural
  <2>4. DOMAIN balance \subseteq Member /\ balance \in [DOMAIN balance -> Int]
    BY InitialBalanceIsNatural
  <2>5. /\ DOMAIN buyOrders \subseteq Call /\ buyOrders \in [DOMAIN buyOrders -> BuyOrder]
        /\ DOMAIN sellOrders \subseteq Call /\ sellOrders \in [DOMAIN sellOrders -> SellOrder]
    BY DEF EmptyCollection
  <2> QED
    BY <2>1, <2>2, <2>3, <2>4, <2>5 DEF SchemasOK
<1>2. PlansOK /\ OrderIdsOK /\ SnapshotFresh
  <2>1. \A c \in Call : status[c] # "open"
    OBVIOUS
  <2>2. DOMAIN buyOrders = {} /\ DOMAIN sellOrders = {}
    BY DEF EmptyCollection
  <2> HIDE DEF Init
  <2> QED
    BY <2>1, <2>2 DEF PlansOK, OrderIdsOK, SnapshotFresh
<1>3. NonNegative
  <2>1. \A s \in Stock : stock[s].available >= 0
    BY InitialSharesIsNatural
  <2>2. \A m \in DOMAIN balance : balance[m] >= 0
    BY InitialBalanceIsNatural
  <2>3. DOMAIN buyOrders = {}
    BY DEF EmptyCollection
  <2> HIDE DEF Init
  <2> QED
    BY <2>1, <2>2, <2>3 DEF NonNegative
<1>4. ClosedMeansSoldOut
  BY DEF ClosedMeansSoldOut, EmptyCollection
<1> QED
  BY <1>1, <1>2, <1>3, <1>4 DEF TradesOK
\* A step of one call that leaves the books alone and does not open a
\* transaction.
LEMMA QuietStep ==
  ASSUME TradesOK, SchemasOK', NEW c \in Call, UNCHANGED books,
         status[c] # "filled", status'[c] # "open",
         \A d \in Call \ {c} : /\ status'[d] = status[d] /\ request'[d] = request[d]
                               /\ plan'[d] = plan[d] /\ writeSet'[d] = writeSet[d]
                               /\ d \in stale => d \in stale'
  PROVE  TradesOK'
<1>1. PlansOK'
  BY DEF TradesOK, PlansOK
<1>2. OrderIdsOK'
  BY DEF TradesOK, OrderIdsOK, SchemasOK, books
<1>3. SnapshotFresh'
  <2> SUFFICES ASSUME NEW d \in Call, status'[d] = "open", d \notin stale'
               PROVE  Fresh(d)'
    BY DEF SnapshotFresh
  <2>1. d # c /\ Fresh(d)
    BY DEF TradesOK, SnapshotFresh
  <2> QED
    BY <2>1, FreshIsLocal DEF books
<1>4. NonNegative' /\ ClosedMeansSoldOut'
  BY DEF TradesOK, NonNegative, ClosedMeansSoldOut, books
<1> QED
  BY <1>1, <1>2, <1>3, <1>4 DEF TradesOK

LEMMA ReceiveKeepsTrades ==
  ASSUME TradesOK, NEW c \in Call, Receive(c)  PROVE TradesOK'
<1>1. SchemasOK'
  BY DEF TradesOK, SchemasOK, Receive, books, sessionVars
<1> QED
  BY <1>1, QuietStep DEF TradesOK, SchemasOK, Receive, sessionVars

LEMMA RefuseKeepsTrades ==
  ASSUME TradesOK, NEW c \in Call, Refuse(c)  PROVE TradesOK'
<1>1. PICK why \in Outcomes(request[c]) \ {"ok"} : status' = [status EXCEPT ![c] = why]
  BY DEF Refuse
<1>2. why \in Refusal
  BY <1>1, Zenon DEF Outcomes, BuyOutcomes, SellOutcomes, Refusal
<1>3. why \notin {"new", "open"} /\ why \in Answered
  BY <1>2 DEF Refusal, Answered
<1>4. SchemasOK'
  BY <1>1, <1>3 DEF TradesOK, SchemasOK, Refuse, books, sessionVars
<1> QED
  BY <1>1, <1>3, <1>4, QuietStep DEF TradesOK, SchemasOK, Refuse, sessionVars

\* Conflict and Fail: the transaction is gone without a trace.
LEMMA AbortKeepsTrades ==
  ASSUME TradesOK, NEW c \in Call, NEW st \in {"received", "failed"},
         status[c] \in {"received", "open"}, UNCHANGED <<books, request>>,
         status' = [status EXCEPT ![c] = st], plan' = [plan EXCEPT ![c] = NoPlan],
         AbortTxn(c)
  PROVE  TradesOK'
<1>1. SchemasOK'
  <2>1. writeSet' = [d \in Call |-> writeSet'[d]]
    BY DEF TradesOK, SchemasOK, AbortTxn
  <2>2. status' \in [Call -> {"new", "received", "open"} \cup Answered]
    BY DEF TradesOK, SchemasOK, Answered
  <2> QED
    BY <2>1, <2>2 DEF TradesOK, SchemasOK, AbortTxn, books
<1> QED
  BY <1>1, QuietStep DEF TradesOK, SchemasOK, AbortTxn
\* Opening a transaction: what the callback found is fresh.
LEMMA OpenBuyKeepsTrades ==
  ASSUME TradesOK, NEW c \in Call, OpenBuy(c)  PROVE TradesOK'
<1> DEFINE r == request[c]
<1>1. /\ r \in Request /\ r.op = "buy" /\ r.member \in Member
      /\ r.stock \in Stock /\ r.shares \in Share
  BY DEF OpenBuy, TradesOK, SchemasOK, Request
<1>2. /\ isActive[r.member] /\ stock[r.stock].listed
      /\ ~(stock[r.stock].available < r.shares) /\ r.member \in DOMAIN balance
      /\ ~(balance[r.member] < Cost(stock[r.stock].price, r.shares))
  BY BuyIsCovered DEF OpenBuy
<1>3. /\ stock[r.stock].price \in Nat /\ stock[r.stock].available \in Int
      /\ balance[r.member] \in Int
  BY <1>1, <1>2, PricesAreNatural DEF TradesOK, SchemasOK
<1>4. Cost(stock[r.stock].price, r.shares) \in Nat
  <2>1. r.shares \in Nat
    BY <1>1, MaxSharesIsNatural DEF Share
  <2> QED
    BY <1>3, <2>1, CostIsNatural
<1> DEFINE p == [stock |-> r.stock, shares |-> r.shares,
                 price |-> stock[r.stock].price, full |-> FALSE]
<1>5. p \in Plan
  BY <1>1, <1>3 DEF Plan
<1>6. /\ status' = [status EXCEPT ![c] = "open"] /\ plan' = [plan EXCEPT ![c] = p]
      /\ writeSet' = [writeSet EXCEPT ![c] = BuyFootprint(r.member, r.stock)]
      /\ stale' = stale \ {c} /\ UNCHANGED <<books, request>>
      /\ status[c] = "received"
  BY DEF OpenBuy, OpenTxn
<1>7. BuyFootprint(r.member, r.stock) \subseteq Document
  BY <1>1 DEF BuyFootprint, Document, UserDoc, StockDoc, WalletDoc
<1> HIDE DEF p
<1>8. SchemasOK'
  BY <1>1, <1>5, <1>6, <1>7 DEF TradesOK, SchemasOK, books
<1>9. PlansOK'
  BY <1>1, <1>6 DEF TradesOK, SchemasOK, PlansOK, p
<1>10. OrderIdsOK'
  BY <1>6 DEF TradesOK, SchemasOK, OrderIdsOK, books
<1>11. SnapshotFresh'
  <2> SUFFICES ASSUME NEW d \in Call, status'[d] = "open", d \notin stale'
               PROVE  Fresh(d)'
    BY DEF SnapshotFresh
  <2>1. CASE d = c
    <3>1. plan'[c] = p /\ request'[c] = r
      BY <1>6 DEF TradesOK, SchemasOK
    <3> QED
      BY <2>1, <3>1, <1>1, <1>2, <1>3, <1>4, <1>6 DEF Fresh, books, p, Share
  <2>2. CASE d # c
    <3>1. Fresh(d)
      BY <2>2, <1>6 DEF TradesOK, SnapshotFresh, SchemasOK
    <3> QED
      BY <2>2, <3>1, <1>6, FreshIsLocal DEF books, TradesOK, SchemasOK
  <2> QED
    BY <2>1, <2>2
<1>12. NonNegative' /\ ClosedMeansSoldOut'
  BY <1>6 DEF TradesOK, NonNegative, ClosedMeansSoldOut, books
<1> QED
  BY <1>8, <1>9, <1>10, <1>11, <1>12 DEF TradesOK

LEMMA OpenSellKeepsTrades ==
  ASSUME TradesOK, NEW c \in Call, OpenSell(c)  PROVE TradesOK'
<1> DEFINE r == request[c]
           s == buyOrders[r.order].stock
           p == SellPlan(r.order, r.shares)
<1>1. /\ r \in Request /\ r.op = "sell" /\ r.member \in Member
      /\ r.order \in Call /\ r.shares \in Share \cup {All}
  BY DEF OpenSell, TradesOK, SchemasOK, Request
<1>2. /\ isActive[r.member] /\ OwnOpenOrder(r.member, r.order)
      /\ ~(r.shares > buyOrders[r.order].available) /\ r.member \in DOMAIN balance
  BY SellIsCovered DEF OpenSell
<1>3. /\ r.order \in DOMAIN buyOrders /\ s \in Stock
      /\ buyOrders[r.order].available \in Share
      /\ stock[s].price \in Nat /\ buyOrders[r.order].owner = r.member
  <2>1. r.order \in DOMAIN buyOrders /\ buyOrders[r.order] \in BuyOrder
    BY <1>2 DEF OwnOpenOrder, TradesOK, SchemasOK
  <2>2. s \in Stock /\ stock[s].price \in Nat
    BY <2>1, PricesAreNatural DEF BuyOrder, TradesOK, SchemasOK
  <2>3. /\ buyOrders[r.order].available \in 0..buyOrders[r.order].shares
        /\ buyOrders[r.order].shares \in Share
        /\ buyOrders[r.order].available > 0
    BY <2>1, <1>2 DEF OwnOpenOrder, TradesOK, NonNegative, BuyOrder
  <2>4. buyOrders[r.order].available \in Share
    BY <2>3, MaxSharesIsNatural DEF Share
  <2> QED
    BY <2>1, <2>2, <2>4, <1>2 DEF OwnOpenOrder
<1>4. /\ SharesToSell(r.order, r.shares) \in Share
      /\ SharesToSell(r.order, r.shares) <= buyOrders[r.order].available
  BY <1>1, <1>2, <1>3 DEF SharesToSell, Share, All
<1>5. /\ p \in Plan /\ p.stock = s /\ p.shares = SharesToSell(r.order, r.shares)
      /\ p.price = stock[s].price
      /\ p.full <=> p.shares = buyOrders[r.order].available
  BY <1>3, <1>4 DEF Plan, SellPlan
<1>6. /\ status' = [status EXCEPT ![c] = "open"] /\ plan' = [plan EXCEPT ![c] = p]
      /\ writeSet' = [writeSet EXCEPT ![c] = SellFootprint(r.member, s, r.order)]
      /\ stale' = stale \ {c} /\ UNCHANGED <<books, request>>
      /\ status[c] = "received"
  BY DEF OpenSell, OpenTxn
<1>7. SellFootprint(r.member, s, r.order) \subseteq Document
  BY <1>1, <1>3 DEF SellFootprint, Document, UserDoc, StockDoc, WalletDoc, OrderDoc
<1> HIDE DEF p
<1>8. SchemasOK'
  BY <1>1, <1>5, <1>6, <1>7 DEF TradesOK, SchemasOK, books
<1>9. PlansOK'
  BY <1>1, <1>5, <1>6 DEF TradesOK, SchemasOK, PlansOK
<1>10. OrderIdsOK'
  BY <1>6 DEF TradesOK, SchemasOK, OrderIdsOK, books
<1>11. SnapshotFresh'
  <2> SUFFICES ASSUME NEW d \in Call, status'[d] = "open", d \notin stale'
               PROVE  Fresh(d)'
    BY DEF SnapshotFresh
  <2>1. CASE d = c
    <3>1. plan'[c] = p /\ request'[c] = r
      BY <1>6 DEF TradesOK, SchemasOK
    <3> QED
      BY <2>1, <3>1, <1>1, <1>2, <1>3, <1>4, <1>5, <1>6 DEF Fresh, books, OwnOpenOrder
  <2>2. CASE d # c
    <3>1. Fresh(d)
      BY <2>2, <1>6 DEF TradesOK, SnapshotFresh, SchemasOK
    <3> QED
      BY <2>2, <3>1, <1>6, FreshIsLocal DEF books, TradesOK, SchemasOK
  <2> QED
    BY <2>1, <2>2
<1>12. NonNegative' /\ ClosedMeansSoldOut'
  BY <1>6 DEF TradesOK, NonNegative, ClosedMeansSoldOut, books
<1> QED
  BY <1>8, <1>9, <1>10, <1>11, <1>12 DEF TradesOK
-------------------------------------------------------------------------------
\* A transaction that survives a commit of c had nothing to do with c's.
LEMMA SurvivorsAreDisjoint ==
  ASSUME TradesOK, NEW c \in Call, status[c] = "open", CommitTxn(c),
         status' = [status EXCEPT ![c] = "filled"],
         NEW d \in Call, status'[d] = "open", d \notin stale'
  PROVE  /\ d # c /\ status[d] = "open" /\ Fresh(d)
         /\ request[d].member # request[c].member
         /\ plan[d].stock # plan[c].stock
         /\ request[d].op = "sell" /\ request[c].op = "sell"
              => request[d].order # request[c].order
<1>1. d # c /\ status[d] = "open"
  BY DEF TradesOK, SchemasOK
<1>2. d \notin stale /\ writeSet[d] \cap writeSet[c] = {}
  BY <1>1 DEF CommitTxn, Outdated
<1>3. Fresh(d)
  BY <1>1, <1>2 DEF TradesOK, SnapshotFresh
<1> QED
  BY <1>1, <1>2, <1>3, DisjointWrites DEF TradesOK

\* What c's commit works with.
LEMMA OpenCallOK ==
  ASSUME TradesOK, NEW c \in Call, status[c] = "open"
  PROVE  /\ request[c] \in Request /\ request[c].member \in Member
         /\ plan[c] \in Plan /\ plan[c].stock \in Stock /\ plan[c].price \in Nat
         /\ plan[c].shares \in Share /\ plan[c].shares \in Nat /\ plan[c].shares > 0
         /\ plan[c].full \in BOOLEAN
         /\ Cost(plan[c].price, plan[c].shares) \in Nat
         /\ c \notin DOMAIN buyOrders /\ c \notin DOMAIN sellOrders
<1>1. request[c] \in Request /\ plan[c] \in Plan
  BY DEF TradesOK, SchemasOK
<1>2. request[c].member \in Member
  BY <1>1 DEF Request
<1>3. /\ plan[c].stock \in Stock /\ plan[c].price \in Nat
      /\ plan[c].shares \in Share /\ plan[c].full \in BOOLEAN
  BY <1>1 DEF Plan
<1>4. plan[c].shares \in Nat /\ plan[c].shares > 0
  BY <1>3, MaxSharesIsNatural DEF Share
<1>5. c \notin DOMAIN buyOrders /\ c \notin DOMAIN sellOrders
  BY DEF TradesOK, OrderIdsOK
<1> QED
  BY <1>1, <1>2, <1>3, <1>4, <1>5, CostIsNatural

LEMMA CommitBuyKeepsTrades ==
  ASSUME TradesOK, NEW c \in Call, CommitBuy(c)  PROVE TradesOK'
<1> DEFINE r == request[c]
           p == plan[c]
           cost == Cost(p.price, p.shares)
           order == [owner |-> r.member, stock |-> p.stock, shares |-> p.shares,
                     available |-> p.shares, cost |-> p.price, closed |-> FALSE]
<1>1. /\ status[c] = "open" /\ r.op = "buy" /\ CommitTxn(c)
      /\ status' = [status EXCEPT ![c] = "filled"]
      /\ plan' = [plan EXCEPT ![c] = NoPlan]
      /\ stock' = [stock EXCEPT ![p.stock].available = @ - p.shares]
      /\ balance' = [balance EXCEPT ![r.member] = @ - cost]
      /\ buyOrders' = With(buyOrders, c, order)
      /\ UNCHANGED <<isActive, sellOrders, request>>
  BY DEF CommitBuy
<1>2. /\ r \in Request /\ r.member \in Member /\ p \in Plan /\ p.stock \in Stock
      /\ p.price \in Nat /\ p.shares \in Share /\ p.shares \in Nat /\ p.shares > 0
      /\ cost \in Nat /\ c \notin DOMAIN buyOrders
  BY <1>1, OpenCallOK
<1>3. Fresh(c)
  BY <1>1 DEF TradesOK, SnapshotFresh, CommitTxn
<1>4. /\ r.member \in DOMAIN balance /\ balance[r.member] \in Int /\ balance[r.member] >= cost
      /\ stock[p.stock].available \in Int /\ stock[p.stock].available >= p.shares
  BY <1>1, <1>2, <1>3 DEF Fresh, TradesOK, SchemasOK
<1>5. order \in BuyOrder
  BY <1>2 DEF BuyOrder
<1> HIDE DEF cost, order
<1>6. /\ DOMAIN buyOrders' = DOMAIN buyOrders \cup {c} /\ buyOrders'[c] = order
      /\ \A o \in DOMAIN buyOrders : buyOrders'[o] = buyOrders[o]
  BY <1>1, <1>2 DEF With
<1>7. SchemasOK'
  <2>1. DOMAIN buyOrders' \subseteq Call /\ buyOrders' \in [DOMAIN buyOrders' -> BuyOrder]
    BY <1>1, <1>5, <1>6 DEF TradesOK, SchemasOK, With
  <2>2. DOMAIN balance' \subseteq Member /\ balance' \in [DOMAIN balance' -> Int]
    BY <1>1, <1>2, <1>4 DEF TradesOK, SchemasOK
  <2>3. stock' \in [Stock -> [price: Price, available: Int, listed: BOOLEAN]]
    BY <1>1, <1>2, <1>4 DEF TradesOK, SchemasOK
  <2>4. writeSet' = [d \in Call |-> writeSet'[d]]
    BY <1>1 DEF TradesOK, SchemasOK, CommitTxn, Outdated
  <2>5. status' \in [Call -> {"new", "received", "open"} \cup Answered]
    BY <1>1 DEF TradesOK, SchemasOK, Answered
  <2> QED
    BY <1>1, <2>1, <2>2, <2>3, <2>4, <2>5 DEF TradesOK, SchemasOK, CommitTxn
<1>8. PlansOK'
  BY <1>1 DEF TradesOK, SchemasOK, PlansOK, CommitTxn
<1>9. OrderIdsOK'
  BY <1>1, <1>6 DEF TradesOK, SchemasOK, OrderIdsOK
<1>10. SnapshotFresh'
  <2> SUFFICES ASSUME NEW d \in Call, status'[d] = "open", d \notin stale'
               PROVE  Fresh(d)'
    BY DEF SnapshotFresh
  <2>1. /\ d # c /\ status[d] = "open" /\ Fresh(d)
        /\ request[d].member # r.member /\ plan[d].stock # p.stock
    BY <1>1, SurvivorsAreDisjoint
  <2>2. plan[d].stock \in Stock
    BY <2>1, OpenCallOK
  <2>3. request'[d] = request[d] /\ plan'[d] = plan[d]
    BY <1>1, <2>1 DEF TradesOK, SchemasOK
  <2>4. request[d].member \in DOMAIN balance
    BY <2>1 DEF Fresh
  <2>5. DOMAIN balance' = DOMAIN balance /\ balance'[request[d].member] = balance[request[d].member]
    BY <1>1, <2>1, <2>4
  <2>6. stock'[plan[d].stock] = stock[plan[d].stock]
    BY <1>1, <2>1, <2>2 DEF TradesOK, SchemasOK
  <2>7. request[d].op = "sell" =>
          /\ DOMAIN buyOrders \subseteq DOMAIN buyOrders'
          /\ buyOrders'[request[d].order] = buyOrders[request[d].order]
    BY <1>6, <2>1 DEF Fresh, OwnOpenOrder
  <2> QED
    BY <1>1, <2>1, <2>3, <2>5, <2>6, <2>7, FreshIsLocal
<1>11. NonNegative'
  <2>1. \A s \in Stock : stock'[s].available >= 0
    BY <1>1, <1>2, <1>4 DEF TradesOK, NonNegative, SchemasOK
  <2>2. \A m \in DOMAIN balance' : balance'[m] >= 0
    BY <1>1, <1>2, <1>4 DEF TradesOK, NonNegative, SchemasOK
  <2>3. \A o \in DOMAIN buyOrders' : buyOrders'[o].available \in 0..buyOrders'[o].shares
    BY <1>2, <1>6 DEF TradesOK, NonNegative, order
  <2> QED
    BY <2>1, <2>2, <2>3 DEF NonNegative
<1>12. ClosedMeansSoldOut'
  BY <1>2, <1>6 DEF TradesOK, ClosedMeansSoldOut, order
<1> QED
  BY <1>7, <1>8, <1>9, <1>10, <1>11, <1>12 DEF TradesOK
\* What a sell leaves of an open order: full closes and partial ones subtract
\* alike, and close the order exactly when they sell the rest.
LEMMA AfterSaleOK ==
  ASSUME NEW b \in BuyOrder, NEW p \in Plan, p.shares \in Nat, p.shares > 0,
         p.shares <= b.available, b.closed <=> b.available = 0,
         p.full <=> p.shares = b.available
  PROVE  /\ AfterSale(b, p) \in BuyOrder
         /\ AfterSale(b, p).shares = b.shares
         /\ AfterSale(b, p).available = b.available - p.shares
         /\ AfterSale(b, p).closed <=> b.available = p.shares
         /\ AfterSale(b, p) = Atomic!Sold(b, p.shares)
<1>1. b.available \in Nat /\ b.available > 0 /\ b.closed = FALSE
  BY DEF BuyOrder
<1>2. CASE p.full
  <2>1. AfterSale(b, p) = [b EXCEPT !.available = 0, !.closed = TRUE]
    BY <1>1, <1>2 DEF AfterSale
  <2>2. b.available - p.shares = 0 /\ (b.available = p.shares) = TRUE
    BY <1>1, <1>2
  <2> QED
    <3>1. AfterSale(b, p) = Atomic!Sold(b, p.shares)
      BY <2>1, <2>2, Zenon DEF Atomic!Sold
    <3>2. /\ AfterSale(b, p) \in BuyOrder /\ AfterSale(b, p).shares = b.shares
          /\ AfterSale(b, p).available = 0 /\ AfterSale(b, p).closed
      <4>1. ASSUME NEW x \in Nat, NEW y \in BOOLEAN
            PROVE  /\ [b EXCEPT !.available = x, !.closed = y] \in BuyOrder
                   /\ [b EXCEPT !.available = x, !.closed = y].shares = b.shares
                   /\ [b EXCEPT !.available = x, !.closed = y].available = x
                   /\ [b EXCEPT !.available = x, !.closed = y].closed = y
        BY DEF BuyOrder
      <4> QED
        BY <2>1, <4>1, Zenon
    <3>3. AfterSale(b, p).closed <=> b.available = p.shares
      BY <1>2, <3>2
    <3>4. AfterSale(b, p).available = b.available - p.shares
      BY <2>2, <3>2
    <3> QED
      BY <3>1, <3>2, <3>3, <3>4, Zenon
<1>3. CASE ~p.full
  <2>1. (b.available = p.shares) = FALSE
    BY <1>1, <1>3
  <2>2. AfterSale(b, p) = [b EXCEPT !.available = b.available - p.shares, !.closed = FALSE]
    <3>1. AfterSale(b, p) = [b EXCEPT !.available = b.available - p.shares]
      BY <1>3 DEF AfterSale
    <3>2. ASSUME NEW x
          PROVE  [b EXCEPT !.available = x] = [b EXCEPT !.available = x, !.closed = FALSE]
      BY <1>1 DEF BuyOrder
    <3> QED
      BY <3>1, <3>2
  <2>3. b.available - p.shares \in Nat
    BY <1>1
  <2>4. AfterSale(b, p) = Atomic!Sold(b, p.shares)
    BY <2>1, <2>2, Zenon DEF Atomic!Sold
  <2> QED
    BY <1>1, <2>1, <2>2, <2>3, <2>4 DEF BuyOrder
<1> QED
  BY <1>2, <1>3

LEMMA CommitSellKeepsTrades ==
  ASSUME TradesOK, NEW c \in Call, CommitSell(c)  PROVE TradesOK'
<1> DEFINE r == request[c]
           p == plan[c]
           o == r.order
           gain == Cost(p.price, p.shares)
           sale == [order |-> o, shares |-> p.shares, price |-> p.price]
<1>1. /\ status[c] = "open" /\ r.op = "sell" /\ CommitTxn(c)
      /\ status' = [status EXCEPT ![c] = "filled"]
      /\ plan' = [plan EXCEPT ![c] = NoPlan]
      /\ stock' = [stock EXCEPT ![p.stock].available = @ + p.shares]
      /\ balance' = [balance EXCEPT ![r.member] = @ + gain]
      /\ buyOrders' = [buyOrders EXCEPT ![o] = AfterSale(@, p)]
      /\ sellOrders' = With(sellOrders, c, sale)
      /\ UNCHANGED <<isActive, request>>
  BY DEF CommitSell
<1>2. /\ r \in Request /\ r.member \in Member /\ p \in Plan /\ p.stock \in Stock
      /\ p.price \in Nat /\ p.shares \in Share /\ p.shares \in Nat /\ p.shares > 0
      /\ p.full \in BOOLEAN /\ gain \in Nat /\ c \notin DOMAIN sellOrders
  BY <1>1, OpenCallOK
<1>3. Fresh(c)
  BY <1>1 DEF TradesOK, SnapshotFresh, CommitTxn
<1>4. /\ r.member \in DOMAIN balance /\ balance[r.member] \in Int
      /\ stock[p.stock].available \in Int
      /\ o \in DOMAIN buyOrders /\ o \in Call /\ buyOrders[o] \in BuyOrder
      /\ p.shares <= buyOrders[o].available
      /\ p.full <=> p.shares = buyOrders[o].available
  BY <1>1, <1>2, <1>3 DEF Fresh, OwnOpenOrder, TradesOK, SchemasOK
<1>5. /\ buyOrders[o].available \in Nat /\ buyOrders[o].shares \in Share
      /\ buyOrders[o].closed \in BOOLEAN
      /\ buyOrders[o].available \in 0..buyOrders[o].shares
      /\ buyOrders[o].closed <=> buyOrders[o].available = 0
  BY <1>4 DEF BuyOrder, TradesOK, NonNegative, ClosedMeansSoldOut
<1> HIDE DEF gain
<1>6. /\ AfterSale(buyOrders[o], p) \in BuyOrder
      /\ AfterSale(buyOrders[o], p).available = buyOrders[o].available - p.shares
      /\ AfterSale(buyOrders[o], p).closed <=> buyOrders[o].available = p.shares
      /\ AfterSale(buyOrders[o], p).shares = buyOrders[o].shares
  BY <1>2, <1>4, <1>5, AfterSaleOK
<1>7. /\ DOMAIN buyOrders' = DOMAIN buyOrders
      /\ buyOrders'[o] = AfterSale(buyOrders[o], p)
      /\ \A q \in DOMAIN buyOrders \ {o} : buyOrders'[q] = buyOrders[q]
      /\ buyOrders' \in [DOMAIN buyOrders -> BuyOrder]
  BY <1>1, <1>4, <1>6 DEF TradesOK, SchemasOK
<1>8. /\ DOMAIN sellOrders' = DOMAIN sellOrders \cup {c}
      /\ sellOrders' \in [DOMAIN sellOrders' -> SellOrder]
  <2>1. sale \in SellOrder
    BY <1>2, <1>4 DEF SellOrder
  <2> HIDE DEF sale
  <2> QED
    BY <1>1, <2>1 DEF With, TradesOK, SchemasOK
<1>9. SchemasOK'
  <2>1. DOMAIN balance' \subseteq Member /\ balance' \in [DOMAIN balance' -> Int]
    BY <1>1, <1>2, <1>4 DEF TradesOK, SchemasOK
  <2>2. stock' \in [Stock -> [price: Price, available: Int, listed: BOOLEAN]]
    BY <1>1, <1>2, <1>4 DEF TradesOK, SchemasOK
  <2>3. writeSet' = [d \in Call |-> writeSet'[d]]
    BY <1>1 DEF TradesOK, SchemasOK, CommitTxn, Outdated
  <2>4. status' \in [Call -> {"new", "received", "open"} \cup Answered]
    BY <1>1 DEF TradesOK, SchemasOK, Answered
  <2> QED
    BY <1>1, <1>7, <1>8, <2>1, <2>2, <2>3, <2>4 DEF TradesOK, SchemasOK, CommitTxn
<1>10. PlansOK'
  BY <1>1 DEF TradesOK, SchemasOK, PlansOK, CommitTxn
<1>11. OrderIdsOK'
  <2>1. sellOrders'[c].order = o
    BY <1>1 DEF With
  <2>2. \A x \in DOMAIN sellOrders \ {c} : sellOrders'[x] = sellOrders[x]
    BY <1>1 DEF With
  <2> HIDE DEF sale
  <2>3. \A x \in DOMAIN sellOrders' : sellOrders'[x].order \in DOMAIN buyOrders'
    BY <1>4, <1>7, <1>8, <2>1, <2>2 DEF TradesOK, OrderIdsOK
  <2> QED
    BY <1>1, <1>7, <1>8, <2>3 DEF TradesOK, SchemasOK, OrderIdsOK
<1>12. SnapshotFresh'
  <2> SUFFICES ASSUME NEW d \in Call, status'[d] = "open", d \notin stale'
               PROVE  Fresh(d)'
    BY DEF SnapshotFresh
  <2>1. /\ d # c /\ status[d] = "open" /\ Fresh(d)
        /\ request[d].member # r.member /\ plan[d].stock # p.stock
        /\ request[d].op = "sell" => request[d].order # o
    BY <1>1, SurvivorsAreDisjoint
  <2>2. plan[d].stock \in Stock
    BY <2>1, OpenCallOK
  <2>3. request'[d] = request[d] /\ plan'[d] = plan[d]
    BY <1>1, <2>1 DEF TradesOK, SchemasOK
  <2>4. request[d].member \in DOMAIN balance
    BY <2>1 DEF Fresh
  <2>5. DOMAIN balance' = DOMAIN balance /\ balance'[request[d].member] = balance[request[d].member]
    BY <1>1, <2>1, <2>4
  <2>6. stock'[plan[d].stock] = stock[plan[d].stock]
    BY <1>1, <2>1, <2>2 DEF TradesOK, SchemasOK
  <2>7. request[d].op = "sell" =>
          /\ DOMAIN buyOrders \subseteq DOMAIN buyOrders'
          /\ buyOrders'[request[d].order] = buyOrders[request[d].order]
    BY <1>7, <2>1 DEF Fresh, OwnOpenOrder
  <2> QED
    BY <1>1, <2>1, <2>3, <2>5, <2>6, <2>7, FreshIsLocal
<1>13. NonNegative'
  <2>1. \A s \in Stock : stock'[s].available >= 0
    BY <1>1, <1>2, <1>4 DEF TradesOK, NonNegative, SchemasOK
  <2>2. \A m \in DOMAIN balance' : balance'[m] >= 0
    BY <1>1, <1>2, <1>4 DEF TradesOK, NonNegative, SchemasOK
  <2>3. \A q \in DOMAIN buyOrders' : buyOrders'[q].available \in 0..buyOrders'[q].shares
    BY <1>2, <1>4, <1>5, <1>6, <1>7, MaxSharesIsNatural DEF TradesOK, NonNegative, Share
  <2> QED
    BY <2>1, <2>2, <2>3 DEF NonNegative
<1>14. ClosedMeansSoldOut'
  BY <1>2, <1>4, <1>5, <1>6, <1>7 DEF TradesOK, ClosedMeansSoldOut
<1> QED
  BY <1>9, <1>10, <1>11, <1>12, <1>13, <1>14 DEF TradesOK

\* An admin's write outdates the open transactions over the same document.
LEMMA SaveStatusKeepsTrades ==
  ASSUME TradesOK, NEW m \in Member, SaveStatus(m)  PROVE TradesOK'
<1>1. /\ isActive' = [isActive EXCEPT ![m] = ~@] /\ WriteNow({UserDoc(m)})
      /\ UNCHANGED <<stock, balance, buyOrders, sellOrders, calls>>
  BY DEF SaveStatus
<1>2. SchemasOK'
  <2>1. isActive' \in [Member -> BOOLEAN]
    BY <1>1 DEF TradesOK, SchemasOK
  <2> QED
    BY <1>1, <2>1 DEF TradesOK, SchemasOK, WriteNow, calls
<1>3. PlansOK' /\ OrderIdsOK'
  BY <1>1 DEF TradesOK, PlansOK, OrderIdsOK, WriteNow, calls
<1>4. SnapshotFresh'
  <2> SUFFICES ASSUME NEW d \in Call, status'[d] = "open", d \notin stale'
               PROVE  Fresh(d)'
    BY DEF SnapshotFresh
  <2>1. status[d] = "open" /\ d \notin stale /\ UserDoc(m) \notin writeSet[d]
    BY <1>1 DEF WriteNow, calls
  <2>2. Fresh(d) /\ request[d].member \in Member /\ request[d] \in Request
    BY <2>1, OpenCallOK DEF TradesOK, SnapshotFresh
  <2>3. request[d].member # m
    BY <2>1, <2>2 DEF TradesOK, PlansOK, BuyFootprint, SellFootprint, Request
  <2>4. isActive'[request[d].member] = isActive[request[d].member]
    BY <1>1, <2>2, <2>3 DEF TradesOK, SchemasOK
  <2> QED
    BY <1>1, <2>2, <2>4, FreshIsLocal DEF calls
<1>5. NonNegative' /\ ClosedMeansSoldOut'
  BY <1>1 DEF TradesOK, NonNegative, ClosedMeansSoldOut
<1> QED
  BY <1>2, <1>3, <1>4, <1>5 DEF TradesOK

LEMMA UpdateStockKeepsTrades ==
  ASSUME TradesOK, NEW s \in Stock, UpdateStock(s)  PROVE TradesOK'
<1>1. PICK p \in Price, a \in Restock \cup {stock[s].available}, l \in BOOLEAN :
        stock' = [stock EXCEPT ![s] = [price |-> p, available |-> a, listed |-> l]]
  BY DEF UpdateStock
<1>2. WriteNow({StockDoc(s)}) /\ UNCHANGED <<isActive, balance, buyOrders, sellOrders, calls>>
  BY DEF UpdateStock
<1>3. a \in Nat
  <2>1. stock[s].available \in Int /\ stock[s].available >= 0
    BY DEF TradesOK, SchemasOK, NonNegative
  <2> QED
    BY <2>1, RestockIsNatural
<1>4. SchemasOK'
  <2>1. stock' \in [Stock -> [price: Price, available: Int, listed: BOOLEAN]]
    BY <1>1, <1>3 DEF TradesOK, SchemasOK
  <2> QED
    BY <1>2, <2>1 DEF TradesOK, SchemasOK, WriteNow, calls
<1>5. PlansOK' /\ OrderIdsOK'
  BY <1>2 DEF TradesOK, PlansOK, OrderIdsOK, WriteNow, calls
<1>6. SnapshotFresh'
  <2> SUFFICES ASSUME NEW d \in Call, status'[d] = "open", d \notin stale'
               PROVE  Fresh(d)'
    BY DEF SnapshotFresh
  <2>1. status[d] = "open" /\ d \notin stale /\ StockDoc(s) \notin writeSet[d]
    BY <1>2 DEF WriteNow, calls
  <2>2. Fresh(d) /\ plan[d].stock \in Stock /\ request[d] \in Request
    BY <2>1, OpenCallOK DEF TradesOK, SnapshotFresh
  <2>3. plan[d].stock # s
    BY <2>1, <2>2 DEF TradesOK, PlansOK, BuyFootprint, SellFootprint, Request
  <2>4. stock'[plan[d].stock] = stock[plan[d].stock]
    BY <1>1, <2>2, <2>3 DEF TradesOK, SchemasOK
  <2> QED
    BY <1>2, <2>2, <2>4, FreshIsLocal DEF calls
<1>7. NonNegative' /\ ClosedMeansSoldOut'
  BY <1>1, <1>2, <1>3 DEF TradesOK, NonNegative, ClosedMeansSoldOut, SchemasOK
<1> QED
  BY <1>4, <1>5, <1>6, <1>7 DEF TradesOK
-------------------------------------------------------------------------------
\* Another service changes wallets and outdates who writes them too.
LEMMA OtherServiceKeepsTrades ==
  ASSUME TradesOK, UNCHANGED <<isActive, stock, buyOrders, sellOrders, calls>>, NEW docs,
         writeSet' = [d \in Call |-> writeSet'[d]],
         \A d \in Call : status[d] = "open" =>
           writeSet'[d] = writeSet[d] /\ (d \notin stale' => d \notin stale /\ writeSet[d] \cap docs = {}),
         DOMAIN balance \subseteq DOMAIN balance', DOMAIN balance' \subseteq Member,
         balance' \in [DOMAIN balance' -> Int], \A m \in DOMAIN balance' : balance'[m] >= 0,
         \A m \in DOMAIN balance : balance'[m] = balance[m] \/ WalletDoc(m) \in docs
  PROVE  TradesOK'
<1>1. SchemasOK'
  BY DEF TradesOK, SchemasOK, calls
<1>2. PlansOK' /\ OrderIdsOK' /\ ClosedMeansSoldOut' /\ NonNegative'
  BY DEF TradesOK, PlansOK, OrderIdsOK, ClosedMeansSoldOut, NonNegative, calls
<1>3. SnapshotFresh'
  <2> SUFFICES ASSUME NEW d \in Call, status'[d] = "open", d \notin stale'
               PROVE  Fresh(d)'
    BY DEF SnapshotFresh
  <2>1. status[d] = "open" /\ d \notin stale /\ writeSet[d] \cap docs = {}
    BY DEF calls
  <2>2. Fresh(d) /\ request[d] \in Request
    BY <2>1, OpenCallOK DEF TradesOK, SnapshotFresh
  <2>3. WalletDoc(request[d].member) \in writeSet[d]
    BY <2>1, <2>2 DEF TradesOK, PlansOK, BuyFootprint, SellFootprint, Request
  <2>4. /\ request[d].member \in DOMAIN balance
        /\ balance'[request[d].member] = balance[request[d].member]
    BY <2>1, <2>2, <2>3 DEF Fresh
  <2> QED
    BY <2>2, <2>4, FreshIsLocal DEF calls
<1> QED
  BY <1>1, <1>2, <1>3 DEF TradesOK

LEMMA NextKeepsTrades == TradesOK /\ [Next]_vars => TradesOK'
<1> SUFFICES ASSUME TradesOK, [Next]_vars PROVE TradesOK'
  OBVIOUS
<1>1. CASE UNCHANGED vars
  BY <1>1 DEF vars, books, calls, sessionVars, TradesOK, SchemasOK, PlansOK, OrderIdsOK,
     SnapshotFresh, Fresh, NonNegative, ClosedMeansSoldOut, OwnOpenOrder
<1>2. ASSUME NEW c \in Call, Receive(c) \/ Refuse(c)  PROVE TradesOK'
  BY <1>2, ReceiveKeepsTrades, RefuseKeepsTrades
<1>3. ASSUME NEW c \in Call, OpenBuy(c) \/ OpenSell(c)  PROVE TradesOK'
  BY <1>3, OpenBuyKeepsTrades, OpenSellKeepsTrades
<1>4. ASSUME NEW c \in Call, CommitBuy(c) \/ CommitSell(c)  PROVE TradesOK'
  BY <1>4, CommitBuyKeepsTrades, CommitSellKeepsTrades
<1>5. ASSUME NEW c \in Call, Conflict(c) \/ Fail(c)  PROVE TradesOK'
  BY <1>5, AbortKeepsTrades DEF Conflict, Fail
<1>6. ASSUME NEW m \in Member, SaveStatus(m)  PROVE TradesOK'
  BY <1>6, SaveStatusKeepsTrades
<1>7. ASSUME NEW s \in Stock, UpdateStock(s)  PROVE TradesOK'
  BY <1>7, UpdateStockKeepsTrades
<1> QED
  BY <1>1, <1>2, <1>3, <1>4, <1>5, <1>6, <1>7 DEF Next, CallStep, AdminStep

LEMMA InitTypes == Init => TypeOK
BY InitTrades DEF TradesOK, TypeOK, Init, SessionsInit, SessionsOK

\* Sessions that only trades use write documents of trades.
LEMMA NextKeepsTypes == IInv /\ [Next]_vars => TypeOK'
<1> SUFFICES ASSUME IInv, [Next]_vars
             PROVE  SessionsOK(Document)' /\ \A c \in Call : status'[c] # "open" => writeSet'[c] = {}
  BY NextKeepsTrades DEF IInv, TradesOK, TypeOK
<1> DEFINE Kept == /\ SessionsOK(Document)'
                   /\ \A c \in Call : status'[c] # "open" => writeSet'[c] = {}
<1>1. CASE UNCHANGED vars
  BY <1>1 DEF vars, calls, sessionVars, IInv, TypeOK, SessionsOK
<1>2. ASSUME NEW c \in Call, Receive(c) \/ Refuse(c)  PROVE Kept
  <2>1. UNCHANGED sessionVars /\ status[c] # "open"
        /\ \A d \in Call \ {c} : status'[d] = status[d]
    BY <1>2 DEF Receive, Refuse, IInv, TypeOK, SchemasOK
  <2> QED
    BY <2>1 DEF sessionVars, IInv, TypeOK, SessionsOK
<1>3. ASSUME NEW c \in Call, NEW docs \in SUBSET Document,
             status' = [status EXCEPT ![c] = "open"], OpenTxn(c, docs)
      PROVE  Kept
  BY <1>3 DEF IInv, TypeOK, SchemasOK, SessionsOK, OpenTxn
<1>4. ASSUME NEW c \in Call, OpenBuy(c)  PROVE Kept
  <2>1. request[c].member \in Member /\ request[c].stock \in Stock
    BY <1>4 DEF OpenBuy, IInv, TypeOK, SchemasOK, Request
  <2>2. BuyFootprint(request[c].member, request[c].stock) \in SUBSET Document
    BY <2>1 DEF BuyFootprint, Document, UserDoc, StockDoc, WalletDoc
  <2> QED
    BY <1>3, <1>4, <2>2 DEF OpenBuy
<1>5. ASSUME NEW c \in Call, OpenSell(c)  PROVE Kept
  <2>1. request[c].member \in Member /\ request[c].order \in Call
    BY <1>5 DEF OpenSell, IInv, TypeOK, SchemasOK, Request
  <2>2. request[c].order \in DOMAIN buyOrders
    BY <1>5, SellIsCovered DEF OpenSell, OwnOpenOrder
  <2>3. buyOrders[request[c].order].stock \in Stock
    BY <2>2 DEF IInv, TypeOK, SchemasOK, BuyOrder
  <2>4. SellFootprint(request[c].member, buyOrders[request[c].order].stock, request[c].order)
          \in SUBSET Document
    BY <2>1, <2>3 DEF SellFootprint, Document, UserDoc, StockDoc, WalletDoc, OrderDoc
  <2> QED
    BY <1>3, <1>5, <2>4 DEF OpenSell
<1>6. ASSUME NEW c \in Call, CommitBuy(c) \/ CommitSell(c)  PROVE Kept
  <2>1. CommitTxn(c) /\ \A d \in Call \ {c} : status'[d] = status[d]
    BY <1>6 DEF CommitBuy, CommitSell, IInv, TypeOK, SchemasOK
  <2> QED
    BY <2>1 DEF IInv, TypeOK, SchemasOK, SessionsOK, CommitTxn, Outdated
<1>7. ASSUME NEW c \in Call, Conflict(c) \/ Fail(c)  PROVE Kept
  <2>1. AbortTxn(c) /\ \A d \in Call \ {c} : status'[d] = status[d]
    BY <1>7 DEF Conflict, Fail, IInv, TypeOK, SchemasOK
  <2> QED
    BY <2>1 DEF IInv, TypeOK, SchemasOK, SessionsOK, AbortTxn
<1>8. CASE AdminStep
  BY <1>8 DEF AdminStep, SaveStatus, UpdateStock, WriteNow, calls, IInv, TypeOK, SessionsOK
<1> QED
  BY <1>1, <1>2, <1>4, <1>5, <1>6, <1>7, <1>8 DEF Next, CallStep

LEMMA NextKeepsIInv == IInv /\ [Next]_vars => IInv'
BY NextKeepsTrades, NextKeepsTypes DEF IInv

LEMMA InitIInv == Init => IInv
BY InitTrades, InitTypes DEF IInv

\* The inductive invariant holds of every run of orders.service.ts: in
\* particular, a transaction that can still commit has not been overtaken.
THEOREM TradingInvariant == Spec => []IInv
<1> QED
  BY InitIInv, NextKeepsIInv, PTL DEF Spec

\* Documents keep to their schemas: members, stocks, wallets and orders of the
\* trading calls.
THEOREM TypeCorrect == Spec => []TypeOK
<1>1. IInv => TypeOK
  BY DEF IInv, TradesOK
<1> QED
  BY <1>1, TradingInvariant, PTL

\* Racing buys and sells never oversell a stock or an order, nor overdraw a wallet.
THEOREM NothingOversold == Spec => []NonNegative
<1>1. IInv => NonNegative
  BY DEF IInv, TradesOK
<1> QED
  BY <1>1, TradingInvariant, PTL

\* An order carries closedAt exactly when nothing of it is left.
THEOREM ClosedOrdersAreSoldOut == Spec => []ClosedMeansSoldOut
<1>1. IInv => ClosedMeansSoldOut
  BY DEF IInv, TradesOK
<1> QED
  BY <1>1, TradingInvariant, PTL

\* A commit of a buy or sell finds its member active, suspended as he may have
\* been after the socket guard let him in.
THEOREM SuspendedMembersDoNotTrade == Spec => OnlyActiveMembersTrade
<1> DEFINE Step == \A c \in Call : status[c] # "filled" /\ status'[c] = "filled"
                                     => isActive[request[c].member]
<1>1. IInv /\ [Next]_vars => [Step]_vars
  <2> SUFFICES ASSUME IInv, Next, NEW c \in Call, status[c] # "filled", status'[c] = "filled"
               PROVE  isActive[request[c].member]
    BY DEF vars
  <2>1. CASE CommitBuy(c) \/ CommitSell(c)
    BY <2>1 DEF CommitBuy, CommitSell, CommitTxn, IInv, TradesOK, SnapshotFresh, Fresh
  <2>2. CASE ~(CommitBuy(c) \/ CommitSell(c))
    <3>1. ASSUME NEW d \in Call, status'[d] = "filled", status[d] # "filled",
                 Receive(d) \/ CallStep(d) \/ Fail(d)
          PROVE  CommitBuy(d) \/ CommitSell(d)
      <4>1. ~Refuse(d)
        <5> SUFFICES ASSUME Refuse(d) PROVE FALSE
          OBVIOUS
        <5>1. PICK why \in Outcomes(request[d]) \ {"ok"} : status' = [status EXCEPT ![d] = why]
          BY DEF Refuse
        <5>2. why \in Refusal
          BY <5>1, Zenon DEF Outcomes, BuyOutcomes, SellOutcomes, Refusal
        <5> QED
          BY <3>1, <5>1, <5>2 DEF Refusal, IInv, TypeOK, SchemasOK
      <4> QED
        BY <3>1, <4>1 DEF Receive, CallStep, OpenBuy, OpenSell, Conflict, Fail, IInv, TypeOK, SchemasOK
    <3>2. ASSUME NEW d \in Call \ {c}, Receive(d) \/ CallStep(d) \/ Fail(d)
          PROVE  status'[c] = status[c]
      BY <3>2 DEF Receive, CallStep, Refuse, OpenBuy, OpenSell, CommitBuy, CommitSell,
         Conflict, Fail, IInv, TypeOK, SchemasOK
    <3>3. ASSUME AdminStep  PROVE status' = status
      BY <3>3 DEF AdminStep, SaveStatus, UpdateStock, calls
    <3> QED
      BY <2>2, <3>1, <3>2, <3>3 DEF Next
  <2> QED
    BY <2>1, <2>2
<1> QED
  BY <1>1, TradingInvariant, PTL DEF Spec, OnlyActiveMembersTrade
-------------------------------------------------------------------------------
\* A step of a call that neither fills it nor touches the orders.
LEMMA NoNewOrder ==
  ASSUME OneOrderPerFilledRequest, NEW c \in Call, UNCHANGED <<buyOrders, sellOrders>>,
         status[c] # "filled", status'[c] # "filled",
         \A d \in Call \ {c} : status'[d] = status[d] /\ request'[d] = request[d]
  PROVE  OneOrderPerFilledRequest'
BY DEF OneOrderPerFilledRequest

LEMMA CommitLeavesOneOrder ==
  ASSUME IInv, OneOrderPerFilledRequest, NEW c \in Call, CommitBuy(c) \/ CommitSell(c)
  PROVE  OneOrderPerFilledRequest'
<1>1. /\ status[c] = "open" /\ status'[c] = "filled" /\ UNCHANGED request
      /\ \A d \in Call \ {c} : status'[d] = status[d]
  BY DEF CommitBuy, CommitSell, IInv, TypeOK, SchemasOK
<1>2. CASE request[c].op = "buy"
  <2>1. DOMAIN buyOrders' = DOMAIN buyOrders \cup {c} /\ UNCHANGED sellOrders
    BY <1>2 DEF CommitBuy, CommitSell, With
  <2> QED
    BY <1>1, <1>2, <2>1 DEF OneOrderPerFilledRequest
<1>3. CASE request[c].op = "sell"
  <2>1. DOMAIN sellOrders' = DOMAIN sellOrders \cup {c} /\ DOMAIN buyOrders' = DOMAIN buyOrders
    BY <1>3 DEF CommitBuy, CommitSell, With
  <2> QED
    BY <1>1, <1>3, <2>1 DEF OneOrderPerFilledRequest
<1> QED
  BY <1>2, <1>3 DEF CommitBuy, CommitSell

\* A buy or sell leaves one order if it is filled and none otherwise, although its
\* callback may have run and been aborted any number of times.
THEOREM FilledOnce == Spec => []OneOrderPerFilledRequest
<1>1. Init => OneOrderPerFilledRequest
  BY DEF Init, EmptyCollection, OneOrderPerFilledRequest
<1>2. IInv /\ OneOrderPerFilledRequest /\ [Next]_vars => OneOrderPerFilledRequest'
  <2> SUFFICES ASSUME IInv, OneOrderPerFilledRequest, [Next]_vars
               PROVE  OneOrderPerFilledRequest'
    OBVIOUS
  <2>1. CASE UNCHANGED vars
    BY <2>1 DEF vars, books, calls, OneOrderPerFilledRequest
  <2>2. ASSUME NEW c \in Call, CommitBuy(c) \/ CommitSell(c)  PROVE OneOrderPerFilledRequest'
    BY <2>2, CommitLeavesOneOrder
  <2>3. ASSUME NEW c \in Call, Refuse(c)  PROVE OneOrderPerFilledRequest'
    <3>1. PICK why \in Outcomes(request[c]) \ {"ok"} : status' = [status EXCEPT ![c] = why]
      BY <2>3 DEF Refuse
    <3>2. why \in Refusal
      BY <3>1, Zenon DEF Outcomes, BuyOutcomes, SellOutcomes, Refusal
    <3>3. why # "filled"
      BY <3>2 DEF Refusal
    <3> QED
      BY <2>3, <3>1, <3>3, NoNewOrder DEF Refuse, books, IInv, TypeOK, SchemasOK
  <2>4. ASSUME NEW c \in Call, \/ Receive(c) \/ OpenBuy(c) \/ OpenSell(c) \/ Conflict(c) \/ Fail(c)
        PROVE  OneOrderPerFilledRequest'
    BY <2>4, NoNewOrder DEF Receive, OpenBuy, OpenSell, Conflict, Fail, books, IInv, TypeOK, SchemasOK
  <2>5. CASE AdminStep
    BY <2>5 DEF AdminStep, SaveStatus, UpdateStock, calls, OneOrderPerFilledRequest
  <2> QED
    BY <2>1, <2>2, <2>3, <2>4, <2>5 DEF Next, CallStep
<1> QED
  BY <1>1, <1>2, TradingInvariant, PTL DEF Spec
-------------------------------------------------------------------------------
\* A committed buy is a buy of Exchange: at today's price, for an active member,
\* within today's shares and money.
LEMMA CommitBuyIsBuy ==
  ASSUME IInv, NEW c \in Call, CommitBuy(c)
  PROVE  Atomic!Buy(request[c].member, plan[c].stock, plan[c].shares, c)
<1> DEFINE r == request[c]
           p == plan[c]
<1>1. Fresh(c) /\ status[c] = "open" /\ r.op = "buy"
  BY DEF CommitBuy, CommitTxn, IInv, TradesOK, SnapshotFresh
<1>2. c \notin DOMAIN buyOrders
  BY <1>1, OpenCallOK DEF IInv
<1>3. /\ isActive[r.member] /\ stock[p.stock].listed /\ stock[p.stock].available >= p.shares
      /\ r.member \in DOMAIN balance /\ p.price = stock[p.stock].price
      /\ balance[r.member] >= Cost(stock[p.stock].price, p.shares)
  BY <1>1 DEF Fresh
<1> QED
  BY <1>2, <1>3 DEF CommitBuy, Atomic!Buy, Atomic!Cost, Atomic!With, Cost, With

\* A committed sell is a sell of Exchange, whether it closes its order or not.
LEMMA CommitSellIsSell ==
  ASSUME IInv, NEW c \in Call, CommitSell(c)
  PROVE  Atomic!Sell(request[c].member, request[c].order, plan[c].shares, c)
<1> DEFINE r == request[c]
           p == plan[c]
           o == r.order
<1>1. Fresh(c) /\ status[c] = "open" /\ r.op = "sell"
  BY DEF CommitSell, CommitTxn, IInv, TradesOK, SnapshotFresh
<1>2. c \notin DOMAIN sellOrders /\ p \in Plan /\ p.shares \in Nat /\ p.shares > 0
  BY <1>1, OpenCallOK DEF IInv
<1>3. /\ isActive[r.member] /\ r.member \in DOMAIN balance
      /\ o \in DOMAIN buyOrders /\ buyOrders[o].owner = r.member
      /\ p.stock = buyOrders[o].stock /\ p.price = stock[p.stock].price
      /\ p.shares <= buyOrders[o].available
      /\ p.full <=> p.shares = buyOrders[o].available
  BY <1>1 DEF Fresh, OwnOpenOrder
<1>4. buyOrders[o] \in BuyOrder /\ (buyOrders[o].closed <=> buyOrders[o].available = 0)
  BY <1>3 DEF IInv, TradesOK, SchemasOK, ClosedMeansSoldOut
<1>5. AfterSale(buyOrders[o], p) = Atomic!Sold(buyOrders[o], p.shares)
  BY <1>2, <1>3, <1>4, AfterSaleOK
<1>6. buyOrders' = [buyOrders EXCEPT ![o] = Atomic!Sold(buyOrders[o], p.shares)]
  <2>1. buyOrders' = [buyOrders EXCEPT ![o] = AfterSale(buyOrders[o], p)]
    BY DEF CommitSell
  <2> QED
    BY <1>5, <2>1
<1> QED
  BY <1>2, <1>3, <1>6 DEF CommitSell, Atomic!Sell, Atomic!Cost, Atomic!With, Cost, With
\* Trading implements Exchange: transactions on snapshots, reruns, crashes and
\* racing admins notwithstanding, each trade happens in one step.
THEOREM TradesAreAtomic == Spec => AtomicTrading
<1>1. Init => Atomic!Init
  <2> SUFFICES ASSUME Init PROVE Atomic!Init
    OBVIOUS
  <2>1. isActive \in [Member -> BOOLEAN]
    BY DEF Init
  <2>2. stock \in [Stock -> [price: Price, available: Nat, listed: BOOLEAN]]
    BY InitialSharesIsNatural DEF Init
  <2>3. \E holders \in SUBSET Member : balance \in [holders -> Nat]
    BY InitialBalanceIsNatural DEF Init
  <2>4. buyOrders = Atomic!EmptyCollection /\ sellOrders = Atomic!EmptyCollection
    BY DEF Init, EmptyCollection, Atomic!EmptyCollection
  <2> QED
    BY <2>1, <2>2, <2>3, <2>4 DEF Atomic!Init
<1>2. IInv /\ [Next]_vars => [Atomic!Next]_(Atomic!books)
  <2> SUFFICES ASSUME IInv, [Next]_vars PROVE Atomic!Next \/ UNCHANGED books
    BY DEF books, Atomic!books
  <2>1. CASE UNCHANGED vars
    BY <2>1 DEF vars, books
  <2>2. ASSUME NEW c \in Call, CommitBuy(c)  PROVE Atomic!Next
    <3>1. /\ request[c].member \in Member /\ plan[c].stock \in Stock
          /\ plan[c].shares \in Atomic!Share
      BY <2>2, OpenCallOK DEF IInv, CommitBuy, Share, Atomic!Share
    <3> QED
      BY <2>2, <3>1, CommitBuyIsBuy DEF Atomic!Next
  <2>3. ASSUME NEW c \in Call, CommitSell(c)  PROVE Atomic!Next
    <3>1. request[c].member \in Member /\ plan[c].shares \in Atomic!Share
      BY <2>3, OpenCallOK DEF IInv, CommitSell, Share, Atomic!Share
    <3>2. request[c].op = "sell" /\ request[c] \in Request
      BY <2>3, OpenCallOK DEF IInv, CommitSell
    <3>3. request[c].order \in Call
      BY <3>2 DEF Request
    <3> QED
      BY <2>3, <3>1, <3>3, CommitSellIsSell DEF Atomic!Next
  <2>4. ASSUME NEW c \in Call, \/ Receive(c) \/ Refuse(c) \/ OpenBuy(c) \/ OpenSell(c)
                               \/ Conflict(c) \/ Fail(c)
        PROVE  UNCHANGED books
    BY <2>4 DEF Receive, Refuse, OpenBuy, OpenSell, Conflict, Fail
  <2>5. ASSUME NEW m \in Member, SaveStatus(m)  PROVE Atomic!Next
    BY <2>5 DEF SaveStatus, Atomic!Next, Atomic!SetActive
  <2>6. ASSUME NEW s \in Stock, UpdateStock(s)  PROVE Atomic!Next
    BY <2>6 DEF UpdateStock, Atomic!Next, Atomic!Relist
  <2> QED
    BY <2>1, <2>2, <2>3, <2>4, <2>5, <2>6 DEF Next, CallStep, AdminStep
<1> QED
  BY <1>1, <1>2, TradingInvariant, PTL DEF Spec, AtomicTrading, Atomic!Spec
===============================================================================
