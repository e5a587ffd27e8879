-------------------------------- MODULE Trading --------------------------------
(***************************************************************************)
(* Market orders as orders.service.ts runs them.  A buy or a sell is one   *)
(* withTransaction() callback over the member, the stock, the wallet and,  *)
(* for a sell, the buy order it closes.  Any number of them run at once,   *)
(* next to the admin writes that suspend a member or edit a stock, and any *)
(* of them can die at any moment.                                          *)
(*                                                                         *)
(* A request is received, opens a transaction whose callback either is     *)
(* refused or decides what to do (its plan) on the snapshot it reads, and  *)
(* commits the plan or, when another writer got there first, starts again. *)
(* What happens after the commit (cache, e-mail, reply) is in Portfolio.   *)
(***************************************************************************)
EXTENDS Collections, MongoSessions

CONSTANTS Member, Stock,
          MaxShares,       \* the largest number of shares a request may name
          Price,           \* prices an admin may set
          Restock,         \* share counts an admin may set
          InitialShares,   \* shares of a stock before any trade
          InitialBalance,  \* the wallets before any trade, by member
          NoRequest,       \* of a call nobody has made yet
          NoPlan           \* of a call without an open transaction

ASSUME MaxSharesIsNatural == MaxShares \in Nat
ASSUME PricesAreNatural   == Price \subseteq Nat
ASSUME RestockIsNatural   == Restock \subseteq Nat
ASSUME InitialSharesIsNatural  == InitialShares \in Nat
ASSUME InitialBalanceIsNatural ==
  /\ DOMAIN InitialBalance \subseteq Member
  /\ InitialBalance \in [DOMAIN InitialBalance -> Nat]

VARIABLES isActive,    \* isActive[m]: users.isActive
          stock,       \* stock[s]: currentPrice, availableShares, isListed
          balance,     \* wallets.balance, defined on the members with a wallet
          buyOrders,   \* buy_orders by id; the id is the call that placed it
          sellOrders,  \* sell_orders by id
          status,      \* how far each call is, or why it was refused
          request,     \* what each call asks for
          plan         \* what its open transaction will write

books == <<isActive, stock, balance, buyOrders, sellOrders>>
calls == <<status, request, plan>>
vars  == <<books, calls, sessionVars>>

Share == 1..MaxShares
All   == 0     \* dto.numberOfShares left out: sell what is left of the order

Request == [op: {"buy"}, member: Member, stock: Stock, shares: Share]
             \cup [op: {"sell"}, member: Member, order: Call, shares: Share \cup {All}]
Plan    == [stock: Stock, shares: Share, price: Nat, full: BOOLEAN]

Refusal == {"Account is inactive", "Stock not found or not listed",
            "Insufficient available shares", "Insufficient wallet balance",
            "Open order not found", "Sell shares cannot exceed available shares",
            "Wallet not found"}
Answered == Refusal \cup {"filled", "failed"}

BuyOrder  == [owner: Member, stock: Stock, shares: Share, available: Nat,
              cost: Nat, closed: BOOLEAN]
SellOrder == [order: Call, shares: Share, price: Nat]

UserDoc(m)   == <<"user", m>>
StockDoc(s)  == <<"stock", s>>
WalletDoc(m) == <<"wallet", m>>
OrderDoc(o)  == <<"order", o>>
Document == {"user", "wallet"} \X Member \cup {"stock"} \X Stock \cup {"order"} \X Call

-------------------------------------------------------------------------------
Init == /\ isActive = [m \in Member |-> TRUE]
        /\ \E price \in [Stock -> Price] :
             stock = [s \in Stock |-> [price |-> price[s], available |-> InitialShares,
                                       listed |-> TRUE]]
        /\ balance = InitialBalance
        /\ buyOrders = EmptyCollection
        /\ sellOrders = EmptyCollection
        /\ status = [c \in Call |-> "new"]
        /\ request = [c \in Call |-> NoRequest]
        /\ plan = [c \in Call |-> NoPlan]
        /\ SessionsInit

\* The socket guard lets an active member's message through; the member may be
\* suspended by the time the call reads him again.
Receive(c) == /\ status[c] = "new"
              /\ \E r \in Request : /\ isActive[r.member]
                                    /\ request' = [request EXCEPT ![c] = r]
              /\ status' = [status EXCEPT ![c] = "received"]
              /\ UNCHANGED <<books, plan, sessionVars>>

\* What the callback of a buy can come to on this snapshot.  $inc by -0 modifies
\* a balance stored as an integer, not one stored as a double, and a wallet
\* that was not modified is taken for one that is too small.
BuyOutcomes(m, s, n) ==
  LET cost == Cost(stock[s].price, n) IN
    IF ~isActive[m] THEN {"Account is inactive"}
    ELSE IF ~stock[s].listed THEN {"Stock not found or not listed"}
    ELSE IF stock[s].available < n THEN {"Insufficient available shares"}
    ELSE IF m \notin DOMAIN balance THEN {"Insufficient wallet balance"}
    ELSE IF balance[m] < cost THEN {"Insufficient wallet balance"}
    ELSE IF cost = 0 THEN {"ok", "Insufficient wallet balance"} ELSE {"ok"}

OwnOpenOrder(m, o) == /\ o \in DOMAIN buyOrders
                      /\ buyOrders[o].owner = m
                      /\ buyOrders[o].available > 0

\* Faulty variant: the rest is taken for the whole order.
SharesToSellWhole(o, n) == IF n = All THEN buyOrders[o].shares ELSE n

SharesToSell(o, n) == IF n = All THEN buyOrders[o].available ELSE n

\* The same for a sell.  $inc by 0 never modifies the wallet, so worthless
\* shares cannot be sold.
SellOutcomes(m, o, n) ==
  IF ~isActive[m] THEN {"Account is inactive"}
  ELSE IF ~OwnOpenOrder(m, o) THEN {"Open order not found"}
  ELSE IF n > buyOrders[o].available THEN {"Sell shares cannot exceed available shares"}
  ELSE IF \/ m \notin DOMAIN balance
          \/ Cost(stock[buyOrders[o].stock].price, SharesToSell(o, n)) = 0
       THEN {"Wallet not found"}
  ELSE {"ok"}

Outcomes(r) == IF r.op = "buy" THEN BuyOutcomes(r.member, r.stock, r.shares)
                               ELSE SellOutcomes(r.member, r.order, r.shares)

Refuse(c) == /\ status[c] = "received"
             /\ \E why \in Outcomes(request[c]) \ {"ok"} :
                  status' = [status EXCEPT ![c] = why]
             /\ UNCHANGED <<books, request, plan, sessionVars>>

\* Faulty variants: a document is read but not written; no session is used.
BuyFootprintNoUser(m, s)    == {StockDoc(s), WalletDoc(m)}
BuyFootprintNoStock(m, s)   == {UserDoc(m), WalletDoc(m)}
BuyFootprintNoSession(m, s) == {}

\* Buying writes the member (lastTradingActivityAt), the stock and the wallet;
\* selling writes the order as well.  The new orders are nobody else's.
BuyFootprint(m, s)     == {UserDoc(m), StockDoc(s), WalletDoc(m)}
SellFootprint(m, s, o) == {UserDoc(m), StockDoc(s), WalletDoc(m), OrderDoc(o)}

OpenBuy(c) ==
  LET r == request[c] IN
    /\ status[c] = "received" /\ r.op = "buy"
    /\ "ok" \in BuyOutcomes(r.member, r.stock, r.shares)
    /\ status' = [status EXCEPT ![c] = "open"]
    /\ plan' = [plan EXCEPT ![c] = [stock |-> r.stock, shares |-> r.shares,
                                    price |-> stock[r.stock].price, full |-> FALSE]]
    /\ OpenTxn(c, BuyFootprint(r.member, r.stock))
    /\ UNCHANGED <<books, request>>

\* Faulty variant: only a sell without a share count closes the order.
SellPlanFullIfAll(o, n) ==
  [stock |-> buyOrders[o].stock, shares |-> SharesToSell(o, n),
   price |-> stock[buyOrders[o].stock].price, full |-> n = All]

\* The plan of selling n shares (or the rest) of order o on this snapshot.
SellPlan(o, n) ==
  [stock |-> buyOrders[o].stock, shares |-> SharesToSell(o, n),
   price |-> stock[buyOrders[o].stock].price,
   full |-> SharesToSell(o, n) = buyOrders[o].available]

OpenSell(c) ==
  LET r == request[c] IN
    /\ status[c] = "received" /\ r.op = "sell"
    /\ "ok" \in SellOutcomes(r.member, r.order, r.shares)
    /\ status' = [status EXCEPT ![c] = "open"]
    /\ plan' = [plan EXCEPT ![c] = SellPlan(r.order, r.shares)]
    /\ OpenTxn(c, SellFootprint(r.member, buyOrders[r.order].stock, r.order))
    /\ UNCHANGED <<books, request>>
-------------------------------------------------------------------------------
CommitBuy(c) ==
  LET r == request[c]
      p == plan[c]
  IN /\ status[c] = "open" /\ r.op = "buy"
     /\ stock' = [stock EXCEPT ![p.stock].available = @ - p.shares]
     /\ balance' = [balance EXCEPT ![r.member] = @ - Cost(p.price, p.shares)]
     /\ buyOrders' = With(buyOrders, c,
                          [owner |-> r.member, stock |-> p.stock, shares |-> p.shares,
                           available |-> p.shares, cost |-> p.price, closed |-> FALSE])
     /\ status' = [status EXCEPT ![c] = "filled"]
     /\ plan' = [plan EXCEPT ![c] = NoPlan]
     /\ CommitTxn(c)
     /\ UNCHANGED <<isActive, sellOrders, request>>

\* Faulty variant: every sell closes the order.
AfterSaleAlwaysFull(order, p) == [order EXCEPT !.available = 0, !.closed = TRUE]

\* The order a sell of p leaves behind: a full close sets 0 and closedAt.
AfterSale(order, p) ==
  IF p.full THEN [order EXCEPT !.available = 0, !.closed = TRUE]
            ELSE [order EXCEPT !.available = @ - p.shares]

CommitSell(c) ==
  LET r == request[c]
      p == plan[c]
  IN /\ status[c] = "open" /\ r.op = "sell"
     /\ buyOrders' = [buyOrders EXCEPT ![r.order] = AfterSale(@, p)]
     /\ stock' = [stock EXCEPT ![p.stock].available = @ + p.shares]
     /\ balance' = [balance EXCEPT ![r.member] = @ + Cost(p.price, p.shares)]
     /\ sellOrders' = With(sellOrders, c,
                           [order |-> r.order, shares |-> p.shares, price |-> p.price])
     /\ status' = [status EXCEPT ![c] = "filled"]
     /\ plan' = [plan EXCEPT ![c] = NoPlan]
     /\ CommitTxn(c)
     /\ UNCHANGED <<isActive, request>>

\* Faulty variants: the callback is not run again; the wallet update or the new
\* order was written outside the session and survives the abort.
ConflictIgnored(c) == FALSE /\ UNCHANGED vars
ConflictKeepsDebit(c) ==
  /\ status[c] = "open" /\ c \in stale
  /\ status' = [status EXCEPT ![c] = "received"]
  /\ balance' = [balance EXCEPT ![request[c].member] = @ - Cost(plan[c].price, plan[c].shares)]
  /\ plan' = [plan EXCEPT ![c] = NoPlan]
  /\ AbortTxn(c)
  /\ UNCHANGED <<isActive, stock, buyOrders, sellOrders, request>>
ConflictKeepsSale(c) ==
  /\ status[c] = "open" /\ c \in stale
  /\ status' = [status EXCEPT ![c] = "received"]
  /\ IF request[c].op = "sell"
     THEN sellOrders' = With(sellOrders, c, [order |-> request[c].order,
                                             shares |-> plan[c].shares, price |-> plan[c].price])
     ELSE UNCHANGED sellOrders
  /\ plan' = [plan EXCEPT ![c] = NoPlan]
  /\ AbortTxn(c)
  /\ UNCHANGED <<isActive, stock, balance, buyOrders, request>>

\* The transaction lost to another writer: its callback runs again.
Conflict(c) == /\ status[c] = "open" /\ c \in stale
               /\ status' = [status EXCEPT ![c] = "received"]
               /\ plan' = [plan EXCEPT ![c] = NoPlan]
               /\ AbortTxn(c)
               /\ UNCHANGED <<books, request>>

\* The process or its connection dies, or the retries take too long.
Fail(c) == /\ status[c] \in {"received", "open"}
           /\ status' = [status EXCEPT ![c] = "failed"]
           /\ plan' = [plan EXCEPT ![c] = NoPlan]
           /\ AbortTxn(c)
           /\ UNCHANGED <<books, request>>

\* An admin suspends or reinstates a member: user.save().
SaveStatus(m) == /\ isActive' = [isActive EXCEPT ![m] = ~@]
                 /\ WriteNow({UserDoc(m)})
                 /\ UNCHANGED <<stock, balance, buyOrders, sellOrders, calls>>

\* PATCH or DELETE /stocks/:ticker: findOneAndUpdate.
UpdateStock(s) ==
  /\ \E p \in Price, a \in Restock \cup {stock[s].available}, l \in BOOLEAN :
       stock' = [stock EXCEPT ![s] = [price |-> p, available |-> a, listed |-> l]]
  /\ WriteNow({StockDoc(s)})
  /\ UNCHANGED <<isActive, balance, buyOrders, sellOrders, calls>>

CallStep(c) == \/ Refuse(c) \/ OpenBuy(c) \/ OpenSell(c)
               \/ CommitBuy(c) \/ CommitSell(c) \/ Conflict(c)

AdminStep == (\E m \in Member : SaveStatus(m)) \/ (\E s \in Stock : UpdateStock(s))

Next == (\E c \in Call : Receive(c) \/ CallStep(c) \/ Fail(c)) \/ AdminStep

Spec == Init /\ [][Next]_vars

\* The event loop and the driver keep serving every request.
FairSpec == Spec /\ \A c \in Call : WF_vars(CallStep(c))
-------------------------------------------------------------------------------
\* Documents keep to their schemas, a call has a plan exactly while its transaction
\* is open, and each has a session.
SchemasOK ==
  /\ isActive \in [Member -> BOOLEAN]
  /\ stock \in [Stock -> [price: Price, available: Int, listed: BOOLEAN]]
  /\ DOMAIN balance \subseteq Member /\ balance \in [DOMAIN balance -> Int]
  /\ DOMAIN buyOrders \subseteq Call /\ buyOrders \in [DOMAIN buyOrders -> BuyOrder]
  /\ DOMAIN sellOrders \subseteq Call /\ sellOrders \in [DOMAIN sellOrders -> SellOrder]
  /\ status \in [Call -> {"new", "received", "open"} \cup Answered]
  /\ request \in [Call -> Request \cup {NoRequest}]
  /\ plan \in [Call -> Plan \cup {NoPlan}]
  /\ \A c \in Call : /\ status[c] # "new" => request[c] \in Request
                     /\ status[c] = "open" => plan[c] \in Plan
                     /\ status[c] # "open" => plan[c] = NoPlan
  /\ writeSet = [c \in Call |-> writeSet[c]]

\* ... and as long as no other service uses sessions, they write documents of the
\* trades only, and only while a transaction is open.
TypeOK == /\ SchemasOK
          /\ SessionsOK(Document)
          /\ \A c \in Call : status[c] # "open" => writeSet[c] = {}

\* What the plan of c was decided on holds of the database.
Fresh(c) ==
  LET r == request[c]
      p == plan[c]
  IN /\ isActive[r.member] /\ r.member \in DOMAIN balance
     /\ p.price = stock[p.stock].price
     /\ r.op = "buy" => /\ stock[p.stock].listed
                        /\ stock[p.stock].available >= p.shares
                        /\ balance[r.member] >= Cost(p.price, p.shares)
     /\ r.op = "sell" => /\ OwnOpenOrder(r.member, r.order)
                         /\ p.stock = buyOrders[r.order].stock
                         /\ p.shares <= buyOrders[r.order].available
                         /\ p.full <=> p.shares = buyOrders[r.order].available

\* A transaction that can still commit has not been overtaken: what its plan was
\* decided on is still true of the database.  This is what makes it safe to
\* check on a snapshot and write later.
SnapshotFresh == \A c \in Call : status[c] = "open" /\ c \notin stale => Fresh(c)

\* No share count and no balance goes below zero, whatever buys and sells race
\* for them.  The filters with $gte are checked on snapshots, the $inc's that
\* rely on them happen later.
NonNegative ==
  /\ \A s \in Stock : stock[s].available >= 0
  /\ \A m \in DOMAIN balance : balance[m] >= 0
  /\ \A o \in DOMAIN buyOrders : buyOrders[o].available \in 0..buyOrders[o].shares

\* closedAt is set exactly on the orders with nothing left to sell, although the
\* full close is decided on a snapshot and written by a $set, not by a $inc.
ClosedMeansSoldOut ==
  \A o \in DOMAIN buyOrders : buyOrders[o].closed <=> buyOrders[o].available = 0

\* An open transaction writes what its plan is about, a buy's plan is its
\* request's.
PlansOK ==
  \A c \in Call : status[c] = "open" =>
    LET r == request[c]
        s == plan[c].stock
    IN /\ r.op = "buy" => s = r.stock /\ writeSet[c] = BuyFootprint(r.member, s)
       /\ r.op = "sell" => writeSet[c] = SellFootprint(r.member, s, r.order)

\* An order bears the name of the call that was filled, and a sell order names one
\* that was bought.
OrderIdsOK ==
  /\ \A c \in DOMAIN buyOrders \cup DOMAIN sellOrders : status[c] = "filled"
  /\ \A x \in DOMAIN sellOrders : sellOrders[x].order \in DOMAIN buyOrders

\* The safety properties above need each other.  This much of the inductive
\* invariant is not disturbed by another service that writes the same wallets.
TradesOK == /\ SchemasOK /\ PlansOK /\ OrderIdsOK
            /\ SnapshotFresh /\ NonNegative /\ ClosedMeansSoldOut

\* The inductive invariant.
IInv == TypeOK /\ TradesOK

\* No order is placed, and none is sold from, in the name of a member who is
\* suspended at that moment: assertActiveMemberForTrading() does not only read
\* the member, it writes him.
OnlyActiveMembersTrade ==
  [][\A c \in Call : status[c] # "filled" /\ status'[c] = "filled"
       => isActive[request[c].member]]_vars

\* What the calls promise: every trade is one step at the current price.
Atomic == INSTANCE Exchange WITH OrderId <- Call
AtomicTrading == Atomic!Spec

\* Once the admins leave the stocks and the members alone, every request gets
\* its answer: transactions that keep outdating each other cannot go on for ever.
EveryRequestAnswered ==
  <>[][~AdminStep]_vars =>
    \A c \in Call : status[c] = "received" ~> status[c] \in Answered
===============================================================================
