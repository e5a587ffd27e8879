-------------------------------- MODULE Platform --------------------------------
(***************************************************************************)
(* Wallets and Trading on the same wallets.  A buy debits and a sell       *)
(* credits the balance that deposits, withdrawals and adjustments move;    *)
(* the transactions of both services conflict on the wallet document, and  *)
(* nothing else keeps the services apart.                                  *)
(*                                                                         *)
(* A call is served either by wallets.service.ts or by orders.service.ts.  *)
(* A movement of money leaves its entry in wallet_transactions if it is    *)
(* the former's and in an order if it is the latter's.                     *)
(***************************************************************************)
EXTENDS Wallets

CONSTANTS Stock, MaxShares, Price, Restock, InitialShares

ASSUME TradingConstants == /\ MaxShares \in Nat /\ InitialShares \in Nat
                           /\ Price \subseteq Nat /\ Restock \subseteq Nat

VARIABLES isActive, stock, buyOrders, sellOrders,
          tradeStatus, tradeRequest, tradePlan

T == INSTANCE Trading WITH status <- tradeStatus, request <- tradeRequest, plan <- tradePlan,
                           InitialBalance <- EmptyCollection,
                           NoRequest <- None, NoPlan <- None

\* What only one of the services touches.
walletVars  == <<checkout, deposited, transactions, withdrawals, auditTrail, calls>>
tradingVars == <<isActive, stock, buyOrders, sellOrders, tradeStatus, tradeRequest, tradePlan>>
platformVars == <<walletVars, tradingVars, balance, sessionVars>>

PlatformInit == Init /\ T!Init

WalletStep ==
  /\ \/ \E s \in Session : OpenCheckout(s) \/ Pay(s) \/ \E c \in Delivery : Deliver(c, s)
     \/ \E c \in Call : \/ tradeStatus[c] = "new" /\ Submit(c)
                        \/ CallStep(c)
                        \/ Fail(c)
  /\ UNCHANGED tradingVars

\* Suspensions and stock edits touch no wallet: they are left to Trading.
TradingStep ==
  /\ \E c \in Call \ Delivery : \/ status[c] = "idle" /\ T!Receive(c)
                                \/ T!CallStep(c)
                                \/ T!Fail(c)
  /\ UNCHANGED walletVars

PlatformNext == WalletStep \/ TradingStep

PlatformSpec == PlatformInit /\ [][PlatformNext]_platformVars
-------------------------------------------------------------------------------
(***************************************************************************)
(* The one account the two services keep.                                  *)
(***************************************************************************)
BuyRef(o)  == <<"buy_order", o>>
SellRef(o) == <<"sell_order", o>>

BuyEntry(order) == [member |-> order.owner, delta |-> -Cost(order.cost, order.shares)]
SaleEntry(sale, order) == [member |-> order.owner, delta |-> Cost(sale.price, sale.shares)]

TradeEntries ==
  [ref \in {BuyRef(o) : o \in DOMAIN buyOrders} \cup {SellRef(o) : o \in DOMAIN sellOrders} |->
     LET o == ref[2]
     IN IF ref[1] = "buy_order"
        THEN BuyEntry(buyOrders[o])
        ELSE SaleEntry(sellOrders[o], buyOrders[sellOrders[o].order])]

\* Two collections with no id in common as one.
Together(f, g) == [x \in DOMAIN f \cup DOMAIN g |-> IF x \in DOMAIN f THEN f[x] ELSE g[x]]

Entries == Together(LedgerEntries, TradeEntries)

Proceeds == {Cost(p, n) : p \in Price, n \in T!Share}
Moves    == Amount \cup Proceeds

PlatformAccounts ==
  INSTANCE Account WITH
    balance   <- [m \in Member |-> BalanceOf(m)],
    entries   <- Entries,
    Reference <- Reference \cup {"buy_order", "sell_order"} \X Call,
    Delta     <- Moves \cup {-d : d \in Moves}

\* Deposits, withdrawals, adjustments and trades that overlap on one wallet post
\* their entries one at a time: none is lost, none is counted twice and none takes
\* the wallet below zero.  Each callback computes on its snapshot, and only the
\* conflict on the wallet document keeps it from overwriting what came in between.
KeepsOneAccount == PlatformAccounts!Spec
-------------------------------------------------------------------------------
(***************************************************************************)
(* Why it works: each service keeps its invariant through the steps of the *)
(* other, because they meet only in wallets that both of them write.       *)
(***************************************************************************)
\* A slot is used by one of the services.
SlotsOK == \A c \in Call : tradeStatus[c] # "new" => status[c] = "idle" /\ c \notin Delivery

\* Each service finds the wallets as its own steps would have left them: callbacks
\* that can still commit have not been overtaken by either of the two.
PlatformInv == IInv /\ T!TradesOK /\ SlotsOK
===============================================================================
