# Verification of the trading platform

TLA+ models, TLC runs and TLAPS proofs for the NestJS trading backend in this
repository: members and their accounts, wallets, market orders, stocks, price
alerts, and the reports computed from them. Paths
below are relative to the repository's `src/` directory.

    tlc -workers 2 -config MCTrading.cfg MCTrading     # one run
    tlapm TradingProofs.tla                            # the proofs about one module

## The system

The backend is one Node process, or several of them, in front of a MongoDB
replica set, Redis, RabbitMQ, Stripe and a mail server. A handler runs until its
next `await`; there any other handler, of any process, gets in. The state that
matters is outside: collections, Redis keys, queued messages.

| Component | State | Operations that change it | Talks to | What makes it correct |
|---|---|---|---|---|
| Market orders (`orders/orders.service.ts`) | `buy_orders`, `sell_orders`, and, in the same transactions, `stocks.availableShares`, `wallets.balance`, `users.lastTradingActivityAt` | market buy, market sell (partial, full) | MongoDB transactions | nothing is oversold, no share or cent is lost, a trade is one step at the price of that step, suspended members do not trade |
| Portfolio summary, order gateway (`orders/orders.gateway.ts`) | `portfolio-summary:{userId}` in Redis | evict after a trade, fill on a read; events to the socket | Redis, mail | the client is told what happened; stale summaries have few causes and do not last |
| Wallets (`wallets/wallets.service.ts`, called from `cms/cms.controller.ts` too) | `wallets`, `wallet_transactions`, `withdrawals_requests`, `audit_trail` | deposit session, Stripe webhook, withdrawal request, review, manual adjustment | Stripe, MongoDB transactions, mail | a paid session is credited once, a balance is the sum of its movements and never negative, one pending request, paid if and only if approved, an audit trail that is true |
| Stocks (`stocks/stocks.service.ts`, `stocks/schemas/stock.schema.ts`) | `stocks`, `stock_history`, `stocks:catalogue:*`, `stocks:price:*` | create, update, delist; reads fill the caches | Redis, RabbitMQ | a price change is published and its old version kept; caches recover |
| RabbitMQ wrapper (`rabbitmq/`) | connection, channel, consumer | publish, consume, ack, nack | broker | only handled messages are acknowledged; what reaches the queue is handled |
| Price alerts (`stock-alerts/`) | `stock_alerts` | create, cancel, handle a price event | RabbitMQ, mail | an alert triggers when its threshold is crossed, and its member is mailed once |
| Sign-up and login (`auth/`) | `signup:*`, `verified:*` in Redis, `users` | register, verify OTP, set password, login | Redis, mail, users, CMS accounts | a member is made of what he registered and proved; one account per address over two collections; who was given a password can log in |
| CMS accounts (`cms/cms.service.ts`) | `cms_accounts` | seed, create | mail | the same |
| Member status (`users/users.service.ts`) | `users.isActive`, status log | suspend, reinstate | MongoDB | the log tells the changes in their order |
| Guards (`auth/guards`, `cms/guards`) | none | admit or refuse a request | users | a suspended member's next request is refused |
| Transaction history (`wallets.service.ts`) | none of its own | a read of four collections, one by one | MongoDB | a page is a page of the whole |
| Analytics (`analyst/`) | none of its own | aggregations | MongoDB | the reports agree with the books and with each other |

What is hard here: transactions that check on a snapshot and write later,
callbacks that are run again after a conflict, filters like `$gte` and statuses
used as compare-and-set, webhooks and messages that come twice, side effects after
a commit (cache, mail, event) that fail or race, absolute writes by admins over
counters that trades move, and values that are read before an `await` and used after it.
`PROJECT.json` lists these hazards at their lines.

## Modules

| Module | Role |
|---|---|
| `MongoSessions` | what the services rely on MongoDB for: `withTransaction()` as snapshot, write set, conflict, rerun |
| `Collections` | cost of shares, collections as functions that grow |
| `Exchange` | abstract: trading one step at a time |
| `Trading` | the two transactions of `orders.service.ts`, suspensions and stock edits |
| `TradingBooks` | sums over the orders of `Trading` |
| `Reports` | portfolio summary, analyst's totals, volumes and rankings, as operators on `Trading` |
| `Sums` | sums of integers, defined by cardinalities |
| `Portfolio` | what follows a trade: eviction, mail, summary, events |
| `Account` | abstract: money moves by posting entries |
| `Wallets` | deposits, withdrawals, reviews, adjustments |
| `Platform` | `Wallets` and `Trading` on the same wallets, as one `Account` |
| `TransactionHistory` | a page of a member's history, read while it grows |
| `Accounts` | sign-up, login, CMS accounts, suspensions and their log |
| `StockPrices` | one stock, its history, caches and price events |
| `StockAlerts` | price events from the exchange to the mailbox |
| `TradingProofs`, `ReportsProofs`, `PlatformProofs`, `PortfolioProofs`, `StockPricesProofs`, `StockAlertsProofs`, `AccountsProofs`, `TransactionHistoryProofs` | the proofs about each of them; those about `Wallets` are in `PlatformProofs` |
| `MCTrading`, `MCPlatform`, `MCWallets`, `MCPortfolio`, `MCStockPrices`, `MCStockAlerts`, `MCAccounts`, `MCTransactionHistory` | instances for TLC |

`Trading` and `Wallets` extend `MongoSessions` and `Collections`. `Trading` is refined to
`Exchange`; `Platform`, which puts the two together, is refined to `Account`. The
other modules are connected by what they assume of each other: `Portfolio` takes
a trade as one step, which `AtomicTrading` shows; `StockAlerts` takes any
sequence of price events, which includes every one that `StockPrices` publishes;
`TransactionHistory` takes any write that `Wallets` and `Trading` can make of a document.
Definitions named after a real operator with a
suffix (`BuyFootprintNoStock`, `FailAnswered200`, ...) are faulty variants, each
marked as such in its comment; no action uses them. They show that the
properties can fail: with the variant in the place of the original, the property
is violated in the very run that checks it.

### MongoSessions

A callback of `withTransaction()` has two visible moments. It *opens*: all it
reads is fixed, so its checks, its outcome and its writes (the *plan*) are
decided. It *commits*: the plan happens. In between, a commit or a plain write of
another session to a document of its write set makes it *stale*; a stale
transaction cannot commit and its callback is run again from the start
(`TransientTransactionError`). Two inserts of one unique key conflict like two
writes of a document: between open transactions the server reports a write conflict, not the
duplicate key that the webhook takes for a repeated session (`wallets.service.ts:239`). WiredTiger detects most conflicts earlier, at the write; the later
detection admits every behaviour of the earlier one that commits. Writes
outside of transactions are single steps. Documents that are read but not written by
a transaction are not protected, and the models do not protect them.

### Trading

| Code | Model |
|---|---|
| guard admits the message, `handleMarketBuyOrder` | `Receive` (the member is active *then*) |
| callback with its checks in their order, a throw | `Refuse`, with the code's message as the new `status` |
| callback that gets through | `OpenBuy`, `OpenSell`: the plan holds shares, price and, for a sell, whether it closes the order |
| the four or five writes and the commit | `CommitBuy`, `CommitSell` |
| rerun, crash or give-up | `Conflict`, `Fail` |
| `user.save()` of a suspension | `SaveStatus` |
| `PATCH`/`DELETE /stocks/:ticker` | `UpdateStock`: any price, any absolute share count of `Restock`, listed or not |

The write to the member document in `assertActiveMemberForTrading()` is in the
footprint, which is what serialises trades with suspensions. `$inc` by 0 modifies
nothing: at price 0 a sell ends as "Wallet not found"; a buy ends as
"Insufficient wallet balance" when the balance is stored as an integer and goes
through when it is a double (`$inc` by -0), so both are outcomes. A sell may
concern a delisted stock, as in the code. Orders are named after the call
that made them. Amounts are whole: rounding of doubles is not modelled.

### Wallets

Deliveries of a webhook have slots that they use again and again, so that one
session is delivered any number of times, concurrently too, even after
Stripe has had its 2xx. The other calls happen once each. `requestWithdrawal()` is three
steps (read the wallet, look for a pending request, insert) because it has no
transaction; the insert is decided by the partial unique index. Approvals,
rejections and adjustments are transactions whose plans hold the balance before
and after. `Fail` strikes between any two steps: before the commit it takes the
transaction with it, after the commit only the mail and the answer. `Mail`
may fail, which the code logs. The withdrawal delay is 0 in this
build (`wallets.service.ts:88`) and refuses nobody.

### Platform

The services meet in `wallets.balance`. Every call has a slot in both modules and
is served by one of them; `Platform` shares the variables `balance`, `writeSet` and `stale`
between `Wallets` and an instance of `Trading`, so that a buy conflicts with the
approval of a withdrawal on the wallet document as it does in MongoDB. The
abstract account has one entry per wallet transaction, buy order and
sell order. Suspensions and stock edits touch no wallet and are left to `Trading`.

### Reports

Operators on the state of `Trading`: `Totals` is the summary of `getPortfolioSummary()`,
`ProfitLoss` what a sell order records, `TotalAum`, `SharesTraded`, `ValueTraded`,
`TradeCount` and `MemberTrades` the aggregations of `analyst.service.ts`. They read one
state; the code's aggregations of one report are several queries, which is listed as a hazard.

### Portfolio

What a trade does to the database is one step here: `AtomicTrading` is what permits
that. What the process learns of it is modelled separately:

| `withTransaction()` | Model |
|---|---|
| returns: the commit is acknowledged | `Fill` |
| throws before a commit is sent | `Refuse` |
| sends the commit, hears nothing, gives up and throws | `LoseCommit`: the trade is in `inDoubt`, the client is told `order_rejected` |
| (the process dies while the commit is under way) | `Crash`, which puts the trade in `inDoubt` too |
| such a commit has taken effect, or does later | `CommitInDoubt`, or never |

`Trading` has no need of this: its statuses are what became of a request in the
database, not what its client was told.

A summary is the *set of trades it reflects*, so that "stale" can be said.
Everything after the commit is a step of its own: the eviction, the mail, the
lookup, the query, the store, the answer. Any read of the summary may fail, and
the process may die with every call in flight. A command that Redis was sent is done, or
is not, by the time of the error or death that follows it. The constant
`MayMissEviction` says whether Redis can be out of reach for an eviction. The
variables `known` and `clean` only observe, and `inDoubt` has no effect but on what is yet to be committed.

### TransactionHistory

A read is six steps: the wallet, the four queries in any order (they are started
together), the answer. A query returns its newest documents up to
`FetchLimit`, in any order among those of one instant, as MongoDB may. The initial
states are all pasts of three documents: ids, kinds, times on two days, an approved
request with the transaction it became. Filters, limits and pages are
enumerated. `Whole` is the definition the pages are held against; it is
written from the documents, not from the queries. `Merge` says where each document
of each answer comes in the sorted history (`Place`), instead of how it is
sorted: before all that are older, and among those of one instant in the order of `flat()`,
which the stable `sort()` keeps.

### Accounts

Six operations (`register`, `verifyOtp`, `setPassword`, `login`, `createCmsUser`,
the status change) and the start of a process, each access to MongoDB or Redis and
each mail a step, and each able to fail before any of them. Both Redis keys expire at any
time. A code stands for the registration it was sent for, so `code` of a member
says whose data he was made of. Slots are used again and again; codes are what
bounds the model. The last five variables only observe.

### StockPrices and StockAlerts

One stock, of which only the price is kept, since the caches, the hook and the
event are about nothing else; an update that leaves the price alone (a delisting) has
price `None`. The stock may not exist yet: `create()` inserts it, and of two
creations one meets the unique index. `updateByTicker()` is seven steps: read, hook, write, evict,
delete, refresh, publish. `findAll()` is the look into the cache (`CatalogueHit`, `CatalogueMiss`), the query
(`ReadStock`) and the store. `unpublished`, `saved` and `replaced` only observe.

Alerts are of one ticker. Messages come from an arbitrary publisher. Until a process
consumes for the first time there is no queue, and they are lost (`unrouted`); after
that they wait. A process that does not reach the broker when it starts never consumes
(`rabbitmq.service.ts:62`), which for the queue is the same as no process: `consumer` is "gone".
Messages are given to the handler up to the prefetch limit, and settled by ack or
nack, or come back after a crash.
The handler's loop triggers the alerts it has found, in any order (the query
does not sort), by compare-and-set, and mails each before it goes on. Its queries can fail
(`QueryFails`), and so can the notification of a member (`NotificationFails`), whose mail may have been
sent nevertheless; either leaves the loop and drops the message (`Nack`). The constant `Failing` says which of the
two an instance has. Mails are counted.

## Runs

| Run | Instance | Checks |
|---|---|---|
| `trading_races` | 2 members, 1 stock of 3 shares, 3 calls of up to 2 shares, 1 price, suspensions, delistings | `TypeOK`, `NonNegative`, `ClosedMeansSoldOut`, `SharesConserved`, `SalesMatchOrders`, `OneOrderPerFilledRequest`, `ReportsCountEveryTrade`, `OnlyActiveMembersTrade` |
| `trading_prices` | 1 member, 2 stocks, 2 calls, prices 0 and 2, restocking | `IInv`, `BooksInv`, `ProfitsExplainWealth`, `AtomicTrading` (refines `Exchange`), `TradesKeepAum`, `EveryRequestAnswered` |
| `platform` | 1 member, 1 session, 1 delivery slot, 3 other calls of either service, 1 stock | `PlatformInv`, `AtMostOnePending`, `PaidIffApproved`, `ToldTheOutcomeOnce`, `AdjustmentsAudited`, `KeepsOneAccount` (refines `Account`) |
| `wallet_retries` | 1 session of a member without a wallet, 2 delivery slots, 2 other calls, fairness | `OnlyPaidIsCredited`, `AcknowledgedMeansCredited`, `PaidIsCredited` |
| `portfolio_cache` | 3 calls of any kind, lost commit acknowledgements, failing evictions and reads, crashes | `BuyersAreToldTheTruth`, `SummariesAreCurrent`, `StalenessEnds` |
| `prices_races` | 3 creations, updates or reads, 2 prices, failures anywhere | `UndisturbedVersionsAreKept`, `UndisturbedChangesArePublished`, `CachesConverge` |
| `alerts_races` | 2 messages, 2 alerts, 3 prices, prefetch 2, crashes, starts without a broker, failing queries and notifications | `MailedOnce`, `TriggersCross`, `AckedMeansHandled`, `EventsAreSettled` |
| `accounts` | 2 slots used over and over, 1 address beside the seeded one, 2 codes, 2 passwords | `MembersAreWhoTheySay`, `LateRequestsAreRefused`, `OwnersCanLogIn`, `LostPasswordsAreReported`, `LogTellsTheStatus` |
| `history_pages` | 3 documents at 3 instants of 2 days, every filter, limits 1 and 2, 2 pages, 1 overlapping write | `QuietPagesAreExact`, `OverlappedPagesMissOnlyApprovals` |

Three more runs refute a sentence of the documentation; they are the findings below.

Why these bounds. The races are between two calls about one document; a third
call makes the chains: a buy, a sell of it, and a second sell or a rival buy; a
request, its approval, and a rejection or a debit. Three shares and requests of up to two make the last shares
contested and sells both partial and full. Two stocks that share a wallet are
needed for buys that conflict on nothing but the member and his money. Threshold
alerts need a price below, at and above: three prices. All calls of an instance
start in any order and are symmetric, so symmetry is used in runs without
liveness properties. `Price = {2}` and `Restock = {}` in `trading_races` because
`SharesConserved` holds only as long as nobody overwrites the count, and cost is
settled by the other run. In `platform` every amount and price is 1: a wallet can
hold 0 to 3, enough for any two of the debits, a buy among them, to compete for the last
unit; a delivery slot is used again and again, so that one session is delivered any
number of times. What needs two deliveries at once is `wallet_retries`; there a deposit and
a manual credit race to create the wallet, which is what two first deposits do. Two members' wallets share no document, so one
member is enough. In `accounts` two requests overlap at a time and a third and fourth follow
when a slot is free: everything that goes wrong between the collections or the two Redis
keys does so between two requests. One national id and one address make every
pair of registrations compete. In `history_pages` a page is cut twice, by the
limit of each query and by the page; three documents and pages of one and two
put the cuts before, at and after the end.

Deadlock is checked in `trading_races`, `trading_prices`, `platform` and
`wallet_retries`, where admins or Stripe can always act; the other systems come to
rest when all calls are answered, codes are used up or the page has been read.

### Fairness

- A call that can take its next step does so in the end (`WF` of the steps of each call): the
  event loop and the drivers serve every request. Arrivals,
  payments, admin actions and failures are never fair.
- `EveryRequestAnswered` assumes that the admins' writes stop. Then the calls
  can outdate each other, but only by committing, so each is answered.
- `PaidIsCredited`: Stripe delivers a session again while it has not got a 2xx, and
  failures do not strike every delivery of it at the same point: strong fairness, per
  session, of the delivery and of each of its steps in some slot. Weak fairness is not enough, for
  a crash disables the step, and neither is fairness per slot needed: it does
  not matter which of the deliveries gets through.
- TTLs run out (`WF` of `Expire...`), which Redis guarantees.
- `EventsAreSettled` assumes that from some time on a process consumes. That one starts
  again, or reaches the broker when it does, is not promised by the code and not
  assumed fair.

## Findings

1. `portfolio_sell_rejected`. If loading the summary fails after the sale has
   committed and the database has acknowledged it, the client gets `order_rejected` (`src/orders/orders.gateway.ts:89`).
2. `prices_events`. A price change can be published with a previous price that it did not replace,
   or not at all, if another update gets in between (`src/stocks/stocks.service.ts:149`).
3. `alerts_skipped`. When the notification about one alert fails, the alerts after it do not
   trigger, and the message is dropped (`src/stock-alerts/stock-alerts.service.ts:105`). In this
   instance only notifications fail: of two alerts found the first triggers, and the second stays active.

The weaker statements that do hold are checked beside them:
`BuyersAreToldTheTruth`, `UndisturbedChangesArePublished`, `AckedMeansHandled`.

Other weaknesses are written into the properties as exceptions, so that these say
exactly how far the damage goes:

- `withTransaction()` can throw although the trade is committed, because the acknowledgement is lost
  and it stops retrying (`orders.service.ts:107`). The client is told `order_rejected` of a filled
  order (`orders.gateway.ts:61`), and nothing is evicted: trades in `inDoubt` are the exception of `BuyersAreToldTheTruth`
  and are not `clean` in `SummariesAreCurrent`.
- The summary that answers a sell can lack the sell, when a read that queried before the
  commit (`orders.service.ts:373`) stores after the eviction: the exceptions
  of `SummariesAreCurrent`; it ends by `StalenessEnds`.
- The first of two overlapping updates can leave no version in `stock_history`
  (`stock.schema.ts:87`): the second case of `UndisturbedVersionsAreKept`.
- An address can become a member's and a CMS account's, when the sign-up and the
  creation overlap, and then the CMS account cannot log in (`auth.service.ts:168`): `LateRequestsAreRefused`,
  `OwnersCanLogIn`.
- Of two overlapping status changes of one member the log can end with the wrong one
  (`users.service.ts:155`): the exception of `LogTellsTheStatus`.
- A withdrawal that is approved while a page is read can be shown twice or not at all
  (`wallets.service.ts:449`): `OverlappedPagesMissOnlyApprovals`.

## What is proved

TLC checks the instances above; TLAPS proves the following for every set of
members, stocks, sessions, calls, alerts, messages, codes and documents, every price set, share
count and balance, every limit and page. No theorem rests on another assumption than those of
[Assumptions](#assumptions).

| Module | Theorem | Statement |
|---|---|---|
| `TradingProofs` | `TradingInvariant`, `TypeCorrect` | `Spec => []IInv`, `Spec => []TypeOK` |
| | `NothingOversold` | `Spec => []NonNegative` |
| | `ClosedOrdersAreSoldOut` | `Spec => []ClosedMeansSoldOut` |
| | `FilledOnce` | `Spec => []OneOrderPerFilledRequest` |
| | `SuspendedMembersDoNotTrade` | `Spec => OnlyActiveMembersTrade` |
| | `TradesAreAtomic` | `Spec => AtomicTrading`: `Trading` implements `Exchange` |
| `ReportsProofs` | `BooksInvariant` | `Spec => []BooksInv` |
| | `OrdersAreBalanced` | `Spec => []SalesMatchOrders` |
| | `NoShareIsLost` | `Spec => []SharesConserved`, if `Restock = {}` |
| | `ReportsExplainWealth` | `Spec => []ProfitsExplainWealth` |
| | `ReportsAgree` | `Spec => []ReportsCountEveryTrade` |
| | `TradesMakeNothing` | `Spec => TradesKeepAum` |
| `PlatformProofs`, about `Wallets` | `WalletsInvariant`, `TypeCorrect` | `Spec => []IInv`, `Spec => []TypeOK` |
| | `CreditsArePayments` | `Spec => []OnlyPaidIsCredited` |
| | `NoPaymentIsLost` | `Spec => []AcknowledgedMeansCredited` |
| | `RequestsAreExclusive` | `Spec => []AtMostOnePending` |
| | `ReviewsPayOnce` | `Spec => []PaidIffApproved` |
| | `MailsTellTheOutcome` | `Spec => []ToldTheOutcomeOnce` |
| | `TrailsAreTrue` | `Spec => AdjustmentsAudited` |
| `PlatformProofs`, about `Platform` | `PlatformInvariant` | `PlatformSpec => []PlatformInv` |
| | `OneAccount` | `PlatformSpec => KeepsOneAccount`: `Platform` implements `Account` |
| `PortfolioProofs` | `PortfolioInvariant` | `Spec => []IInv` |
| | `BuyersLearnTheOutcome` | `Spec => []BuyersAreToldTheTruth` |
| | `SummariesShowCleanTrades` | `Spec => []SummariesAreCurrent` |
| `StockPricesProofs` | `StockPricesInvariant` | `Spec => []IInv` |
| | `ReplacedVersionsAreKept` | `Spec => []UndisturbedVersionsAreKept` |
| | `ChangesArePublished` | `Spec => []UndisturbedChangesArePublished` |
| `StockAlertsProofs` | `StockAlertsInvariant` | `Spec => []IInv` |
| | `MembersAreMailedOnce` | `Spec => []MailedOnce` |
| | `TriggeredAlertsWereCrossed` | `Spec => []TriggersCross` |
| | `AcknowledgedMeansHandled` | `Spec => []AckedMeansHandled` |
| `AccountsProofs` | `AccountsInvariant` | `Spec => []IInv` |
| | `MembersProvedTheirAddress` | `Spec => []MembersAreWhoTheySay` |
| | `TakenAddressesAreRefused` | `Spec => []LateRequestsAreRefused` |
| | `LoginsSucceed` | `Spec => []OwnersCanLogIn` |
| | `UnmailedPasswordsAreErrors` | `Spec => []LostPasswordsAreReported` |
| | `LogIsTheHistory` | `Spec => LogTellsTheStatus` |
| `TransactionHistoryProofs` | `HistoryInvariant` | `Spec => []IInv` |
| | `PagesAreExact` | `Spec => []QuietPagesAreExact` |
| | `PagesMissOnlyApprovals` | `Spec => []OverlappedPagesMissOnlyApprovals` |

Each proof has an inductive invariant, which stands at the end of its module under
"Why it works", a lemma for each action that preserves it, and the theorems as
consequences of it and, for action properties and refinements, of the current step.

### Trading

`NonNegative` is not inductive: a commit subtracts what it has
planned on an old snapshot, whatever the database holds by then. What saves it is
that a transaction that has not been outdated still finds the database as it was where it
looked, `SnapshotFresh`. That is kept by a commit of another call because the
write set of a survivor is disjoint from what has been written
(`SurvivorsAreDisjoint`), and because everything `Fresh` speaks of is in
the write set (`FreshIsLocal`); for that the write sets must be the
footprints of the plans, `PlansOK`. An order's id must be new when it is
made, `OrderIdsOK`. `ClosedMeansSoldOut` is needed in the refinement, where the
abstract sale computes `closed` from the count and the code from the plan. All but the
types is `TradesOK`, a conjunct of its own because it is what another service that
writes the same wallets leaves true.

### Reports

`SharesConserved` and `SalesMatchOrders` say that sums over the orders agree, and
no recursive definition can be reasoned about in this prover. `Sums` therefore
defines a sum by counting: of a function with natural values it is the number of pairs
of an element and one of its units. What a sum gains when a term is added or changed
(`TotalOfOneMore`, `TotalOfOneChanged`), that it is additive (`TotalOfSum`) and that
it may be taken over the parts of a partition (`TotalOfParts`) are facts about cardinalities, the
last ones by induction over a finite set, written with the property as a set
(`FiniteSetInduction`). That `Total` is the usual sum is compared on small
functions in `TotalsAreSums`, an assumption of `MCTrading` which TLC evaluates.

`BooksInv` is inductive on top of `IInv`: besides `SalesMatchOrders` it holds
`CashIsExplained`, that a member's money and his shares *at cost* are what he started with and
what he has realized. The summary's unrealized gain is the difference of value and
cost of the same shares, whence `ProfitsExplainWealth` at any price. A step of the
system buys, sells, or leaves orders and wallets alone (`BookSteps`), so that every sum has one lemma for
each. `TradesKeepAum` needs in addition that a closed order, which `TotalAum` leaves out, is
worth nothing, before and after the step: `ClosedMeansSoldOut` again.

### Wallets and Platform

The argument of `Trading`: `PlansOK`, `SnapshotFresh`, and writes that are local to write sets. Around it stand
the records: each is named after a call, and the call is where it must be to have left
it, `RecordsOK`; what is committed is announced by one call only, `AnnouncementsOK`
and `MailsOK`. `AcknowledgedMeansCredited` joins them because a delivery that finds the session
credited acknowledges it too. `AtMostOnePending` is not decided by the look for a pending
request but by the insert, and the proof uses nothing else.

`PlatformInv` is both invariants, and that a call is served by one service,
`SlotsOK`. A step of either service keeps its own by the lemmas of its own module and
the other's because it writes at most a wallet document, which it makes the other's open transactions
stale for: `OtherServiceKeepsTrades`, `OtherServiceKeepsWallets`, lemmas of
`TradingProofs` and `PlatformProofs`. The refinement of `Account` then has one
lemma per committing action (`CommitDepositPosts`, `CommitApprovePosts`, `CommitAdjustPosts`,
`CommitBuyPosts`, `CommitSellPosts`): it posts one entry, and the balance after it is not negative, since
the plan was fresh.

### Portfolio, StockPrices, StockAlerts, Accounts

- `Portfolio`: where a call is says whether its trade is in the database, `CallsOK`, with one
  exception, and a trade in that exception is over for the process and was never evicted, `DoubtOK`: from these two follows
  `BuyersAreToldTheTruth`. Whatever is cached, or read and about to be cached, contains every clean trade,
  `CacheOK`; a trade that a call knew of when it looked is answered, and hence evicted,
  `KnownIsAnswered`; a trade that becomes clean later is neither known nor the call's own, so
  a summary in hand stays as current as it was, `AnswersOK`.
- `StockPrices`: the price that an update has read is the stock's until *another* update
  replaces it, `UpdatesOK`. The exceptions in the two properties are exactly these `Overtaken`s.
- `StockAlerts`: a handler that is mailing is the only one about its alert, `NotifyingOK`;
  every alert it found and no longer lists is dealt with, `HandlersOK`.
- `Accounts`: what the Redis keys of an address hold was made for it, `KeysOK`, and so
  was what a request has taken from them, `CodesOK`, although the keys change under it.
  `TakenOK` follows a request for a taken address through its two looks, of which one meets the account.
  `PasswordsOK` and `AccountsOK` tie what was told to what is stored. `StatusOK`: while no two changes overlap, the
  one under way has seen what the log tells.

### TransactionHistory

That four cut answers make the right page is a fact about finite total orders, and is
proved without induction over sequences. In such an order, the number of elements up to
and with an element is an injection into `1..n`, hence a bijection, because both sets
have `n` elements (`PlacesAreNumbers`): so `Merge` is a sequence that has each
entry once (`MergeIsInPlace`, `MergeIsSorted`, `MergeHasAll`, `MergeIsInjective`). A document that a
query cut off comes after `FetchLimit` others *of its own source*; therefore everything up to the
`FetchLimit`-th place is in the answers, and has the same place there as in the whole
(`CutKeepsPlaces`, `CutsAgree`). With one more document than the page can show,
`hasMore` is right as well; this is where the limit without the `+ 1` fails.

`IInv` is about a read that is overlapped. `FoundOK`: what an answer tells of is still there
with the time it was found with, and each answer is full or lacks nothing of what there was at the start but
approved requests; the writes go on while the other queries wait, so this must survive
every one of them. They do no more than add documents and approve or reject requests, which keep
their times and, but for an approval, stay wanted by the same queries (`DocumentsStay`, `MeanwhileOK`).
`StartOK` carries this from the start of the read to each query.
`DocsOK`, that only an approved request shares its id with another document, which is
its transaction, is why nothing else is shown twice. A last first page that says so holds fewer
documents than any query's limit, so no answer was cut, whence the first part of
`OverlappedPagesMissOnlyApprovals`.

### Inductive invariants and TLC

`IInv` of `Trading` and `BooksInv` are properties of `trading_prices`;
`PlatformInv`, with `IInv` of `Wallets` and `TradesOK`, is one of `platform`. The
other modules' `IInv` hold in the instances of the runs as well, which
takes `INVARIANT IInv` in the cfg: `portfolio_cache` (1274056 states), `prices_races` (1347260),
`alerts_races` (1048031), `accounts` (1984969), `history_pages` (5197444).

### Assumptions

Named where the constants are declared, and evaluated by TLC in the runs:

- `Trading`: prices, share counts and initial balances are natural numbers (the
  schemas' `min: 0`, and whole amounts, see below).
- `Reports`: finitely many members and stocks, without which a sum over them is none.
- `Wallets`: amounts are positive (the DTOs demand it), deliveries are calls. `None` is
  neither a job nor a plan; likewise `None` in `Accounts` and `StockPrices`: it marks what is absent.
- `Platform`: the same as for `Trading`, for the constants it is given.
- `Accounts`: the seeded address is an address. `StockAlerts`: thresholds and prices are numbers, the prefetch
  limit is a positive number. `TransactionHistory`: there are finitely many documents, the time and the
  periods of queries are natural numbers, limits and pages are positive (the DTO's `@Min(1)`).
  `Portfolio` and `StockPrices`: switches for failures are Booleans; `StockAlerts`: `Failing` is a set of failures it knows.

`NoShareIsLost` has the hypothesis `Restock = {}`: an admin who sets a share
count makes or destroys shares, and nothing else does.

What is assumed of MongoDB is in `MongoSessions`: definitions, not axioms, which
the proofs use as they stand.

### Only model-checked

- Liveness and its fairness: `EveryRequestAnswered`, `PaidIsCredited`, `StalenessEnds`,
  `CachesConverge`, `EventsAreSettled`. The prover has no rules for `WF`, `SF` and `ENABLED`.
- The findings, which are counterexamples.

## Not modelled

- Of the analytics: periods, buckets, the order and the pages of the rankings, the
  allocation to sectors. They select and arrange what the modelled sums add up. The registration
  metrics and the profile are single reads.
- Of the stock catalogue: its pages and search, the pages of the version history, and a change of
  the ticker, which leaves the cached price of the old name to its TTL.
- Of the accounts: age, names, roles, hashes and tokens, which are computed from one request;
  requests that name the seeded super admin's address; registrations of one national
  id under two addresses, which the instance is too small for although the module allows them.
- Mail formatting, filters, interceptors, pipes, environment: no state, no order.
- The role guards are predicates of one request. Only the guards' look at
  `isActive` matters to the other parts and is in `Trading`.
- That two first users of the RabbitMQ client may both connect, and the scan of `deleteByPattern()`.
- Doubles: `amount * 100` for Stripe, costs and balances with cents.

## Plan

Done, in this order because the money is the most important: `Trading` with its
refinement and proofs, `Wallets`, `Portfolio`, `StockPrices`, `StockAlerts`; then the
composition `Platform`, `Accounts`, `TransactionHistory` and `Reports`; then the proofs about
`Wallets` and `Platform`, of the modules around them, of the sums in `Reports`, and of the
merge and the cuts in `TransactionHistory`. Every invariant and action property that the
passing runs check is proved now, and so are both refinements.

Next:

1. The three findings as facts about every instance: how far each goes, from the invariants
   that are there.
2. Two pages of one history, read one after the other: that nothing is on both holds
   only if no two documents share an instant, since nothing else orders them.
