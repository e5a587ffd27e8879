------------------------------ MODULE StockPrices ------------------------------
(***************************************************************************)
(* One stock as stocks.service.ts creates, reads and changes it: the       *)
(* document, the hook that keeps its old versions in stock_history, the    *)
(* two caches in Redis and the price event for RabbitMQ.                   *)
(*                                                                         *)
(* An update awaits the database, Redis and the broker eight times; other  *)
(* requests get in at every await.  Of the document only the price is      *)
(* kept: an update that leaves it alone, a delisting say, has price None.  *)
(***************************************************************************)
EXTENDS Naturals

CONSTANTS Call, Price,
          MayFail,     \* whether Redis and the broker can be out of reach
          None,        \* no price
          Absent       \* no such stock

ASSUME StockPricesAssumption == MayFail \in BOOLEAN /\ {None, Absent} \cap Price = {}

VARIABLES price,       \* stocks.currentPrice, Absent before the stock is created
          history,     \* the prices in stock_history
          catalogue,   \* stocks:catalogue:*, by the price it shows, if any
          priceCache,  \* stocks:price:{TICKER}
          published,   \* the events handed to the broker
          unpublished, \* the updates whose publish() has returned false
          job, pc,
          seen,        \* seen[c]: the price c has read
          saved,       \* saved[c]: the price c's hook has kept
          replaced     \* replaced[c]: the price c's write has overwritten

db     == <<price, history>>
redis  == <<catalogue, priceCache>>
broker == <<published, unpublished>>
memory == <<seen, saved, replaced>>
vars   == <<db, redis, broker, job, pc, memory>>

Job == [op : {"update"}, price : Price \cup {None}] \cup [op : {"create"}, price : Price]
         \cup [op : {"show", "list"}]

Event(c, previous, current) == [by |-> c, previous |-> previous, current |-> current]

Init == /\ price \in Price \cup {Absent}
        /\ history = {}
        /\ catalogue = None
        /\ priceCache = None
        /\ published = {}
        /\ unpublished = {}
        /\ job \in [Call -> Job]
        /\ pc = [c \in Call |-> "idle"]
        /\ seen = [c \in Call |-> None]
        /\ saved = [c \in Call |-> None]
        /\ replaced = [c \in Call |-> None]

Goto(c, st) == pc' = [pc EXCEPT ![c] = st]
At(c, st, op) == pc[c] = st /\ job[c].op = op
InFlight == {c \in Call : pc[c] \notin {"idle", "done", "failed"}}

Receive(c) == /\ pc[c] = "idle"
              /\ Goto(c, "read")
              /\ UNCHANGED <<db, redis, broker, job, memory>>

\* An error that the service lets through: the caller gets a 500.
Fails(c) == /\ MayFail /\ c \in InFlight
            /\ Goto(c, "failed")
            /\ UNCHANGED <<db, redis, broker, job, memory>>

\* A stock that is not there is a 404, one that is there already a duplicate key.
Refuse(c) ==
  /\ pc[c] = "read"
  /\ \/ job[c].op \in {"update", "show"} /\ price = Absent
     \/ job[c].op = "create" /\ price # Absent
  /\ Goto(c, "failed")
  /\ UNCHANGED <<db, redis, broker, job, memory>>
-------------------------------------------------------------------------------
(***************************************************************************)
(* create() and updateByTicker()                                           *)
(***************************************************************************)
Create(c) ==
  /\ At(c, "read", "create") /\ price = Absent
  /\ price' = job[c].price
  /\ Goto(c, "evict")
  /\ UNCHANGED <<history, redis, broker, job, memory>>

ReadPrevious(c) ==
  /\ At(c, "read", "update") /\ price # Absent
  /\ seen' = [seen EXCEPT ![c] = price]
  /\ Goto(c, "hook")
  /\ UNCHANGED <<db, redis, broker, job, saved, replaced>>

\* Faulty: the hook keeps the new values.
SaveUpdate(c) ==
  /\ At(c, "hook", "update")
  /\ history' = history \cup ({job[c].price} \ {None})
  /\ saved' = [saved EXCEPT ![c] = job[c].price]
  /\ Goto(c, "write")
  /\ UNCHANGED <<price, redis, broker, job, seen, replaced>>

\* The hook before findOneAndUpdate() reads the document and inserts what it
\* read: what matters of it is when it reads.
SaveStockHistory(c) ==
  /\ At(c, "hook", "update")
  /\ history' = history \cup {price}
  /\ saved' = [saved EXCEPT ![c] = price]
  /\ Goto(c, "write")
  /\ UNCHANGED <<price, redis, broker, job, seen, replaced>>

Write(c) ==
  LET new == IF job[c].price = None THEN price ELSE job[c].price
  IN /\ At(c, "write", "update")
     /\ price' = new
     /\ replaced' = [replaced EXCEPT ![c] = price]
     /\ Goto(c, "evict")
     /\ UNCHANGED <<history, redis, broker, job, seen, saved>>

\* Faulty: a price change is taken for none if it lowers the price.
ChangesUpOnly(c) == job[c].price # None /\ job[c].price > seen[c]
\* The update names a price, and not the one read at the start.
Changes(c) == job[c].price # None /\ job[c].price # seen[c]

EvictCatalogue(c) ==
  /\ pc[c] = "evict"
  /\ catalogue' = None
  /\ Goto(c, IF job[c].op = "create" THEN "refresh"
             ELSE IF Changes(c) THEN "delete" ELSE "done")
  /\ UNCHANGED <<db, priceCache, broker, job, memory>>

DeletePrice(c) ==
  /\ At(c, "delete", "update")
  /\ priceCache' = None
  /\ Goto(c, "refresh")
  /\ UNCHANGED <<db, catalogue, broker, job, memory>>

RefreshPrice(c) ==
  /\ pc[c] = "refresh"
  /\ priceCache' = job[c].price
  /\ Goto(c, IF job[c].op = "create" THEN "done" ELSE "publish")
  /\ UNCHANGED <<db, catalogue, broker, job, memory>>

\* Without a channel publish() returns false, which nobody looks at.
Publish(c) ==
  /\ At(c, "publish", "update")
  /\ \/ /\ published' = published \cup {Event(c, seen[c], job[c].price)}
        /\ UNCHANGED unpublished
     \/ /\ MayFail /\ UNCHANGED published
        /\ unpublished' = unpublished \cup {c}
  /\ Goto(c, "done")
  /\ UNCHANGED <<db, redis, job, memory>>
-------------------------------------------------------------------------------
(***************************************************************************)
(* findByName() reads the stock and caches its price; findAll() looks into *)
(* the catalogue, answers from it or queries the stocks and fills it.      *)
(***************************************************************************)
CatalogueMiss(c) ==
  /\ At(c, "read", "list") /\ catalogue = None
  /\ Goto(c, "query")
  /\ UNCHANGED <<db, redis, broker, job, memory>>

ReadStock(c) ==
  /\ \/ At(c, "read", "show") /\ price # Absent
     \/ At(c, "query", "list")
  /\ seen' = [seen EXCEPT ![c] = price]
  /\ Goto(c, "store")
  /\ UNCHANGED <<db, redis, broker, job, saved, replaced>>

CatalogueHit(c) ==
  /\ At(c, "read", "list") /\ catalogue # None
  /\ seen' = [seen EXCEPT ![c] = catalogue]
  /\ Goto(c, "done")
  /\ UNCHANGED <<db, redis, broker, job, saved, replaced>>

StorePrice(c) ==
  /\ At(c, "store", "show")
  /\ priceCache' = seen[c]
  /\ Goto(c, "done")
  /\ UNCHANGED <<db, catalogue, broker, job, memory>>

StoreCatalogue(c) ==
  /\ At(c, "store", "list")
  /\ catalogue' = seen[c]
  /\ Goto(c, "done")
  /\ UNCHANGED <<db, priceCache, broker, job, memory>>

NeverExpireCatalogue == FALSE /\ UNCHANGED vars   \* faulty: stored without a TTL
ExpireCatalogue ==
  /\ catalogue # None /\ catalogue' = None
  /\ UNCHANGED <<db, priceCache, broker, job, pc, memory>>

ExpirePrice ==
  /\ priceCache # None /\ priceCache' = None
  /\ UNCHANGED <<db, catalogue, broker, job, pc, memory>>
-------------------------------------------------------------------------------
UpdateStep(c) == \/ Create(c) \/ ReadPrevious(c) \/ SaveStockHistory(c) \/ Write(c)
                 \/ EvictCatalogue(c) \/ DeletePrice(c) \/ RefreshPrice(c) \/ Publish(c)
ReadStep(c)   == \/ CatalogueMiss(c) \/ ReadStock(c) \/ CatalogueHit(c)
                 \/ StorePrice(c) \/ StoreCatalogue(c)
CallStep(c)   == UpdateStep(c) \/ ReadStep(c) \/ Refuse(c)

Next == \/ \E c \in Call : Receive(c) \/ CallStep(c) \/ Fails(c)
        \/ ExpireCatalogue \/ ExpirePrice

Spec == Init /\ [][Next]_vars

\* The event loop gets round to every call, and every TTL runs out.
FairSpec == /\ Spec
            /\ \A c \in Call : WF_vars(CallStep(c))
            /\ WF_vars(ExpireCatalogue) /\ WF_vars(ExpirePrice)
-------------------------------------------------------------------------------
\* An update that has been answered and has changed the price has published the
\* change: from the price it replaced to the price it wrote.
Announced(c) == Event(c, replaced[c], job[c].price) \in published
ChangedPrice(c) == At(c, "done", "update") /\ job[c].price \notin {None, replaced[c]}

PriceChangesArePublished == \A c \in Call : ChangedPrice(c) => Announced(c)

\* What can prevent that is another update between the read and the write, and a
\* broker out of reach; nothing that Redis does, and no other request.
UndisturbedChangesArePublished ==
  \A c \in Call : ChangedPrice(c) /\ c \notin unpublished =>
    Announced(c) \/ \E d \in Call \ {c} : replaced[d] = seen[c] /\ replaced[c] # seen[c]

\* The price a write replaces is in stock_history, unless another update has come
\* between its hook and itself: the hook and the write are not one step.
UndisturbedVersionsAreKept ==
  \A c \in Call : replaced[c] # None =>
    \/ replaced[c] \in history
    \/ replaced[c] # saved[c] /\ \E d \in Call \ {c} : replaced[d] = saved[c]

\* The caches are evicted and filled by requests that overlap, and can be left
\* with an old price; they do not keep it once the updates stop.
CachesConverge == <>[](catalogue \in {None, price} /\ priceCache \in {None, price})
-------------------------------------------------------------------------------
(***************************************************************************)
(* Why it works: the inductive invariant.                                  *)
(***************************************************************************)
Phase == {"idle", "read", "hook", "write", "evict", "delete", "refresh", "publish",
          "query", "store", "done", "failed"}

TypeOK == /\ price \in Price \cup {Absent} /\ history \subseteq Price
          /\ catalogue \in Price \cup {None, Absent} /\ priceCache \in Price \cup {None, Absent}
          /\ job \in [Call -> Job] /\ pc \in [Call -> Phase]
          /\ seen \in [Call -> Price \cup {None, Absent}]
          /\ saved \in [Call -> Price \cup {None}]
          /\ replaced \in [Call -> Price \cup {None}]
          /\ unpublished \subseteq Call
          /\ published \subseteq [by : Call, previous : Price \cup {None, Absent},
                                 current : Price \cup {None}]

\* Another update than c has replaced the price p.
Overtaken(c, p) == \E d \in Call \ {c} : replaced[d] = p

\* The price that an update has read, and the one that its hook has kept, are
\* the stock's until another update replaces them.
UpdatesOK(c) ==
  /\ pc[c] \in {"idle", "read", "hook", "write"} => replaced[c] = None
  /\ pc[c] \in {"evict", "refresh"} => job[c].op \in {"update", "create"}
  /\ pc[c] \in {"hook", "write"} =>
       /\ job[c].op = "update" /\ price # Absent /\ seen[c] \in Price
       /\ price = seen[c] \/ Overtaken(c, seen[c])
  /\ pc[c] = "write" =>
       /\ saved[c] \in history
       /\ price = saved[c] \/ Overtaken(c, saved[c])
  /\ replaced[c] # None => saved[c] \in Price
  /\ job[c].op = "update" /\ pc[c] \in {"evict", "delete", "refresh", "publish", "done"} =>
       /\ seen[c] \in Price
       /\ replaced[c] = seen[c] \/ Overtaken(c, seen[c])

\* An update that is done has announced the change it has seen, or tried to.
EventsOK == \A c \in Call : At(c, "done", "update") /\ Changes(c) =>
              Event(c, seen[c], job[c].price) \in published \/ c \in unpublished

IInv == /\ TypeOK /\ \A c \in Call : UpdatesOK(c)
        /\ EventsOK /\ UndisturbedVersionsAreKept
===============================================================================
