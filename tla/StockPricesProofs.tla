--------------------------- MODULE StockPricesProofs ---------------------------
(***************************************************************************)
(* StockPrices for any number of overlapping requests: its inductive       *)
(* invariant, and what an update leaves behind in stock_history and with   *)
(* the broker.                                                             *)
(***************************************************************************)
EXTENDS StockPrices, TLAPS

LEMMA InitIInv == Init => IInv
<1> SUFFICES ASSUME Init PROVE IInv
  OBVIOUS
<1>1. TypeOK
  BY DEF Init, TypeOK, Phase
<1>2. \A c \in Call : UpdatesOK(c)
  BY DEF Init, UpdatesOK
<1>3. EventsOK /\ UndisturbedVersionsAreKept
  BY DEF Init, EventsOK, At, UndisturbedVersionsAreKept
<1> QED
  BY <1>1, <1>2, <1>3 DEF IInv

\* A step of a call that leaves the stock, and what its updates have written,
\* alone; where it goes, an update takes what it needs there along.
LEMMA GoingOn ==
  ASSUME IInv, NEW c \in Call,
         NEW st \in Phase \ {"idle", "hook", "write"}, pc' = [pc EXCEPT ![c] = st],
         TypeOK', UNCHANGED <<price, history, job, saved, replaced>>,
         \A d \in Call \ {c} : seen'[d] = seen[d],
         published \subseteq published', unpublished \subseteq unpublished',
         st = "read" => pc[c] \in {"idle", "read", "hook", "write"},
         st \in {"evict", "refresh"} => job[c].op \in {"update", "create"},
         job[c].op = "update" /\ st \in {"evict", "delete", "refresh", "publish", "done"} =>
           /\ pc[c] \in {"evict", "delete", "refresh", "publish"} /\ seen'[c] = seen[c],
         job[c].op = "update" /\ st = "done" /\ Changes(c) =>
           Event(c, seen[c], job[c].price) \in published' \/ c \in unpublished'
  PROVE  IInv'
<1>1. pc'[c] = st /\ \A d \in Call \ {c} : pc'[d] = pc[d]
  BY DEF IInv, TypeOK
<1>2. ASSUME NEW d \in Call PROVE UpdatesOK(d)'
  <2>1. UpdatesOK(d)
    BY DEF IInv
  <2>2. CASE d = c
    BY <1>1, <2>1, <2>2 DEF UpdatesOK, Overtaken
  <2>3. CASE d # c
    BY <1>1, <2>1, <2>3 DEF UpdatesOK, Overtaken
  <2> QED
    BY <2>2, <2>3
<1>3. EventsOK'
  <2> SUFFICES ASSUME NEW d \in Call, At(d, "done", "update")', Changes(d)'
               PROVE  Event(d, seen'[d], job'[d].price) \in published' \/ d \in unpublished'
    BY DEF EventsOK, Event
  <2>1. CASE d = c
    BY <1>1, <2>1 DEF At, Changes
  <2>2. CASE d # c
    BY <1>1, <2>2 DEF At, Changes, IInv, EventsOK
  <2> QED
    BY <2>1, <2>2
<1>4. UndisturbedVersionsAreKept'
  BY DEF IInv, UndisturbedVersionsAreKept
<1> QED
  BY <1>2, <1>3, <1>4 DEF IInv

LEMMA ReceiveKeepsIInv == ASSUME IInv, NEW c \in Call, Receive(c)  PROVE IInv'
<1>1. /\ pc[c] = "idle" /\ pc' = [pc EXCEPT ![c] = "read"]
      /\ UNCHANGED <<db, redis, broker, job, memory>>
  BY DEF Receive, Goto
<1>2. TypeOK'
  BY <1>1 DEF IInv, TypeOK, Phase, db, redis, broker, memory
<1> QED
  BY <1>1, <1>2, GoingOn DEF db, redis, broker, memory, Phase

\* An update that fails, or that is refused, promises nothing.
LEMMA FailingKeepsIInv ==
  ASSUME IInv, NEW c \in Call, Fails(c) \/ Refuse(c)  PROVE IInv'
<1>1. pc' = [pc EXCEPT ![c] = "failed"] /\ UNCHANGED <<db, redis, broker, job, memory>>
  BY DEF Fails, Refuse, Goto
<1>2. TypeOK'
  BY <1>1 DEF IInv, TypeOK, Phase, db, redis, broker, memory
<1> QED
  BY <1>1, <1>2, GoingOn DEF db, redis, broker, memory, Phase

\* A stock is only created where there was none, and then nobody updates it yet.
LEMMA CreateKeepsIInv == ASSUME IInv, NEW c \in Call, Create(c)  PROVE IInv'
<1>1. /\ pc[c] = "read" /\ job[c].op = "create" /\ price = Absent /\ price' = job[c].price
      /\ pc' = [pc EXCEPT ![c] = "evict"]
      /\ UNCHANGED <<history, redis, broker, job, memory>>
  BY DEF Create, At, Goto
<1>2. job[c].price \in Price
  BY <1>1 DEF IInv, TypeOK, Job
<1>3. /\ pc' \in [Call -> Phase] /\ pc'[c] = "evict"
      /\ \A d \in Call \ {c} : pc'[d] = pc[d]
  BY <1>1 DEF IInv, TypeOK, Phase
<1>4. TypeOK'
  BY <1>1, <1>2, <1>3 DEF IInv, TypeOK, redis, broker, memory
<1>5. ASSUME NEW d \in Call PROVE UpdatesOK(d)'
  <2>1. UpdatesOK(d)
    BY DEF IInv
  <2> QED
    BY <1>1, <1>3, <2>1 DEF UpdatesOK, Overtaken, memory
<1>6. EventsOK' /\ UndisturbedVersionsAreKept'
  BY <1>1, <1>3 DEF IInv, EventsOK, UndisturbedVersionsAreKept, At, Changes, Event, memory, broker
<1> QED
  BY <1>4, <1>5, <1>6 DEF IInv

LEMMA ReadPreviousKeepsIInv == ASSUME IInv, NEW c \in Call, ReadPrevious(c)  PROVE IInv'
<1>1. /\ pc[c] = "read" /\ job[c].op = "update" /\ price # Absent
      /\ seen' = [seen EXCEPT ![c] = price] /\ pc' = [pc EXCEPT ![c] = "hook"]
      /\ UNCHANGED <<db, redis, broker, job, saved, replaced>>
  BY DEF ReadPrevious, At, Goto
<1>2. price \in Price
  BY <1>1 DEF IInv, TypeOK
<1>3. /\ pc' \in [Call -> Phase] /\ pc'[c] = "hook"
      /\ seen' \in [Call -> Price \cup {None, Absent}] /\ seen'[c] = price
      /\ \A d \in Call \ {c} : pc'[d] = pc[d] /\ seen'[d] = seen[d]
  BY <1>1, <1>2 DEF IInv, TypeOK, Phase
<1>4. TypeOK'
  BY <1>1, <1>3 DEF IInv, TypeOK, db, redis, broker
<1>5. ASSUME NEW d \in Call PROVE UpdatesOK(d)'
  <2>1. UpdatesOK(d)
    BY DEF IInv
  <2>2. CASE d = c
    BY <1>1, <1>2, <1>3, <2>1, <2>2 DEF UpdatesOK, db
  <2>3. CASE d # c
    BY <1>1, <1>3, <2>1, <2>3 DEF UpdatesOK, Overtaken, db
  <2> QED
    BY <2>2, <2>3
<1>6. EventsOK'
  BY <1>1, <1>3 DEF IInv, EventsOK, At, Changes, Event, broker
<1>7. UndisturbedVersionsAreKept'
  BY <1>1 DEF IInv, UndisturbedVersionsAreKept, db
<1> QED
  BY <1>4, <1>5, <1>6, <1>7 DEF IInv

LEMMA SaveStockHistoryKeepsIInv ==
  ASSUME IInv, NEW c \in Call, SaveStockHistory(c)  PROVE IInv'
<1>1. /\ pc[c] = "hook" /\ job[c].op = "update"
      /\ history' = history \cup {price} /\ saved' = [saved EXCEPT ![c] = price]
      /\ pc' = [pc EXCEPT ![c] = "write"]
      /\ UNCHANGED <<price, redis, broker, job, seen, replaced>>
  BY DEF SaveStockHistory, At, Goto
<1>2. UpdatesOK(c)
  BY DEF IInv
<1>3. price \in Price
  BY <1>1, <1>2 DEF IInv, TypeOK, UpdatesOK
<1>4. /\ pc' \in [Call -> Phase] /\ pc'[c] = "write"
      /\ saved' \in [Call -> Price \cup {None}] /\ saved'[c] = price
      /\ \A d \in Call \ {c} : pc'[d] = pc[d] /\ saved'[d] = saved[d]
  BY <1>1, <1>3 DEF IInv, TypeOK, Phase
<1>5. TypeOK'
  BY <1>1, <1>3, <1>4 DEF IInv, TypeOK, redis, broker
<1>6. ASSUME NEW d \in Call PROVE UpdatesOK(d)'
  <2>1. UpdatesOK(d)
    BY DEF IInv
  <2>2. CASE d = c
    BY <1>1, <1>2, <1>4, <2>2 DEF UpdatesOK, Overtaken
  <2>3. CASE d # c
    BY <1>1, <1>4, <2>1, <2>3 DEF UpdatesOK, Overtaken
  <2> QED
    BY <2>2, <2>3
<1>7. EventsOK'
  BY <1>1, <1>4 DEF IInv, EventsOK, At, Changes, Event, broker
<1>8. UndisturbedVersionsAreKept'
  <2>1. replaced[c] = None
    BY <1>1, <1>2 DEF UpdatesOK
  <2> QED
    BY <1>1, <1>4, <2>1 DEF IInv, UndisturbedVersionsAreKept
<1> QED
  BY <1>5, <1>6, <1>7, <1>8 DEF IInv

\* The write replaces what the update has read and kept, or another update has
\* replaced that before; those that are under way now have been overtaken by it.
LEMMA WriteKeepsIInv == ASSUME IInv, NEW c \in Call, Write(c)  PROVE IInv'
<1>1. PICK new \in {price, job[c].price} :
        new = (IF job[c].price = None THEN price ELSE job[c].price) /\ price' = new
  BY DEF Write
<1>2. /\ pc[c] = "write" /\ job[c].op = "update"
      /\ replaced' = [replaced EXCEPT ![c] = price] /\ pc' = [pc EXCEPT ![c] = "evict"]
      /\ UNCHANGED <<history, redis, broker, job, seen, saved>>
  BY DEF Write, At, Goto
<1>3. UpdatesOK(c)
  BY DEF IInv
<1>4. price \in Price /\ new \in Price
  <2>1. price \in Price
    BY <1>2, <1>3 DEF IInv, TypeOK, UpdatesOK
  <2>2. job[c].price \in Price \cup {None}
    BY <1>2 DEF IInv, TypeOK, Job
  <2> QED
    BY <1>1, <2>1, <2>2
<1>5. /\ pc' \in [Call -> Phase] /\ pc'[c] = "evict"
      /\ replaced' \in [Call -> Price \cup {None}] /\ replaced'[c] = price
      /\ replaced[c] = None
      /\ \A d \in Call \ {c} : pc'[d] = pc[d] /\ replaced'[d] = replaced[d]
  BY <1>2, <1>3, <1>4 DEF IInv, TypeOK, Phase, UpdatesOK
<1>6. TypeOK'
  BY <1>1, <1>2, <1>4, <1>5 DEF IInv, TypeOK, redis, broker
<1> DEFINE OvertakenNext(d, p) == \E e \in Call \ {d} : replaced'[e] = p
<1>7. \A d \in Call, p \in Price : Overtaken(d, p) => OvertakenNext(d, p)
  BY <1>5, StockPricesAssumption DEF Overtaken
<1>8. \A d \in Call \ {c} : OvertakenNext(d, price)
  BY <1>5
<1> HIDE DEF OvertakenNext
<1>9. price # Absent /\ price' # Absent
  BY <1>1, <1>4, StockPricesAssumption
<1>10. ASSUME NEW d \in Call PROVE UpdatesOK(d)'
  <2>1. UpdatesOK(d)
    BY DEF IInv
  <2> SUFFICES /\ pc'[d] \in {"idle", "read", "hook", "write"} => replaced'[d] = None
               /\ pc'[d] \in {"hook", "write"} =>
                    /\ job[d].op = "update" /\ price' # Absent /\ seen[d] \in Price
                    /\ OvertakenNext(d, seen[d])
               /\ pc'[d] = "write" => saved[d] \in history /\ OvertakenNext(d, saved[d])
               /\ job[d].op = "update" /\ pc'[d] \in {"evict", "delete", "refresh", "publish", "done"} =>
                    /\ seen[d] \in Price
                    /\ replaced'[d] = seen[d] \/ OvertakenNext(d, seen[d])
               /\ replaced'[d] # None => saved[d] \in Price
               /\ pc'[d] \in {"evict", "refresh"} => job[d].op \in {"update", "create"}
    BY <1>2 DEF UpdatesOK, Overtaken, OvertakenNext
  <2>2. CASE d = c
    <3>1. seen[c] \in Price /\ (price = seen[c] \/ Overtaken(c, seen[c]))
      BY <1>2, <1>3 DEF UpdatesOK
    <3>2. saved[c] \in Price
      BY <1>2, <1>3 DEF UpdatesOK, IInv, TypeOK
    <3> QED
      BY <1>2, <1>5, <1>7, <2>2, <3>1, <3>2
  <2>3. CASE d # c
    <3>1. pc[d] \in {"hook", "write"} => OvertakenNext(d, seen[d])
      BY <1>7, <1>8, <2>1, <2>3 DEF UpdatesOK
    <3>2. pc[d] = "write" => OvertakenNext(d, saved[d])
      <4>1. pc[d] = "write" => saved[d] \in Price
        BY <2>1 DEF UpdatesOK, IInv, TypeOK
      <4> QED
        BY <1>7, <1>8, <2>1, <2>3, <4>1 DEF UpdatesOK
    <3> QED
      BY <1>5, <1>7, <1>9, <2>1, <2>3, <3>1, <3>2 DEF UpdatesOK
  <2> QED
    BY <2>2, <2>3
<1>11. EventsOK'
  BY <1>2, <1>5 DEF IInv, EventsOK, At, Changes, Event, broker
<1>12. UndisturbedVersionsAreKept'
  <2> SUFFICES ASSUME NEW d \in Call, replaced'[d] # None
               PROVE  \/ replaced'[d] \in history
                      \/ replaced'[d] # saved[d] /\ OvertakenNext(d, saved[d])
    BY <1>2 DEF UndisturbedVersionsAreKept, OvertakenNext
  <2>1. CASE d = c
    <3>1. saved[c] \in history /\ saved[c] \in Price /\ (price = saved[c] \/ Overtaken(c, saved[c]))
      BY <1>2, <1>3 DEF UpdatesOK, IInv, TypeOK
    <3> QED
      BY <1>5, <1>7, <2>1, <3>1
  <2>2. CASE d # c
    <3>1. \/ replaced[d] \in history
          \/ replaced[d] # saved[d] /\ Overtaken(d, saved[d])
      BY <1>5, <2>2 DEF IInv, UndisturbedVersionsAreKept, Overtaken
    <3>2. saved[d] \in Price
      BY <1>5, <2>2 DEF IInv, UpdatesOK
    <3> QED
      BY <1>5, <1>7, <2>2, <3>1, <3>2
  <2> QED
    BY <2>1, <2>2
<1> QED
  BY <1>6, <1>10, <1>11, <1>12 DEF IInv

LEMMA EvictCatalogueKeepsIInv == ASSUME IInv, NEW c \in Call, EvictCatalogue(c)  PROVE IInv'
<1>1. /\ pc[c] = "evict" /\ catalogue' = None
      /\ UNCHANGED <<db, priceCache, broker, job, memory>>
  BY DEF EvictCatalogue
<1>2. PICK st \in {"refresh", "delete", "done"} :
        /\ st = (IF job[c].op = "create" THEN "refresh" ELSE IF Changes(c) THEN "delete" ELSE "done")
        /\ pc' = [pc EXCEPT ![c] = st]
  BY Zenon DEF EvictCatalogue, Goto
<1>3. TypeOK'
  BY <1>1, <1>2 DEF IInv, TypeOK, Phase, db, broker, memory
<1>4. /\ st = "done" => ~Changes(c)
      /\ job[c].op \in {"update", "create"}
  BY <1>1, <1>2 DEF IInv, UpdatesOK
<1> QED
  BY <1>1, <1>2, <1>3, <1>4, GoingOn DEF db, broker, memory, Phase

LEMMA RefreshingKeepsIInv ==
  ASSUME IInv, NEW c \in Call, DeletePrice(c) \/ RefreshPrice(c)  PROVE IInv'
<1>1. PICK st \in {"refresh", "publish", "done"} : pc' = [pc EXCEPT ![c] = st]
  BY DEF DeletePrice, RefreshPrice, Goto
<1>2. /\ pc[c] \in {"delete", "refresh"} /\ priceCache' \in {None, job[c].price}
      /\ UNCHANGED <<db, catalogue, broker, job, memory>>
      /\ pc[c] = "delete" => job[c].op = "update" /\ priceCache' = None
  BY DEF DeletePrice, RefreshPrice, At
<1>3. pc[c] = "refresh" => job[c].op \in {"update", "create"} /\ job[c].price \in Price \cup {None}
  BY DEF IInv, UpdatesOK, TypeOK, Job
<1>4. priceCache' \in Price \cup {None, Absent}
  BY <1>2, <1>3
<1>5. TypeOK'
  BY <1>1, <1>2, <1>4 DEF IInv, TypeOK, Phase, db, broker, memory
<1>6. /\ st = "done" => job[c].op # "update"
      /\ st = "refresh" => job[c].op = "update"
  BY <1>1, <1>2, <1>3 DEF DeletePrice, RefreshPrice, At, Goto, IInv, TypeOK
<1> QED
  BY <1>1, <1>2, <1>5, <1>6, GoingOn DEF db, broker, memory, Phase

\* The event is handed to the broker with the price that the update has read, or
\* publish() has returned false.
LEMMA PublishKeepsIInv == ASSUME IInv, NEW c \in Call, Publish(c)  PROVE IInv'
<1>1. /\ pc[c] = "publish" /\ job[c].op = "update" /\ pc' = [pc EXCEPT ![c] = "done"]
      /\ UNCHANGED <<db, redis, job, memory>>
  BY DEF Publish, At, Goto
<1>2. \/ published' = published \cup {Event(c, seen[c], job[c].price)} /\ UNCHANGED unpublished
      \/ UNCHANGED published /\ unpublished' = unpublished \cup {c}
  BY DEF Publish
<1>3. Event(c, seen[c], job[c].price) \in [by : Call, previous : Price \cup {None, Absent},
                                           current : Price \cup {None}]
  BY <1>1 DEF Event, IInv, TypeOK, Job
<1>4. TypeOK'
  <2>1. /\ unpublished' \subseteq Call
        /\ published' \subseteq [by : Call, previous : Price \cup {None, Absent},
                                 current : Price \cup {None}]
    BY <1>2, <1>3 DEF IInv, TypeOK
  <2> QED
    BY <1>1, <2>1 DEF IInv, TypeOK, Phase, db, redis, memory
<1> QED
  BY <1>1, <1>2, <1>4, GoingOn DEF db, redis, memory, Phase

LEMMA ReadStepKeepsIInv == ASSUME IInv, NEW c \in Call, ReadStep(c)  PROVE IInv'
<1>1. ASSUME ReadStock(c) \/ CatalogueHit(c)  PROVE IInv'
  <2>1. PICK st \in {"store", "done"} : pc' = [pc EXCEPT ![c] = st]
    BY <1>1 DEF ReadStock, CatalogueHit, Goto
  <2>2. PICK p \in {price, catalogue} : seen' = [seen EXCEPT ![c] = p]
    BY <1>1 DEF ReadStock, CatalogueHit
  <2>3. job[c].op \in {"show", "list"} /\ UNCHANGED <<db, redis, broker, job, saved, replaced>>
    BY <1>1 DEF ReadStock, CatalogueHit, At
  <2>4. /\ seen' \in [Call -> Price \cup {None, Absent}]
        /\ \A d \in Call \ {c} : seen'[d] = seen[d]
    BY <2>2 DEF IInv, TypeOK
  <2>5. TypeOK'
    BY <2>1, <2>3, <2>4 DEF IInv, TypeOK, Phase, db, redis, broker
  <2> QED
    BY <2>1, <2>3, <2>4, <2>5, GoingOn DEF db, redis, broker, Phase
<1>2. ASSUME StorePrice(c) \/ StoreCatalogue(c)  PROVE IInv'
  <2>1. /\ job[c].op \in {"show", "list"} /\ pc' = [pc EXCEPT ![c] = "done"]
        /\ catalogue' \in {catalogue, seen[c]} /\ priceCache' \in {priceCache, seen[c]}
        /\ UNCHANGED <<db, broker, job, memory>>
    BY <1>2 DEF StorePrice, StoreCatalogue, At, Goto
  <2>2. TypeOK'
    BY <2>1 DEF IInv, TypeOK, Phase, db, broker, memory
  <2> QED
    BY <2>1, <2>2, GoingOn DEF db, broker, memory, Phase
<1>3. ASSUME CatalogueMiss(c)  PROVE IInv'
  <2>1. /\ job[c].op = "list" /\ pc' = [pc EXCEPT ![c] = "query"]
        /\ UNCHANGED <<db, redis, broker, job, memory>>
    BY <1>3 DEF CatalogueMiss, At, Goto
  <2>2. TypeOK'
    BY <2>1 DEF IInv, TypeOK, Phase, db, redis, broker, memory
  <2> QED
    BY <2>1, <2>2, GoingOn DEF db, redis, broker, memory, Phase
<1> QED
  BY <1>1, <1>2, <1>3 DEF ReadStep

LEMMA ExpiringKeepsIInv == ASSUME IInv, ExpireCatalogue \/ ExpirePrice  PROVE IInv'
<1>1. /\ catalogue' \in {catalogue, None} /\ priceCache' \in {priceCache, None}
      /\ UNCHANGED <<db, broker, job, pc, memory>>
  BY DEF ExpireCatalogue, ExpirePrice
<1>2. TypeOK'
  BY <1>1 DEF IInv, TypeOK, db, broker, memory
<1>3. ASSUME NEW d \in Call PROVE UpdatesOK(d)'
  <2>1. UpdatesOK(d)
    BY DEF IInv
  <2> QED
    BY <1>1, <2>1 DEF UpdatesOK, Overtaken, db, memory
<1>4. EventsOK' /\ UndisturbedVersionsAreKept'
  BY <1>1 DEF IInv, EventsOK, UndisturbedVersionsAreKept, At, Changes, Event, db, broker, memory
<1> QED
  BY <1>2, <1>3, <1>4 DEF IInv

LEMMA NextKeepsIInv == IInv /\ [Next]_vars => IInv'
<1> SUFFICES ASSUME IInv, [Next]_vars PROVE IInv'
  OBVIOUS
<1>1. CASE UNCHANGED vars
  <2>1. TypeOK' /\ EventsOK' /\ UndisturbedVersionsAreKept'
    BY <1>1 DEF vars, db, redis, broker, memory, IInv, TypeOK, EventsOK, At, Changes, Event,
                UndisturbedVersionsAreKept
  <2>2. ASSUME NEW d \in Call PROVE UpdatesOK(d)'
    <3>1. UpdatesOK(d)
      BY DEF IInv
    <3> QED
      BY <1>1, <3>1 DEF vars, db, memory, UpdatesOK, Overtaken
  <2> QED
    BY <2>1, <2>2 DEF IInv
<1>2. ASSUME NEW c \in Call, UpdateStep(c)  PROVE IInv'
  BY <1>2, CreateKeepsIInv, ReadPreviousKeepsIInv, SaveStockHistoryKeepsIInv, WriteKeepsIInv,
     EvictCatalogueKeepsIInv, RefreshingKeepsIInv, PublishKeepsIInv DEF UpdateStep
<1>3. ASSUME NEW c \in Call, Receive(c) \/ ReadStep(c) \/ Refuse(c) \/ Fails(c)  PROVE IInv'
  BY <1>3, ReceiveKeepsIInv, ReadStepKeepsIInv, FailingKeepsIInv
<1> QED
  BY <1>1, <1>2, <1>3, ExpiringKeepsIInv DEF Next, CallStep
-------------------------------------------------------------------------------
\* The inductive invariant, however many requests for the stock overlap.
THEOREM StockPricesInvariant == Spec => []IInv
BY InitIInv, NextKeepsIInv, PTL DEF Spec

\* Between the hook and the write of an update another update can come, and
\* nothing else can make a version disappear from stock_history.
THEOREM ReplacedVersionsAreKept == Spec => []UndisturbedVersionsAreKept
<1>1. IInv => UndisturbedVersionsAreKept
  BY DEF IInv
<1> QED
  BY <1>1, StockPricesInvariant, PTL

\* A price change goes unannounced, or with a previous price it did not replace,
\* only when another update has come between the read and the write, or when the
\* broker was out of reach.
THEOREM ChangesArePublished == Spec => []UndisturbedChangesArePublished
<1>1. IInv => UndisturbedChangesArePublished
  <2> SUFFICES ASSUME IInv, NEW c \in Call, ChangedPrice(c), c \notin unpublished
               PROVE  Announced(c) \/ \E d \in Call \ {c} : replaced[d] = seen[c] /\ replaced[c] # seen[c]
    BY DEF UndisturbedChangesArePublished
  <2>1. replaced[c] = seen[c] \/ Overtaken(c, seen[c])
    BY DEF IInv, UpdatesOK, ChangedPrice, At
  <2>2. CASE replaced[c] = seen[c]
    <3>1. Changes(c)
      BY <2>2 DEF ChangedPrice, Changes
    <3> QED
      BY <2>2, <3>1 DEF IInv, EventsOK, ChangedPrice, Announced
  <2>3. CASE replaced[c] # seen[c]
    BY <2>1, <2>3 DEF Overtaken
  <2> QED
    BY <2>2, <2>3
<1> QED
  BY <1>1, StockPricesInvariant, PTL
===============================================================================
