------------------------------- MODULE Portfolio -------------------------------
(***************************************************************************)
(* One member's portfolio summary: the cached value in Redis, the trades   *)
(* that evict it, the reads that fill it, and what the member's socket is  *)
(* told (orders.service.ts after the commit, orders.gateway.ts).           *)
(*                                                                         *)
(* What a trade does to the database is Trading's; here a trade is filled  *)
(* or refused in one step, which AtomicTrading allows, and a summary is    *)
(* the set of the trades it reflects.  What the process learns of the      *)
(* commit is another matter: its acknowledgement can be lost.              *)
(***************************************************************************)
CONSTANTS Call,       \* the member's requests
          MayMissEviction,  \* whether Redis can be out of reach when a trade evicts
          None        \* nothing cached, no summary yet

ASSUME MayMissAssumption == MayMissEviction \in BOOLEAN

VARIABLES kind,      \* kind[c]: "buy", "sell" or "summary"
          pc,        \* what c does next
          filled,    \* the trades the database has committed
          inDoubt,   \* the trades whose commit was sent and never acknowledged
          cache,     \* portfolio-summary:{userId}
          summary,   \* summary[c]: the summary c holds
          known,     \* known[c]: the trades that were answered when c arrived
          clean,     \* the trades whose eviction worked and overtook no read
          events     \* events[c]: what the gateway has emitted for c

\* known and clean only observe: no action looks at them.
vars == <<kind, pc, filled, inDoubt, cache, summary, known, clean, events>>

Kind  == {"buy", "sell", "summary"}
Trade == {"buy", "sell"}

Success(k) == CASE k = "buy"     -> {"order_filled"}
                [] k = "sell"    -> {"order_closed", "portfolio_value_updated"}
                [] k = "summary" -> {"portfolio_summary"}
Failure(k) == IF k \in Trade THEN {"order_rejected"} ELSE {"portfolio_summary_error"}

Init == /\ kind \in [Call -> Kind]
        /\ pc = [c \in Call |-> "idle"]
        /\ filled = {}
        /\ inDoubt = {}
        /\ cache = None
        /\ summary = [c \in Call |-> None]
        /\ known = [c \in Call |-> {}]
        /\ clean = {}
        /\ events = [c \in Call |-> {}]

Goto(c, st) == pc' = [pc EXCEPT ![c] = st]

Answered == {c \in Call : events[c] # {}}

\* The gateway emits the events of c's success or failure.
Emit(c, es) == Goto(c, "done") /\ events' = [events EXCEPT ![c] = es]
Succeed(c)  == Emit(c, Success(kind[c]))
Reject(c)   == Emit(c, Failure(kind[c]))

Receive(c) == /\ pc[c] = "idle"
              /\ Goto(c, IF kind[c] \in Trade THEN "trade" ELSE "lookup")
              /\ known' = [known EXCEPT ![c] = filled \cap Answered]
              /\ UNCHANGED <<kind, filled, inDoubt, cache, summary, clean, events>>
-------------------------------------------------------------------------------
\* withTransaction() returns: the database has acknowledged the commit.
Fill(c) == /\ pc[c] = "trade"
           /\ filled' = filled \cup {c}
           /\ Goto(c, "evict")
           /\ UNCHANGED <<kind, inDoubt, cache, summary, known, clean, events>>

\* It throws an error of the callback, or gives up before a commit is sent.
Refuse(c) == /\ pc[c] = "trade"
             /\ Reject(c)
             /\ UNCHANGED <<kind, filled, inDoubt, cache, summary, known, clean>>

\* It sends the commit, hears nothing and gives up: what the gateway's catch tells
\* the client is the same.
LoseCommit(c) == /\ pc[c] = "trade"
                 /\ Reject(c)
                 /\ inDoubt' = inDoubt \cup {c}
                 /\ UNCHANGED <<kind, filled, cache, summary, known, clean>>

\* Such a commit has taken effect, or takes it yet; nothing in the code follows it.
CommitInDoubt(c) == /\ c \in inDoubt \ filled
                    /\ filled' = filled \cup {c}
                    /\ UNCHANGED <<kind, pc, inDoubt, cache, summary, known, clean, events>>

NobodyStores == \A d \in Call : pc[d] # "store"

\* Faulty: an error of Redis is not caught.
EvictOrThrow(c) ==
  /\ pc[c] = "evict"
  /\ \/ cache' = None /\ Goto(c, "mail") /\ UNCHANGED events
     \/ UNCHANGED cache /\ Reject(c)
  /\ UNCHANGED <<kind, filled, inDoubt, summary, known, clean>>

\* Faulty: a buy forgets to evict.
EvictIfSell(c) ==
  /\ pc[c] = "evict"
  /\ cache' = (IF kind[c] = "sell" THEN None ELSE cache)
  /\ clean' = IF NobodyStores THEN clean \cup {c} ELSE clean
  /\ Goto(c, "mail")
  /\ UNCHANGED <<kind, filled, inDoubt, summary, known, events>>

\* evictPortfolioSummary() only logs that Redis could not be reached.
Evict(c) == /\ pc[c] = "evict"
            /\ \/ /\ cache' = None
                  /\ clean' = IF NobodyStores THEN clean \cup {c} ELSE clean
               \/ MayMissEviction /\ UNCHANGED <<cache, clean>>
            /\ Goto(c, "mail")
            /\ UNCHANGED <<kind, filled, inDoubt, summary, known, events>>

\* The confirmation mail, sent or not, takes its time; then a buy is done, and a
\* sell asks for the summary.
MailTrade(c) == /\ pc[c] = "mail"
                /\ IF kind[c] = "buy" THEN Succeed(c)
                                      ELSE Goto(c, "lookup") /\ UNCHANGED events
                /\ UNCHANGED <<kind, filled, inDoubt, cache, summary, known, clean>>
-------------------------------------------------------------------------------
(***************************************************************************)
(* getPortfolioSummary()                                                   *)
(***************************************************************************)
Lookup(c) == /\ pc[c] = "lookup"
             /\ summary' = [summary EXCEPT ![c] = cache]
             /\ Goto(c, IF cache = None THEN "query" ELSE "answer")
             /\ UNCHANGED <<kind, filled, inDoubt, cache, known, clean, events>>

\* The open orders are read and summed up.
Query(c) == /\ pc[c] = "query"
            /\ summary' = [summary EXCEPT ![c] = filled]
            /\ Goto(c, "store")
            /\ UNCHANGED <<kind, filled, inDoubt, cache, known, clean, events>>

Store(c) == /\ pc[c] = "store"
            /\ cache' = summary[c]
            /\ Goto(c, "answer")
            /\ UNCHANGED <<kind, filled, inDoubt, summary, known, clean, events>>

Answer(c) == /\ pc[c] = "answer"
             /\ Succeed(c)
             /\ UNCHANGED <<kind, filled, inDoubt, cache, summary, known, clean>>

\* Redis or the database fails: the gateway's catch tells the client.  A store
\* that fails may have stored.
SummaryFails(c) == /\ pc[c] \in {"lookup", "query", "store"}
                   /\ Reject(c)
                   /\ cache' \in {cache} \cup IF pc[c] = "store" THEN {summary[c]} ELSE {}
                   /\ UNCHANGED <<kind, filled, inDoubt, summary, known, clean>>
-------------------------------------------------------------------------------
\* The cached value's TTL runs out.
NeverExpire == FALSE /\ UNCHANGED vars   \* faulty: stored without one
Expire == /\ cache # None
          /\ cache' = None
          /\ UNCHANGED <<kind, pc, filled, inDoubt, summary, known, clean, events>>

\* The process dies with everything in flight; Redis and the database stay, and
\* what has been sent to the database may be done.
Crash == /\ pc' = [c \in Call |-> IF pc[c] \in {"idle", "done"} THEN pc[c] ELSE "lost"]
         /\ pc' # pc
         /\ inDoubt' = inDoubt \cup {c \in Call : pc[c] = "trade"}
         /\ UNCHANGED <<kind, filled, cache, summary, known, clean, events>>

TradeStep(c)   == Fill(c) \/ Refuse(c) \/ LoseCommit(c) \/ Evict(c) \/ MailTrade(c)
SummaryStep(c) == Lookup(c) \/ Query(c) \/ Store(c) \/ Answer(c) \/ SummaryFails(c)
CallStep(c)    == TradeStep(c) \/ SummaryStep(c)

Next == \/ \E c \in Call : Receive(c) \/ CallStep(c) \/ CommitInDoubt(c)
        \/ Expire \/ Crash

Spec == Init /\ [][Next]_vars

\* The event loop gets round to every call, and every TTL runs out.
FairSpec == Spec /\ (\A c \in Call : WF_vars(CallStep(c))) /\ WF_vars(Expire)
-------------------------------------------------------------------------------
TypeOK == /\ kind \in [Call -> Kind]
          /\ pc \in [Call -> {"idle", "trade", "evict", "mail", "lookup", "query",
                              "store", "answer", "done", "lost"}]
          /\ filled \subseteq {c \in Call : kind[c] \in Trade} /\ clean \subseteq filled
          /\ inDoubt \subseteq Call
          /\ cache \in (SUBSET filled) \cup {None}
          /\ summary \in [Call -> (SUBSET filled) \cup {None}]
          /\ known \in [Call -> SUBSET filled]
          /\ events = [c \in Call |-> events[c]]
          /\ \A c \in Call : /\ events[c] \in {{}, Success(kind[c]), Failure(kind[c])}
                             /\ events[c] # {} <=> pc[c] = "done"

\* A trader is told that his order is filled or closed only if it is.  A buyer is
\* told order_rejected of an order that is filled, or will be, in one case only:
\* the database never acknowledged the commit.  Once it has, neither Redis nor the
\* mail nor a death of the process turns the answer round.
BuyersAreToldTheTruth ==
  \A c \in Call :
    /\ "order_filled" \in events[c] => c \in filled
    /\ "order_closed" \in events[c] => c \in filled
    /\ kind[c] = "buy" /\ "order_rejected" \in events[c] => c \notin filled \/ c \in inDoubt

\* The same of a seller: order_rejected is the event of a sale that failed, or
\* that may have.
SellersAreToldTheTruth ==
  \A c \in Call :
    kind[c] = "sell" /\ "order_rejected" \in events[c] => c \notin filled \/ c \in inDoubt

\* There are only two ways to a stale summary: the trade was not evicted - Redis or
\* the process failed, or nobody knew of the commit - or its eviction came
\* between a read's query and its store.  Otherwise a member sees, in every
\* summary, the trade it answers and all the trades he had been told of.
SummariesAreCurrent ==
  \A c \in Call : pc[c] = "done" /\ events[c] = Success(kind[c]) /\ kind[c] # "buy"
    => clean \cap (known[c] \cup {c}) \subseteq summary[c]

\* A stale summary - left by a missed eviction, by a crash, or by a read that
\* was overtaken by a trade - is gone once the trades stop.
StalenessEnds == <>[](cache \in {None, filled})
-------------------------------------------------------------------------------
(***************************************************************************)
(* Why it works: the inductive invariant.                                  *)
(***************************************************************************)
\* Where a call is says whether its trade is in the database, and so does what
\* a buyer is told.
CallsOK ==
  \A c \in Call :
    /\ pc[c] \in {"trade", "evict", "mail"} => kind[c] \in Trade
    /\ pc[c] \in {"lookup", "query", "store", "answer"} => kind[c] # "buy"
    /\ pc[c] \in {"idle", "trade"} => c \notin filled
    /\ pc[c] \in {"evict", "mail"} => c \in filled
    /\ kind[c] = "sell" /\ pc[c] \in {"lookup", "query", "store", "answer"} => c \in filled
    /\ kind[c] = "sell" /\ events[c] = Success("sell") => c \in filled
    /\ kind[c] = "buy" /\ events[c] = Success("buy") => c \in filled
    /\ kind[c] = "buy" /\ events[c] = Failure("buy") => c \notin filled \/ c \in inDoubt

\* A trade in doubt is over for the process, which has evicted nothing for it.
DoubtOK == \A c \in inDoubt : kind[c] \in Trade /\ pc[c] \in {"done", "lost"} /\ c \notin clean

\* The trades that count as clean have been evicted; nothing that is cached, or
\* about to be, lacks one of them.
CacheOK == /\ \A c \in clean : pc[c] \notin {"idle", "trade", "evict"}
           /\ cache # None => clean \subseteq cache
           /\ \A c \in Call : pc[c] = "store" => /\ summary[c] \in SUBSET filled
                                                 /\ clean \subseteq summary[c]

\* A trade that a call knew of has been answered: its eviction is behind it.
KnownIsAnswered == \A c \in Call : \A d \in known[c] : pc[d] = "done"

\* The summary that a call answers with has the clean trades among those it must
\* show; what becomes clean later is none of them.
AnswersOK ==
  \A c \in Call : \/ pc[c] = "answer"
                  \/ pc[c] = "done" /\ events[c] = Success(kind[c]) /\ kind[c] # "buy"
    => /\ summary[c] \in SUBSET filled
       /\ clean \cap (known[c] \cup {c}) \subseteq summary[c]

IInv == TypeOK /\ CallsOK /\ DoubtOK /\ CacheOK /\ KnownIsAnswered /\ AnswersOK
===============================================================================
