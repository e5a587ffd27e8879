---------------------------- MODULE PortfolioProofs ----------------------------
(***************************************************************************)
(* Portfolio for any number of requests: its inductive invariant, what a   *)
(* trader is told, and what a summary shows.                               *)
(***************************************************************************)
EXTENDS Portfolio, TLAPS

LEMMA Outcomes ==
  ASSUME NEW k \in Kind
  PROVE  /\ Success(k) # {} /\ Failure(k) # {} /\ Success(k) # Failure(k)
         /\ "order_filled" \in Success(k) => k = "buy"
         /\ "order_closed" \in Success(k) => k = "sell"
         /\ "order_rejected" \notin Success(k)
         /\ "order_filled" \notin Failure(k) /\ "order_closed" \notin Failure(k)
<1>1. CASE k = "buy"
  BY <1>1, Zenon DEF Success, Failure, Trade
<1>2. CASE k = "sell"
  BY <1>2, Zenon DEF Success, Failure, Trade
<1>3. CASE k = "summary"
  BY <1>3, Zenon DEF Success, Failure, Trade
<1> QED
  BY <1>1, <1>2, <1>3 DEF Kind

LEMMA InitIInv == Init => IInv
<1> SUFFICES ASSUME Init PROVE IInv
  OBVIOUS
<1>1. TypeOK
  <2>1. /\ known \in [Call -> SUBSET filled] /\ summary \in [Call -> (SUBSET filled) \cup {None}]
        /\ cache \in (SUBSET filled) \cup {None}
    BY DEF Init
  <2>2. /\ events = [c \in Call |-> events[c]]
        /\ \A c \in Call : events[c] = {} /\ pc[c] = "idle"
    BY DEF Init
  <2> QED
    BY <2>1, <2>2 DEF Init, TypeOK
<1>2. CallsOK /\ DoubtOK /\ CacheOK /\ KnownIsAnswered
  <2>1. Success("sell") # {} /\ Success("buy") # {} /\ Failure("buy") # {}
    BY Outcomes DEF Kind
  <2> QED
    BY <2>1 DEF Init, CallsOK, DoubtOK, CacheOK, KnownIsAnswered
<1>3. AnswersOK
  BY DEF Init, AnswersOK
<1> QED
  BY <1>1, <1>2, <1>3 DEF IInv

LEMMA ReceiveKeepsIInv == ASSUME IInv, NEW c \in Call, Receive(c)  PROVE IInv'
<1>1. PICK st \in {"trade", "lookup"} :
        /\ st = IF kind[c] \in Trade THEN "trade" ELSE "lookup"
        /\ pc' = [pc EXCEPT ![c] = st]
  BY DEF Receive, Goto
<1>2. /\ pc[c] = "idle" /\ known' = [known EXCEPT ![c] = filled \cap Answered]
      /\ UNCHANGED <<kind, filled, inDoubt, cache, summary, clean, events>>
  BY DEF Receive
<1>3. /\ pc' \in [Call -> {"idle", "trade", "evict", "mail", "lookup", "query",
                           "store", "answer", "done", "lost"}]
      /\ known' \in [Call -> SUBSET filled]
      /\ pc'[c] = st /\ known'[c] = filled \cap Answered
      /\ \A d \in Call \ {c} : pc'[d] = pc[d] /\ known'[d] = known[d]
  BY <1>1, <1>2 DEF IInv, TypeOK
<1>4. TypeOK'
  BY <1>2, <1>3 DEF IInv, TypeOK
<1>5. CallsOK'
  <2>1. kind[c] \in Kind
    BY DEF IInv, TypeOK
  <2> QED
    BY <1>1, <1>2, <1>3, <2>1 DEF IInv, CallsOK, Trade, Kind
<1>6. CacheOK'
  BY <1>1, <1>2, <1>3 DEF IInv, CacheOK, TypeOK
<1>7. KnownIsAnswered'
  <2>1. \A d \in Answered : pc[d] = "done"
    BY DEF IInv, TypeOK, Answered
  <2>2. \A d \in Call : known[d] \subseteq Call
    BY DEF IInv, TypeOK
  <2>3. c \notin Answered
    BY <1>2, <2>1
  <2> QED
    BY <1>2, <1>3, <2>1, <2>2, <2>3 DEF IInv, KnownIsAnswered, Answered
<1>8. AnswersOK'
  BY <1>1, <1>2, <1>3 DEF IInv, AnswersOK
<1>9. DoubtOK'
  BY <1>2, <1>3 DEF IInv, DoubtOK, TypeOK
<1> QED
  BY <1>4, <1>5, <1>6, <1>7, <1>8, <1>9 DEF IInv

\* The database has one trade more, which nobody has been told of.
LEMMA FillKeepsIInv == ASSUME IInv, NEW c \in Call, Fill(c)  PROVE IInv'
<1>1. /\ pc[c] = "trade" /\ pc' = [pc EXCEPT ![c] = "evict"] /\ filled' = filled \cup {c}
      /\ UNCHANGED <<kind, inDoubt, cache, summary, known, clean, events>>
  BY DEF Fill, Goto
<1>2. /\ pc' \in [Call -> {"idle", "trade", "evict", "mail", "lookup", "query",
                           "store", "answer", "done", "lost"}]
      /\ pc'[c] = "evict" /\ \A d \in Call \ {c} : pc'[d] = pc[d]
  BY <1>1 DEF IInv, TypeOK
<1>3. TypeOK'
  <2>1. kind[c] \in Trade
    BY <1>1 DEF IInv, CallsOK
  <2>2. /\ filled' \subseteq {d \in Call : kind[d] \in Trade} /\ clean \subseteq filled'
        /\ cache \in (SUBSET filled') \cup {None}
        /\ summary \in [Call -> (SUBSET filled') \cup {None}]
        /\ known \in [Call -> SUBSET filled']
    BY <1>1, <2>1 DEF IInv, TypeOK
  <2> QED
    BY <1>1, <1>2, <2>2 DEF IInv, TypeOK
<1>4. CallsOK'
  <2>1. events[c] = {} /\ Success("sell") # {} /\ Failure("buy") # {}
    BY <1>1, Outcomes DEF IInv, TypeOK, Kind
  <2> QED
    BY <1>1, <1>2, <2>1 DEF IInv, CallsOK
<1>5. CacheOK'
  <2>1. c \notin clean
    BY <1>1 DEF IInv, CacheOK
  <2>2. \A d \in clean : d \in Call
    BY DEF IInv, TypeOK
  <2> QED
    BY <1>1, <1>2, <2>1, <2>2 DEF IInv, CacheOK
<1>6. KnownIsAnswered'
  <2>1. \A d \in Call : known[d] \subseteq Call
    BY DEF IInv, TypeOK
  <2> QED
    BY <1>1, <1>2, <2>1 DEF IInv, KnownIsAnswered
<1>7. AnswersOK'
  BY <1>1, <1>2 DEF IInv, AnswersOK
<1>8. DoubtOK'
  BY <1>1, <1>2 DEF IInv, DoubtOK, TypeOK
<1> QED
  BY <1>3, <1>4, <1>5, <1>6, <1>7, <1>8 DEF IInv

\* A commit that nobody has acknowledged takes effect: its call is over, and what
\* is cached or read need not show it.
LEMMA CommitInDoubtKeepsIInv == ASSUME IInv, NEW c \in Call, CommitInDoubt(c)  PROVE IInv'
<1>1. /\ c \in inDoubt /\ filled' = filled \cup {c}
      /\ UNCHANGED <<kind, pc, inDoubt, cache, summary, known, clean, events>>
  BY DEF CommitInDoubt
<1>2. kind[c] \in Trade /\ pc[c] \in {"done", "lost"}
  BY <1>1 DEF IInv, DoubtOK
<1>3. TypeOK'
  <2>1. /\ filled' \subseteq {d \in Call : kind[d] \in Trade} /\ clean \subseteq filled'
        /\ cache \in (SUBSET filled') \cup {None}
        /\ summary \in [Call -> (SUBSET filled') \cup {None}]
        /\ known \in [Call -> SUBSET filled']
    BY <1>1, <1>2 DEF IInv, TypeOK
  <2> QED
    BY <1>1, <2>1 DEF IInv, TypeOK
<1>4. CallsOK' /\ DoubtOK'
  BY <1>1, <1>2 DEF IInv, CallsOK, DoubtOK
<1>5. CacheOK' /\ KnownIsAnswered' /\ AnswersOK'
  BY <1>1 DEF IInv, CacheOK, KnownIsAnswered, AnswersOK
<1> QED
  BY <1>3, <1>4, <1>5 DEF IInv

\* What a call that ends with an error is told: a trade that ends so is not filled
\* or in doubt, and a buy cannot fail otherwise.
LEMMA RejectKeepsIInv ==
  ASSUME IInv, NEW c \in Call, Reject(c), UNCHANGED <<kind, filled, summary, known, clean>>,
         pc[c] \in {"trade", "lookup", "query", "store"},
         inDoubt' = inDoubt \/ (pc[c] = "trade" /\ inDoubt' = inDoubt \cup {c}),
         cache' = cache \/ (pc[c] = "store" /\ cache' = summary[c])
  PROVE  IInv'
<1>1. pc' = [pc EXCEPT ![c] = "done"] /\ events' = [events EXCEPT ![c] = Failure(kind[c])]
  BY DEF Reject, Emit, Goto
<1>2. /\ pc' \in [Call -> {"idle", "trade", "evict", "mail", "lookup", "query",
                           "store", "answer", "done", "lost"}]
      /\ events' = [d \in Call |-> events'[d]]
      /\ pc'[c] = "done" /\ events'[c] = Failure(kind[c])
      /\ \A d \in Call \ {c} : pc'[d] = pc[d] /\ events'[d] = events[d]
  BY <1>1 DEF IInv, TypeOK
<1>3. kind[c] \in Kind
  BY DEF IInv, TypeOK
<1>4. Failure(kind[c]) # {} /\ Failure(kind[c]) # Success(kind[c])
  BY <1>3, Outcomes
<1>5. cache' \in (SUBSET filled) \cup {None} /\ (cache' # None => clean \subseteq cache')
  BY DEF IInv, TypeOK, CacheOK
<1>6. TypeOK'
  BY <1>2, <1>4, <1>5 DEF IInv, TypeOK
<1>7. CallsOK'
  <2>1. \A d \in inDoubt : d \in inDoubt'
    OBVIOUS
  <2> QED
    BY <1>2, <1>4, <2>1 DEF IInv, CallsOK
<1>8. DoubtOK'
  <2>1. pc[c] = "trade" => kind[c] \in Trade /\ c \notin clean
    BY DEF IInv, CallsOK, CacheOK
  <2> QED
    BY <1>2, <2>1 DEF IInv, DoubtOK, TypeOK
<1>9. CacheOK'
  BY <1>2, <1>5 DEF IInv, CacheOK, TypeOK
<1>10. KnownIsAnswered'
  BY <1>2 DEF IInv, KnownIsAnswered, TypeOK
<1>11. AnswersOK'
  BY <1>2, <1>4 DEF IInv, AnswersOK
<1> QED
  BY <1>6, <1>7, <1>8, <1>9, <1>10, <1>11 DEF IInv

\* The trade becomes clean while no read is about to store an older summary, and
\* leaves nothing in the cache; those that know of it arrive later.
LEMMA EvictKeepsIInv == ASSUME IInv, NEW c \in Call, Evict(c)  PROVE IInv'
<1>1. /\ pc[c] = "evict" /\ pc' = [pc EXCEPT ![c] = "mail"]
      /\ UNCHANGED <<kind, filled, inDoubt, summary, known, events>>
  BY DEF Evict, Goto
<1>2. /\ pc' \in [Call -> {"idle", "trade", "evict", "mail", "lookup", "query",
                           "store", "answer", "done", "lost"}]
      /\ pc'[c] = "mail" /\ \A d \in Call \ {c} : pc'[d] = pc[d]
  BY <1>1 DEF IInv, TypeOK
<1>3. \/ cache' = None /\ clean' = clean
      \/ cache' = None /\ clean' = clean \cup {c} /\ NobodyStores
      \/ UNCHANGED <<cache, clean>>
  BY DEF Evict
<1>4. c \in filled /\ kind[c] \in Trade
  BY <1>1 DEF IInv, CallsOK
<1>5. TypeOK'
  <2>1. clean' \subseteq filled /\ cache' \in (SUBSET filled) \cup {None}
    BY <1>3, <1>4 DEF IInv, TypeOK
  <2> QED
    BY <1>1, <1>2, <2>1 DEF IInv, TypeOK
<1>6. CallsOK'
  BY <1>1, <1>2, <1>4 DEF IInv, CallsOK
<1>7. CacheOK'
  <2>1. \A d \in clean' : pc'[d] \notin {"idle", "trade", "evict"}
    BY <1>2, <1>3 DEF IInv, CacheOK, TypeOK
  <2>2. cache' # None => clean' \subseteq cache'
    BY <1>3 DEF IInv, CacheOK
  <2>3. \A d \in Call : pc'[d] = "store" => summary[d] \in SUBSET filled /\ clean' \subseteq summary[d]
    BY <1>2, <1>3 DEF IInv, CacheOK, NobodyStores
  <2> QED
    BY <1>1, <2>1, <2>2, <2>3 DEF CacheOK
<1>8. KnownIsAnswered'
  <2>1. \A d \in Call : known[d] \subseteq Call
    BY DEF IInv, TypeOK
  <2> QED
    BY <1>1, <1>2, <2>1 DEF IInv, KnownIsAnswered
<1>9. AnswersOK'
  <2> SUFFICES ASSUME NEW d \in Call,
                      \/ pc'[d] = "answer"
                      \/ pc'[d] = "done" /\ events[d] = Success(kind[d]) /\ kind[d] # "buy"
               PROVE  summary[d] \in SUBSET filled /\ clean' \cap (known[d] \cup {d}) \subseteq summary[d]
    BY <1>1 DEF AnswersOK
  <2>1. d # c /\ pc'[d] = pc[d]
    BY <1>2
  <2>2. c \notin known[d]
    BY <1>1 DEF IInv, KnownIsAnswered
  <2> QED
    BY <1>1, <1>3, <2>1, <2>2 DEF IInv, AnswersOK
<1>10. DoubtOK'
  BY <1>1, <1>2, <1>3 DEF IInv, DoubtOK, TypeOK
<1> QED
  BY <1>5, <1>6, <1>7, <1>8, <1>9, <1>10 DEF IInv

\* A call moves on and nothing else happens; where it goes, what it must know
\* there is known.
LEMMA GoingOn ==
  ASSUME IInv, NEW c \in Call, NEW st \in {"lookup", "query", "answer"},
         pc' = [pc EXCEPT ![c] = st], pc[c] \in {"mail", "lookup"},
         kind[c] # "buy", kind[c] = "sell" => c \in filled,
         UNCHANGED <<kind, filled, inDoubt, clean, cache, known, events>>,
         summary' \in [Call -> (SUBSET filled) \cup {None}],
         \A d \in Call \ {c} : summary'[d] = summary[d],
         st = "answer" => /\ summary'[c] \in SUBSET filled
                          /\ clean \cap (known[c] \cup {c}) \subseteq summary'[c]
  PROVE  IInv'
<1>1. /\ pc' \in [Call -> {"idle", "trade", "evict", "mail", "lookup", "query",
                           "store", "answer", "done", "lost"}]
      /\ pc'[c] = st /\ \A d \in Call \ {c} : pc'[d] = pc[d]
  BY DEF IInv, TypeOK
<1>2. TypeOK'
  BY <1>1 DEF IInv, TypeOK
<1>3. CallsOK'
  <2>1. events[c] = {} /\ Success("sell") # {} /\ Success("buy") # {} /\ Failure("buy") # {}
    BY Outcomes DEF IInv, TypeOK, Kind
  <2> QED
    BY <1>1, <2>1 DEF IInv, CallsOK
<1>4. CacheOK'
  BY <1>1 DEF IInv, CacheOK, TypeOK
<1>5. KnownIsAnswered'
  BY <1>1 DEF IInv, KnownIsAnswered, TypeOK
<1>6. AnswersOK'
  BY <1>1 DEF IInv, AnswersOK
<1>7. DoubtOK'
  BY <1>1 DEF IInv, DoubtOK, TypeOK
<1> QED
  BY <1>2, <1>3, <1>4, <1>5, <1>6, <1>7 DEF IInv

\* A call succeeds: a buy with its trade committed, the others with the summary
\* they hold.
LEMMA SucceedKeepsIInv ==
  ASSUME IInv, NEW c \in Call, Succeed(c), UNCHANGED <<kind, filled, inDoubt, cache, summary, known, clean>>,
         pc[c] = "answer" \/ (pc[c] = "mail" /\ kind[c] = "buy")
  PROVE  IInv'
<1>1. pc' = [pc EXCEPT ![c] = "done"] /\ events' = [events EXCEPT ![c] = Success(kind[c])]
  BY DEF Succeed, Emit, Goto
<1>2. /\ pc' \in [Call -> {"idle", "trade", "evict", "mail", "lookup", "query",
                           "store", "answer", "done", "lost"}]
      /\ events' = [d \in Call |-> events'[d]]
      /\ pc'[c] = "done" /\ events'[c] = Success(kind[c])
      /\ \A d \in Call \ {c} : pc'[d] = pc[d] /\ events'[d] = events[d]
  BY <1>1 DEF IInv, TypeOK
<1>3. Success(kind[c]) # {} /\ Failure(kind[c]) # Success(kind[c])
  BY Outcomes DEF IInv, TypeOK
<1>4. TypeOK'
  BY <1>2, <1>3 DEF IInv, TypeOK
<1>5. CallsOK'
  BY <1>2, <1>3 DEF IInv, CallsOK
<1>6. CacheOK'
  BY <1>2 DEF IInv, CacheOK, TypeOK
<1>7. KnownIsAnswered'
  BY <1>2 DEF IInv, KnownIsAnswered, TypeOK
<1>8. AnswersOK'
  BY <1>2 DEF IInv, AnswersOK
<1>9. DoubtOK'
  BY <1>2 DEF IInv, DoubtOK, TypeOK
<1> QED
  BY <1>4, <1>5, <1>6, <1>7, <1>8, <1>9 DEF IInv

LEMMA MailTradeKeepsIInv == ASSUME IInv, NEW c \in Call, MailTrade(c)  PROVE IInv'
<1>1. pc[c] = "mail" /\ UNCHANGED <<kind, filled, inDoubt, cache, summary, known, clean>>
  BY DEF MailTrade
<1>2. CASE kind[c] = "buy"
  BY <1>1, <1>2, SucceedKeepsIInv DEF MailTrade
<1>3. CASE kind[c] # "buy"
  <2>1. pc' = [pc EXCEPT ![c] = "lookup"] /\ UNCHANGED events
    BY <1>3 DEF MailTrade, Goto
  <2>2. c \in filled /\ summary' \in [Call -> (SUBSET filled) \cup {None}]
    BY <1>1 DEF IInv, CallsOK, TypeOK
  <2> QED
    BY <1>1, <1>3, <2>1, <2>2, GoingOn
<1> QED
  BY <1>2, <1>3

\* What is cached shows every clean trade.
LEMMA LookupKeepsIInv == ASSUME IInv, NEW c \in Call, Lookup(c)  PROVE IInv'
<1>1. /\ pc[c] = "lookup" /\ summary' = [summary EXCEPT ![c] = cache]
      /\ UNCHANGED <<kind, filled, inDoubt, cache, known, clean, events>>
  BY DEF Lookup
<1>2. PICK st \in {"query", "answer"} :
        st = (IF cache = None THEN "query" ELSE "answer") /\ pc' = [pc EXCEPT ![c] = st]
  BY DEF Lookup, Goto
<1>3. /\ summary' \in [Call -> (SUBSET filled) \cup {None}]
      /\ summary'[c] = cache /\ \A d \in Call \ {c} : summary'[d] = summary[d]
  BY <1>1 DEF IInv, TypeOK
<1>4. kind[c] # "buy" /\ (kind[c] = "sell" => c \in filled)
  BY <1>1 DEF IInv, CallsOK
<1>5. st = "answer" => /\ summary'[c] \in SUBSET filled
                       /\ clean \cap (known[c] \cup {c}) \subseteq summary'[c]
  BY <1>2, <1>3 DEF IInv, TypeOK, CacheOK
<1> QED
  BY <1>1, <1>2, <1>3, <1>4, <1>5, GoingOn

\* The database shows every trade that is filled; no trade becomes clean until
\* it is stored.
LEMMA QueryKeepsIInv == ASSUME IInv, NEW c \in Call, Query(c)  PROVE IInv'
<1>1. /\ pc[c] = "query" /\ summary' = [summary EXCEPT ![c] = filled]
      /\ pc' = [pc EXCEPT ![c] = "store"]
      /\ UNCHANGED <<kind, filled, inDoubt, cache, known, clean, events>>
  BY DEF Query, Goto
<1>2. /\ pc' \in [Call -> {"idle", "trade", "evict", "mail", "lookup", "query",
                           "store", "answer", "done", "lost"}]
      /\ summary' \in [Call -> (SUBSET filled) \cup {None}]
      /\ pc'[c] = "store" /\ summary'[c] = filled
      /\ \A d \in Call \ {c} : pc'[d] = pc[d] /\ summary'[d] = summary[d]
  BY <1>1 DEF IInv, TypeOK
<1>3. TypeOK'
  BY <1>1, <1>2 DEF IInv, TypeOK
<1>4. CallsOK'
  BY <1>1, <1>2 DEF IInv, CallsOK
<1>5. CacheOK'
  BY <1>1, <1>2 DEF IInv, CacheOK, TypeOK
<1>6. KnownIsAnswered'
  BY <1>1, <1>2 DEF IInv, KnownIsAnswered, TypeOK
<1>7. AnswersOK'
  BY <1>1, <1>2 DEF IInv, AnswersOK
<1>8. DoubtOK'
  BY <1>1, <1>2 DEF IInv, DoubtOK, TypeOK
<1> QED
  BY <1>3, <1>4, <1>5, <1>6, <1>7, <1>8 DEF IInv

LEMMA StoreKeepsIInv == ASSUME IInv, NEW c \in Call, Store(c)  PROVE IInv'
<1>1. /\ pc[c] = "store" /\ cache' = summary[c] /\ pc' = [pc EXCEPT ![c] = "answer"]
      /\ UNCHANGED <<kind, filled, inDoubt, summary, known, clean, events>>
  BY DEF Store, Goto
<1>2. /\ pc' \in [Call -> {"idle", "trade", "evict", "mail", "lookup", "query",
                           "store", "answer", "done", "lost"}]
      /\ pc'[c] = "answer" /\ \A d \in Call \ {c} : pc'[d] = pc[d]
  BY <1>1 DEF IInv, TypeOK
<1>3. summary[c] \in SUBSET filled /\ clean \subseteq summary[c]
  BY <1>1 DEF IInv, CacheOK
<1>4. TypeOK'
  BY <1>1, <1>2, <1>3 DEF IInv, TypeOK
<1>5. CallsOK'
  BY <1>1, <1>2 DEF IInv, CallsOK
<1>6. CacheOK'
  BY <1>1, <1>2, <1>3 DEF IInv, CacheOK, TypeOK
<1>7. KnownIsAnswered'
  BY <1>1, <1>2 DEF IInv, KnownIsAnswered, TypeOK
<1>8. AnswersOK'
  BY <1>1, <1>2, <1>3 DEF IInv, AnswersOK
<1>9. DoubtOK'
  BY <1>1, <1>2 DEF IInv, DoubtOK, TypeOK
<1> QED
  BY <1>4, <1>5, <1>6, <1>7, <1>8, <1>9 DEF IInv

LEMMA ExpireKeepsIInv == ASSUME IInv, Expire  PROVE IInv'
<1>1. cache' = None /\ UNCHANGED <<kind, pc, filled, inDoubt, summary, known, clean, events>>
  BY DEF Expire
<1>2. TypeOK' /\ CallsOK' /\ DoubtOK' /\ CacheOK' /\ KnownIsAnswered' /\ AnswersOK'
  BY <1>1 DEF IInv, TypeOK, CallsOK, DoubtOK, CacheOK, KnownIsAnswered, AnswersOK
<1> QED
  BY <1>2 DEF IInv

\* A read that was about to store an old summary is lost with the process.
LEMMA CrashKeepsIInv == ASSUME IInv, Crash  PROVE IInv'
<1>1. /\ pc' = [c \in Call |-> IF pc[c] \in {"idle", "done"} THEN pc[c] ELSE "lost"]
      /\ inDoubt' = inDoubt \cup {c \in Call : pc[c] = "trade"}
      /\ UNCHANGED <<kind, filled, cache, summary, known, clean, events>>
  BY DEF Crash
<1>2. /\ pc' \in [Call -> {"idle", "trade", "evict", "mail", "lookup", "query",
                           "store", "answer", "done", "lost"}]
      /\ \A c \in Call : \/ pc'[c] = pc[c] /\ pc[c] \in {"idle", "done"}
                         \/ pc'[c] = "lost" /\ pc[c] # "done"
  BY <1>1 DEF IInv, TypeOK
<1>3. TypeOK' /\ CallsOK'
  BY <1>1, <1>2 DEF IInv, TypeOK, CallsOK
<1>4. CacheOK' /\ KnownIsAnswered'
  <2>1. clean \subseteq Call /\ \A c \in Call : known[c] \subseteq Call
    BY DEF IInv, TypeOK
  <2> QED
    BY <1>1, <1>2, <2>1 DEF IInv, CacheOK, KnownIsAnswered
<1>5. AnswersOK'
  BY <1>1, <1>2 DEF IInv, AnswersOK
<1>6. DoubtOK'
  <2>1. \A c \in Call : pc[c] = "trade" => kind[c] \in Trade /\ c \notin clean
    BY DEF IInv, CallsOK, CacheOK
  <2> QED
    BY <1>1, <1>2, <2>1 DEF IInv, DoubtOK, TypeOK
<1> QED
  BY <1>3, <1>4, <1>5, <1>6 DEF IInv

LEMMA NextKeepsIInv == IInv /\ [Next]_vars => IInv'
<1> SUFFICES ASSUME IInv, [Next]_vars PROVE IInv'
  OBVIOUS
<1>1. CASE UNCHANGED vars
  BY <1>1 DEF vars, IInv, TypeOK, CallsOK, DoubtOK, CacheOK, KnownIsAnswered, AnswersOK
<1>2. ASSUME NEW c \in Call, Receive(c)  PROVE IInv'
  BY <1>2, ReceiveKeepsIInv
<1>3. ASSUME NEW c \in Call, TradeStep(c)  PROVE IInv'
  <2>1. Refuse(c) \/ LoseCommit(c) => IInv'
    BY RejectKeepsIInv DEF Refuse, LoseCommit
  <2> QED
    BY <1>3, <2>1, FillKeepsIInv, EvictKeepsIInv, MailTradeKeepsIInv DEF TradeStep
<1>4. ASSUME NEW c \in Call, SummaryStep(c)  PROVE IInv'
  <2>1. Answer(c) => IInv'
    BY SucceedKeepsIInv DEF Answer
  <2>2. SummaryFails(c) => IInv'
    BY RejectKeepsIInv DEF SummaryFails
  <2> QED
    BY <1>4, <2>1, <2>2, LookupKeepsIInv, QueryKeepsIInv, StoreKeepsIInv DEF SummaryStep
<1> QED
  BY <1>1, <1>2, <1>3, <1>4, CommitInDoubtKeepsIInv, ExpireKeepsIInv, CrashKeepsIInv
     DEF Next, CallStep
-------------------------------------------------------------------------------
\* The inductive invariant, for any number of requests at once.
THEOREM PortfolioInvariant == Spec => []IInv
BY InitIInv, NextKeepsIInv, PTL DEF Spec

\* A buyer is told order_rejected of a filled order only if the database has never
\* acknowledged its commit; neither Redis nor the mail nor a crash makes him be
\* told so of an acknowledged one.  order_filled and order_closed are always true.
THEOREM BuyersLearnTheOutcome == Spec => []BuyersAreToldTheTruth
<1>1. IInv => BuyersAreToldTheTruth
  <2> SUFFICES ASSUME IInv, NEW c \in Call
               PROVE  /\ "order_filled" \in events[c] => c \in filled
                      /\ "order_closed" \in events[c] => c \in filled
                      /\ kind[c] = "buy" /\ "order_rejected" \in events[c] =>
                           c \notin filled \/ c \in inDoubt
    BY DEF BuyersAreToldTheTruth
  <2>1. /\ kind[c] \in Kind /\ events[c] \in {{}, Success(kind[c]), Failure(kind[c])}
        /\ events[c] # {} => pc[c] = "done"
    BY DEF IInv, TypeOK
  <2> QED
    BY <2>1, Outcomes DEF IInv, CallsOK
<1> QED
  BY <1>1, PortfolioInvariant, PTL

\* The two ways to a stale summary are the only ones: a summary shows every trade
\* that the member had been told of, and the trade it answers, whose eviction
\* worked and fell between no read's query and its store.
THEOREM SummariesShowCleanTrades == Spec => []SummariesAreCurrent
<1>1. IInv => SummariesAreCurrent
  BY DEF IInv, AnswersOK, SummariesAreCurrent
<1> QED
  BY <1>1, PortfolioInvariant, PTL
===============================================================================
