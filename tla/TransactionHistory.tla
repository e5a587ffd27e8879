-------------------------- MODULE TransactionHistory --------------------------
(***************************************************************************)
(* getTransactionHistory() of wallets.service.ts: a page of a member's     *)
(* history, merged from four collections.  Each is asked for its newest    *)
(* documents, as many as could be needed; the answers are put together,    *)
(* sorted and cut.  The collections are read one by one while deposits,    *)
(* reviews and trades go on.                                               *)
(*                                                                         *)
(* A withdrawal is in two of them: its request is shown while it is pending*)
(* or rejected, its wallet transaction from its approval on.  A document   *)
(* is what it is filtered and sorted by: a kind and a time.                *)
(***************************************************************************)
EXTENDS Naturals, SequencesExt, Collections

CONSTANTS Id,         \* documents; a request and its wallet transaction share one
          Now,        \* the time of every write, no earlier than what is there
          DayLength,  \* instants of a day
          Period,     \* date filters a query may have
          Limit, MaxPage,
          MaxWrites,  \* bound on the writes that overlap with the read
          AnyType, None   \* no type asked for; not read yet

ASSUME TimeIsNatural    == Now \in Nat /\ DayLength \in Nat \ {0}
ASSUME IdsAreFinite     == IsFiniteSet(Id)
ASSUME PagesArePositive == Limit \subseteq Nat \ {0} /\ MaxPage \in Nat \ {0}
ASSUME PeriodsAreRanges == Period \subseteq [from: Nat, to: Nat, dateOnly: BOOLEAN]

VARIABLES wallet,    \* the member has a wallet
          docs,      \* docs[source]: his documents in that collection, by id
          query,     \* what is asked for
          step,      \* how far the read is
          found,     \* found[source]: what its query has returned
          answer,    \* the page
          \* Observed only:
          atStart,   \* what there was to show when the read began
          writes,    \* the number of writes since
          approved   \* the requests that were approved since

vars == <<wallet, docs, query, step, found, answer, atStart, writes, approved>>

Time == 0..Now
Kinds == [wallet_transactions  |-> {"deposit", "withdrawal", "manual_credit", "manual_debit"},
          withdrawals_requests |-> {"pending", "approved", "rejected"},
          buy_orders           |-> {"filled"},
          sell_orders          |-> {"filled"}]
Source == DOMAIN Kinds

\* The order in which the answers are put together.
Order == <<"wallet_transactions", "withdrawals_requests", "buy_orders", "sell_orders">>

Query == [type: {"deposit", "withdrawal", "buy", "sell", AnyType}, page: 1..MaxPage,
          limit: Limit, period: Period]

Least(m, n) == IF m < n THEN m ELSE n
-------------------------------------------------------------------------------
(***************************************************************************)
(* What a query returns and what becomes of it.                            *)
(***************************************************************************)
Skip(q) == (q.page - 1) * q.limit

\* Faulty: nothing tells of a next page.
FetchLimitExact(q) == Skip(q) + q.limit

\* One more than needed, to know whether there is a next page.
FetchLimit(q) == Skip(q) + q.limit + 1

\* A date without a time stands for its whole day.
Within(t, p) == /\ p.from <= t
                /\ IF p.dateOnly THEN t \div DayLength <= p.to \div DayLength ELSE t <= p.to

ShouldInclude(q, type) == q.type \in {AnyType, type}

\* Faulty: an approved request is shown beside its transaction.
EveryRequest == Kinds.withdrawals_requests

ShownRequests == {"pending", "rejected"}

\* The kinds of documents that q wants from a source.
Wanted(q, source) ==
  CASE source = "wallet_transactions" ->
         (IF ShouldInclude(q, "deposit") THEN {"deposit", "manual_credit"} ELSE {})
           \cup IF ShouldInclude(q, "withdrawal") THEN {"withdrawal", "manual_debit"} ELSE {}
    [] source = "withdrawals_requests" ->
         IF ShouldInclude(q, "withdrawal") THEN ShownRequests ELSE {}
    [] source = "buy_orders"  -> IF ShouldInclude(q, "buy") THEN {"filled"} ELSE {}
    [] source = "sell_orders" -> IF ShouldInclude(q, "sell") THEN {"filled"} ELSE {}

Entry(source, i) == [source |-> source, id |-> i, at |-> docs[source][i].at]

Matching(q, source) ==
  {Entry(source, i) : i \in {j \in DOMAIN docs[source] :
     docs[source][j].kind \in Wanted(q, source) /\ Within(docs[source][j].at, q.period)}}

NewestFirst(s) == \A i, j \in DOMAIN s : i < j => s[i].at >= s[j].at

\* sort({createdAt: -1}).limit(n): MongoDB chooses the order among equals.
Newest(S, n) == {SubSeq(s, 1, Least(n, Len(s))) : s \in {r \in SetToSeqs(S) : NewestFirst(r)}}

\* What the queries have returned: the entries <<c, i>>, i-th of the c-th source.
Positions(f) == UNION {{c} \X DOMAIN f[Order[c]] : c \in DOMAIN Order}
At(f, p)     == f[Order[p[1]]][p[2]]

\* Newest first; flat() and sort() keep the order of the sources and of the
\* answers among equals.
Before(f, p, q) ==
  \/ At(f, p).at > At(f, q).at
  \/ /\ At(f, p).at = At(f, q).at
     /\ p[1] < q[1] \/ (p[1] = q[1] /\ p[2] < q[2])

\* Where p comes in the history.
Place(f, p) == Cardinality({q \in Positions(f) : q = p \/ Before(f, q, p)})

Merge(f) == [k \in 1..Cardinality(Positions(f)) |->
               At(f, CHOOSE p \in Positions(f) : Place(f, p) = k)]

Page(history, q) ==
  [data    |-> SubSeq(history, Skip(q) + 1, Least(Skip(q) + q.limit, Len(history))),
   hasMore |-> Len(history) > Skip(q) + q.limit]
-------------------------------------------------------------------------------
\* The whole history of the member, of one type or all, of one period: what the
\* pages should be pages of.
TypeOf(e) ==
  CASE e.source = "buy_orders"  -> "buy"
    [] e.source = "sell_orders" -> "sell"
    [] e.source = "withdrawals_requests" -> "withdrawal"
    [] docs[e.source][e.id].kind \in {"deposit", "manual_credit"} -> "deposit"
    [] OTHER -> "withdrawal"

Superseded(e) == /\ e.source = "withdrawals_requests"
                 /\ docs[e.source][e.id].kind = "approved"

Whole(q) ==
  {e \in UNION {{Entry(s, i) : i \in DOMAIN docs[s]} : s \in Source} :
     ~Superseded(e) /\ q.type \in {TypeOf(e), AnyType} /\ Within(e.at, q.period)}

Pending == {i \in DOMAIN docs.withdrawals_requests : docs.withdrawals_requests[i].kind = "pending"}

\* Some past of a member: every document under an id of its own, but an approved
\* request and its transaction.
Init ==
  /\ \E kind \in [Id -> {<<"none", "none">>} \cup
                        UNION {{s} \X Kinds[s] : s \in Source}], at \in [Id -> Time] :
       LET in(s) == {i \in Id : kind[i][1] = s}
           paid  == {i \in Id : kind[i][2] = "approved"}
           doc(i, k) == [kind |-> k, at |-> at[i]]
       IN /\ docs = [s \in Source |->
                       IF s = "wallet_transactions"
                       THEN [i \in in(s) \cup paid |-> IF i \in paid THEN doc(i, "withdrawal")
                                                       ELSE doc(i, kind[i][2])]
                       ELSE [i \in in(s) |-> IF i \in paid THEN [kind |-> "approved", at |-> 0]
                                             ELSE doc(i, kind[i][2])]]
          /\ \A i \in Id : kind[i] # <<"wallet_transactions", "withdrawal">>
          /\ in("sell_orders") # {} => in("buy_orders") # {}
          /\ \A i, j \in Pending : i = j
          /\ wallet \in IF in("none") = Id THEN BOOLEAN ELSE {TRUE}
  /\ query \in Query
  /\ step = "start"
  /\ found = [s \in Source |-> None]
  /\ answer = None
  /\ atStart = Whole(query) /\ writes = 0 /\ approved = {}
-------------------------------------------------------------------------------
(***************************************************************************)
(* The read.                                                               *)
(***************************************************************************)
\* Without a wallet its two collections are not asked.
ReadWallet ==
  /\ step = "start"
  /\ step' = "reading"
  /\ found' = [s \in Source |-> IF ~wallet /\ s \in {"wallet_transactions", "withdrawals_requests"}
                                THEN <<>> ELSE None]
  /\ UNCHANGED <<wallet, docs, query, answer, atStart, writes, approved>>

Find(s) ==
  /\ step = "reading" /\ found[s] = None
  /\ \E r \in Newest(Matching(query, s), FetchLimit(query)) : found' = [found EXCEPT ![s] = r]
  /\ UNCHANGED <<wallet, docs, query, step, answer, atStart, writes, approved>>

Answer ==
  /\ step = "reading" /\ \A s \in Source : found[s] # None
  /\ answer' = Page(Merge(found), query)
  /\ step' = "done"
  /\ UNCHANGED <<wallet, docs, query, found, atStart, writes, approved>>
-------------------------------------------------------------------------------
(***************************************************************************)
(* Meanwhile.                                                              *)
(***************************************************************************)
Meanwhile == /\ step \in {"start", "reading"} /\ writes < MaxWrites
             /\ writes' = writes + 1
             /\ UNCHANGED <<query, step, found, answer, atStart>>

Put(s, i, k) == docs' = [docs EXCEPT ![s] = With(@, i, [kind |-> k, at |-> Now])]

New == {i \in Id : \A s \in Source : i \notin DOMAIN docs[s]}

\* A deposit, a manual adjustment, a request or a trade.
Write == /\ Meanwhile
         /\ \E i \in New, s \in Source : \E k \in Kinds[s] \ {"withdrawal", "approved", "rejected"} :
              /\ wallet \/ k \in {"deposit", "manual_credit"}
              /\ k = "pending" => Pending = {}
              /\ s = "sell_orders" => DOMAIN docs.buy_orders # {}
              /\ Put(s, i, k)
         /\ wallet' = TRUE
         /\ UNCHANGED approved

\* updateWithdrawalRequestStatus()
Approve(i) == /\ Meanwhile /\ i \in Pending
              /\ docs' = [docs EXCEPT
                   !.withdrawals_requests[i].kind = "approved",
                   !.wallet_transactions = With(@, i, [kind |-> "withdrawal", at |-> Now])]
              /\ approved' = approved \cup {i}
              /\ UNCHANGED wallet

Reject(i) == /\ Meanwhile /\ i \in Pending
             /\ docs' = [docs EXCEPT !.withdrawals_requests[i].kind = "rejected"]
             /\ UNCHANGED <<wallet, approved>>

Next == \/ ReadWallet \/ Answer \/ \E s \in Source : Find(s)
        \/ Write \/ \E i \in Id : Approve(i) \/ Reject(i)

Spec == Init /\ [][Next]_vars
-------------------------------------------------------------------------------
\* A read that nothing overlaps shows a page of the whole history, newest first:
\* no entry of the newer pages is missing from their count, none is repeated, none
\* of another type or time is in it, and hasMore is right.  That each collection
\* is cut before the answers are merged makes no difference.
QuietPagesAreExact ==
  step = "done" /\ writes = 0 =>
    LET before == (query.page - 1) * query.limit
        end    == before + query.limit
    IN \E whole \in SetToSeqs(Whole(query)) :
         /\ NewestFirst(whole)
         /\ answer.data = SubSeq(whole, before + 1, Least(end, Len(whole)))
         /\ answer.hasMore = (Len(whole) > end)

\* The documents are not read at one moment.  What can go wrong by that is
\* confined to withdrawals: of whatever else there was when the read began nothing
\* is missing from a first page that is said to be the last, and a request is shown
\* together with its own transaction only if it has just been approved.
OverlappedPagesMissOnlyApprovals ==
  step = "done" =>
    /\ query.page = 1 /\ ~answer.hasMore =>
         (\A e \in atStart : e \in ToSet(answer.data) \/ e.id \in approved)
    /\ \A x, y \in ToSet(answer.data) : x.id # y.id \/ x = y \/ x.id \in approved
    /\ IsInjective(answer.data) /\ NewestFirst(answer.data)
-------------------------------------------------------------------------------
(***************************************************************************)
(* Why it works: the inductive invariant.                                  *)
(***************************************************************************)
Entries == [source: Source, id: Id, at: Time]

TypeOK == /\ wallet \in BOOLEAN
          /\ DOMAIN docs = Source
          /\ \A s \in Source : /\ DOMAIN docs[s] \subseteq Id
                               /\ docs[s] \in [DOMAIN docs[s] -> [kind: Kinds[s], at: Time]]
          /\ query \in Query /\ step \in {"start", "reading", "done"}
          /\ found = [s \in Source |-> found[s]]
          /\ atStart \subseteq Entries /\ writes \in Nat /\ approved \subseteq Id

\* Two documents that share an id are an approved request and its transaction.
DocsOK ==
  /\ \A s, t \in Source : \A i \in DOMAIN docs[s] \cap DOMAIN docs[t] :
       \/ s = t
       \/ /\ {s, t} = {"wallet_transactions", "withdrawals_requests"}
          /\ docs.withdrawals_requests[i].kind = "approved"
  /\ ~wallet => \A s \in {"wallet_transactions", "withdrawals_requests"} : DOMAIN docs[s] = {}

\* What there was to show is still to be shown, but for requests that have been
\* approved.
StartOK == \A e \in atStart :
             /\ e.id \in DOMAIN docs[e.source] /\ docs[e.source][e.id].at = e.at
             /\ Within(e.at, query.period)
             /\ e.id \in approved \/ docs[e.source][e.id].kind \in Wanted(query, e.source)

\* An answer of the database is sorted, and full or complete; what it tells of is
\* there, once, but for a request that has been approved since.
FoundOK(s) ==
  found[s] # None =>
    /\ found[s] \in Seq(Entries) /\ NewestFirst(found[s]) /\ IsInjective(found[s])
    /\ \A e \in ToSet(found[s]) :
         /\ e.source = s /\ e.id \in DOMAIN docs[s] /\ e.at = docs[s][e.id].at
         /\ s = "withdrawals_requests" /\ e.id \in DOMAIN docs.wallet_transactions
              => e.id \in approved
    /\ \/ Len(found[s]) >= FetchLimit(query)
       \/ \A e \in atStart : e.source = s => e \in ToSet(found[s]) \/ e.id \in approved
    /\ writes = 0 => found[s] \in Newest(Matching(query, s), FetchLimit(query))

AnswerOK == step = "done" => /\ \A s \in Source : found[s] # None
                             /\ answer = Page(Merge(found), query)

IInv == TypeOK /\ DocsOK /\ StartOK /\ (\A s \in Source : FoundOK(s)) /\ AnswerOK
===============================================================================
