------------------------ MODULE TransactionHistoryProofs ------------------------
(***************************************************************************)
(* Pages of a history for any number of documents, any time and any limit. *)
(* First that the places of what the queries return are 1, 2, 3, ..., and  *)
(* that a cut of each answer does not change the first of them; then that  *)
(* a page is right, whatever has been written since it was asked for.      *)
(***************************************************************************)
EXTENDS TransactionHistory, FiniteSetTheorems, FunctionTheorems, SequenceTheorems, TLAPS

(***************************************************************************)
(* Finite total orders.  D[p] is p and what comes before it.               *)
(***************************************************************************)
TotalOrder(P, D) ==
  /\ \A p \in P : D[p] \subseteq P /\ p \in D[p]
  /\ \A p, q \in P : q \in D[p] \/ p \in D[q]
  /\ \A p, q \in P : q \in D[p] /\ p \in D[q] => p = q
  /\ \A p, q \in P : q \in D[p] => D[q] \subseteq D[p]

\* The sizes of the D[p] are the numbers from 1 on, in the order of P.
LEMMA PlacesAreNumbers ==
  ASSUME NEW P, IsFiniteSet(P), NEW D, TotalOrder(P, D)
  PROVE  /\ Cardinality(P) \in Nat
         /\ \A p \in P : Cardinality(D[p]) \in 1..Cardinality(P)
         /\ \A p, q \in P : Cardinality(D[p]) < Cardinality(D[q]) <=> p \in D[q] /\ p # q
         /\ \A k \in 1..Cardinality(P) : \E p \in P : Cardinality(D[p]) = k
<1> DEFINE N == Cardinality(P)
           place == [p \in P |-> Cardinality(D[p])]
<1>1. N \in Nat
  BY FS_CardinalityType
<1>2. \A p \in P : IsFiniteSet(D[p]) /\ Cardinality(D[p]) \in 1..N
  <2> SUFFICES ASSUME NEW p \in P PROVE IsFiniteSet(D[p]) /\ Cardinality(D[p]) \in 1..N
    OBVIOUS
  <2>1. D[p] \in SUBSET P /\ D[p] # {}
    BY DEF TotalOrder
  <2>2. IsFiniteSet(D[p]) /\ Cardinality(D[p]) <= N
    BY <2>1, FS_Subset
  <2>3. Cardinality(D[p]) \in Nat /\ Cardinality(D[p]) # 0
    BY <2>1, <2>2, FS_CardinalityType, FS_EmptySet
  <2> QED
    BY <1>1, <2>2, <2>3
<1>3. ASSUME NEW p \in P, NEW q \in P, p \in D[q], p # q
      PROVE  Cardinality(D[p]) < Cardinality(D[q])
  <2>1. D[p] \in SUBSET D[q] /\ D[p] # D[q]
    BY <1>3 DEF TotalOrder
  <2>2. Cardinality(D[p]) <= Cardinality(D[q]) /\ Cardinality(D[p]) # Cardinality(D[q])
    BY <1>2, <2>1, FS_Subset
  <2> QED
    BY <1>1, <1>2, <2>2
<1>4. ASSUME NEW p \in P, NEW q \in P, Cardinality(D[p]) < Cardinality(D[q])
      PROVE  p \in D[q] /\ p # q
  <2>1. p # q
    BY <1>1, <1>2, <1>4
  <2>2. CASE q \in D[p]
    BY <1>1, <1>2, <1>3, <1>4, <2>1, <2>2
  <2> QED
    BY <2>1, <2>2 DEF TotalOrder
<1>5. place \in Surjection(P, 1..N)
  <2>1. \A p, q \in P : place[p] = place[q] => p = q
    <3> SUFFICES ASSUME NEW p \in P, NEW q \in P, place[p] = place[q], p # q PROVE FALSE
      OBVIOUS
    <3>1. p \in D[q] \/ q \in D[p]
      BY DEF TotalOrder
    <3> QED
      BY <1>1, <1>2, <1>3, <3>1
  <2>2. place \in [P -> 1..N]
    BY <1>2
  <2>3. place \in Injection(P, 1..N)
    BY <2>1, <2>2, Fun_IsInj
  <2>4. IsFiniteSet(1..N) /\ Cardinality(1..N) = N
    BY <1>1, FS_Interval
  <2>5. Cardinality(P) = Cardinality(1..N)
    BY <2>4
  <2> HIDE DEF place, N
  <2> QED
    BY <2>3, <2>4, <2>5, FS_Injection
<1>6. \A k \in 1..N : \E p \in P : place[p] = k
  <2> HIDE DEF place, N
  <2> QED
    BY <1>5, Fun_SurjectionProperties
<1> QED
  BY <1>1, <1>2, <1>3, <1>4, <1>6

\* A part P of Q has the first n of Q if whatever it lacks comes after n of its own.
LEMMA CutKeepsPlaces ==
  ASSUME NEW Q, IsFiniteSet(Q), NEW D, TotalOrder(Q, D), NEW P \in SUBSET Q, NEW n \in Nat,
         \A q \in Q \ P : n <= Cardinality(D[q] \cap P)
  PROVE  \A q \in Q : Cardinality(D[q]) <= n => D[q] \subseteq P
<1>1. ASSUME NEW q \in Q \ P
      PROVE  Cardinality(D[q]) > n
  <2>1. q \in D[q] /\ D[q] \in SUBSET Q
    BY DEF TotalOrder
  <2>2. IsFiniteSet(D[q]) /\ IsFiniteSet(D[q] \cap P)
    BY <2>1, FS_Subset, FS_Intersection
  <2>3. IsFiniteSet((D[q] \cap P) \cup {q}) /\ Cardinality((D[q] \cap P) \cup {q}) = Cardinality(D[q] \cap P) + 1
    BY <2>2, FS_AddElement
  <2>4. (D[q] \cap P) \cup {q} \in SUBSET D[q]
    BY <2>1
  <2>5. Cardinality((D[q] \cap P) \cup {q}) <= Cardinality(D[q])
    BY <2>2, <2>4, FS_Subset
  <2>6. Cardinality(D[q] \cap P) \in Nat /\ Cardinality(D[q]) \in Nat
    BY <2>2, FS_CardinalityType
  <2> QED
    BY <2>3, <2>5, <2>6
<1>2. ASSUME NEW q \in Q, Cardinality(D[q]) <= n, NEW r \in D[q], r \notin P
      PROVE  FALSE
  <2>1. r \in Q \ P /\ D[r] \in SUBSET D[q] /\ D[q] \in SUBSET Q
    BY <1>2 DEF TotalOrder
  <2>2. IsFiniteSet(D[q]) /\ IsFiniteSet(D[r])
    BY <2>1, FS_Subset
  <2>3. Cardinality(D[r]) <= Cardinality(D[q])
    BY <2>1, <2>2, FS_Subset
  <2>4. Cardinality(D[r]) \in Nat /\ Cardinality(D[q]) \in Nat
    BY <2>2, FS_CardinalityType
  <2>5. Cardinality(D[r]) > n
    BY <1>1, <2>1
  <2> QED
    BY <1>2, <2>3, <2>4, <2>5
<1> QED
  BY <1>2
-------------------------------------------------------------------------------
(***************************************************************************)
(* Merging the answers of the four queries.                                *)
(***************************************************************************)
LEMMA Sources ==
  /\ Source = {"wallet_transactions", "withdrawals_requests", "buy_orders", "sell_orders"}
  /\ DOMAIN Order = 1..4 /\ IsFiniteSet(DOMAIN Order)
  /\ \A c \in 1..4 : Order[c] \in Source
  /\ \A s \in Source : \E c \in 1..4 : Order[c] = s
  /\ \A c, d \in 1..4 : Order[c] = Order[d] => c = d
<1>1. /\ Source = {"wallet_transactions", "withdrawals_requests", "buy_orders", "sell_orders"}
      /\ DOMAIN Order = 1..4
      /\ Order[1] = "wallet_transactions" /\ Order[2] = "withdrawals_requests"
      /\ Order[3] = "buy_orders" /\ Order[4] = "sell_orders"
  BY DEF Source, Kinds, Order
<1>2. \A c \in 1..4 : c = 1 \/ c = 2 \/ c = 3 \/ c = 4
  OBVIOUS
<1>3. IsFiniteSet(DOMAIN Order)
  <2>1. \A n \in Int : IsFiniteSet(1..n)
    BY FS_Interval
  <2>2. 4 \in Int
    OBVIOUS
  <2> QED
    BY <1>1, <2>1, <2>2
<1> QED
  BY <1>1, <1>2, <1>3

LEMMA TimesAreNatural == \A e \in Entries : e.at \in Nat
BY TimeIsNatural DEF Entries, Time

\* The position p of f, and the entry there.
LEMMA PositionFields ==
  ASSUME NEW f \in [Source -> Seq(Entries)]
  PROVE  /\ IsFiniteSet(Positions(f))
         /\ \A p \in Positions(f) : /\ p = <<p[1], p[2]>> /\ p[1] \in 1..4 /\ Order[p[1]] \in Source
                                    /\ p[2] \in 1..Len(f[Order[p[1]]])
                                    /\ At(f, p) \in Entries /\ At(f, p).at \in Nat
         /\ \A c \in 1..4 : \A i \in 1..Len(f[Order[c]]) : <<c, i>> \in Positions(f)
<1>1. \A c \in 1..4 : /\ f[Order[c]] \in Seq(Entries) /\ Len(f[Order[c]]) \in Nat
                      /\ DOMAIN f[Order[c]] = 1..Len(f[Order[c]])
  BY Sources, LenProperties
<1>2. IsFiniteSet(Positions(f))
  <2> DEFINE part == [c \in DOMAIN Order |-> {c} \X DOMAIN f[Order[c]]]
             parts == {part[c] : c \in DOMAIN Order}
  <2>1. \A c \in DOMAIN Order : IsFiniteSet(part[c])
    <3> SUFFICES ASSUME NEW c \in DOMAIN Order PROVE IsFiniteSet({c} \X DOMAIN f[Order[c]])
      OBVIOUS
    <3>1. Len(f[Order[c]]) \in Int /\ DOMAIN f[Order[c]] = 1..Len(f[Order[c]])
      BY <1>1, Sources
    <3>2. IsFiniteSet(DOMAIN f[Order[c]])
      BY <3>1, FS_Interval
    <3> QED
      BY <3>2, FS_Singleton, FS_Product
  <2>2. part \in Surjection(DOMAIN Order, parts)
    BY DEF Surjection
  <2>3. IsFiniteSet(parts)
    BY <2>2, Sources, FS_Surjection
  <2>4. IsFiniteSet(UNION parts)
    BY <2>1, <2>3, FS_UNION
  <2>5. Positions(f) = UNION parts
    BY DEF Positions
  <2> QED
    BY <2>4, <2>5
<1>3. ASSUME NEW p \in Positions(f)
      PROVE  /\ p = <<p[1], p[2]>> /\ p[1] \in 1..4 /\ Order[p[1]] \in Source
             /\ p[2] \in 1..Len(f[Order[p[1]]])
             /\ At(f, p) \in Entries /\ At(f, p).at \in Nat
  <2>1. /\ p = <<p[1], p[2]>> /\ p[1] \in 1..4 /\ p[2] \in DOMAIN f[Order[p[1]]]
    BY Sources DEF Positions
  <2>2. At(f, p) \in Entries
    BY <1>1, <2>1, ElementOfSeq DEF At
  <2> QED
    BY <1>1, <2>1, <2>2, Sources, TimesAreNatural
<1>4. ASSUME NEW c \in 1..4, NEW i \in 1..Len(f[Order[c]])
      PROVE  <<c, i>> \in Positions(f)
  <2>1. c \in DOMAIN Order /\ i \in DOMAIN f[Order[c]]
    BY <1>1, Sources
  <2>2. <<c, i>> \in {c} \X DOMAIN f[Order[c]]
    BY <2>1
  <2> QED
    BY <2>1, <2>2 DEF Positions
<1> QED
  BY <1>2, <1>3, <1>4

\* A position and those before it.
UpTo(f) == [p \in Positions(f) |-> {q \in Positions(f) : q = p \/ Before(f, q, p)}]

LEMMA PositionsAreOrdered ==
  ASSUME NEW f \in [Source -> Seq(Entries)]
  PROVE  TotalOrder(Positions(f), UpTo(f))
<1> DEFINE P == Positions(f)
<1>1. \A p \in P : /\ p = <<p[1], p[2]>> /\ p[1] \in Int /\ p[2] \in Int /\ At(f, p).at \in Int
  BY PositionFields
<1>2. \A p, q \in P : p = q \/ Before(f, p, q) \/ Before(f, q, p)
  BY <1>1 DEF Before
<1>3. \A p, q \in P : Before(f, p, q) /\ Before(f, q, p) => FALSE
  BY <1>1 DEF Before
<1>4. \A p, q, r \in P : Before(f, p, q) /\ Before(f, q, r) => Before(f, p, r)
  BY <1>1 DEF Before
<1>5. \A p, q \in P : q \in UpTo(f)[p] <=> q = p \/ Before(f, q, p)
  BY DEF UpTo
<1>6. \A p \in P : UpTo(f)[p] \subseteq P /\ p \in UpTo(f)[p]
  BY DEF UpTo
<1>7. \A p, q \in P : q \in UpTo(f)[p] \/ p \in UpTo(f)[q]
  BY <1>2, <1>5
<1>8. \A p, q \in P : q \in UpTo(f)[p] /\ p \in UpTo(f)[q] => p = q
  BY <1>3, <1>5
<1>9. \A p, q \in P : q \in UpTo(f)[p] => UpTo(f)[q] \subseteq UpTo(f)[p]
  <2> SUFFICES ASSUME NEW p \in P, NEW q \in P, q \in UpTo(f)[p], NEW r \in UpTo(f)[q]
               PROVE  r \in UpTo(f)[p]
    OBVIOUS
  <2>1. r \in P
    BY <1>6
  <2> QED
    BY <1>4, <1>5, <2>1
<1> QED
  BY <1>6, <1>7, <1>8, <1>9 DEF TotalOrder

LEMMA PlaceIsCardinality ==
  ASSUME NEW f, NEW p \in Positions(f)
  PROVE  Place(f, p) = Cardinality(UpTo(f)[p])
BY DEF Place, UpTo

\* The merged history has each position once, at its place.
LEMMA MergeIsInPlace ==
  ASSUME NEW f \in [Source -> Seq(Entries)]
  PROVE  LET N == Cardinality(Positions(f))
         IN  /\ N \in Nat /\ Merge(f) \in [1..N -> Entries]
             /\ \A p \in Positions(f) : Place(f, p) \in 1..N /\ Merge(f)[Place(f, p)] = At(f, p)
             /\ \A k \in 1..N : \E p \in Positions(f) : Place(f, p) = k
             /\ \A p, q \in Positions(f) : Place(f, p) = Place(f, q) => p = q
             /\ \A p, q \in Positions(f) : Place(f, p) < Place(f, q) => Before(f, p, q)
<1> DEFINE N == Cardinality(Positions(f))
           P == Positions(f)
           the(k) == CHOOSE p \in P : Place(f, p) = k
<1>1. /\ N \in Nat
      /\ \A p \in P : Place(f, p) \in 1..N
      /\ \A p, q \in P : Place(f, p) < Place(f, q) <=> p \in UpTo(f)[q] /\ p # q
      /\ \A k \in 1..N : \E p \in P : Place(f, p) = k
  <2>1. IsFiniteSet(P) /\ TotalOrder(P, UpTo(f))
    BY PositionFields, PositionsAreOrdered
  <2> HIDE DEF P
  <2>2. /\ Cardinality(P) \in Nat
        /\ \A p \in P : Cardinality(UpTo(f)[p]) \in 1..Cardinality(P)
        /\ \A p, q \in P : Cardinality(UpTo(f)[p]) < Cardinality(UpTo(f)[q]) <=> p \in UpTo(f)[q] /\ p # q
        /\ \A k \in 1..Cardinality(P) : \E p \in P : Cardinality(UpTo(f)[p]) = k
    BY <2>1, PlacesAreNumbers
  <2>3. \A p \in P : Place(f, p) = Cardinality(UpTo(f)[p])
    BY PlaceIsCardinality DEF P
  <2> QED
    BY <2>2, <2>3 DEF P
<1>2. \A p, q \in P : Place(f, p) = Place(f, q) => p = q
  <2> SUFFICES ASSUME NEW p \in P, NEW q \in P, Place(f, p) = Place(f, q), p # q PROVE FALSE
    OBVIOUS
  <2>1. p \in UpTo(f)[q] \/ q \in UpTo(f)[p]
    BY PositionsAreOrdered DEF TotalOrder
  <2>2. Place(f, p) < Place(f, q) \/ Place(f, q) < Place(f, p)
    BY <1>1, <2>1
  <2> QED
    BY <1>1, <2>2
<1>3. \A p, q \in P : Place(f, p) < Place(f, q) => Before(f, p, q)
  BY <1>1 DEF UpTo
<1>4. \A k \in 1..N : the(k) \in P /\ Place(f, the(k)) = k
  BY <1>1
<1>5. \A p \in P : the(Place(f, p)) = p
  <2> SUFFICES ASSUME NEW p \in P PROVE the(Place(f, p)) = p
    OBVIOUS
  <2>1. the(Place(f, p)) \in P /\ Place(f, the(Place(f, p))) = Place(f, p)
    BY <1>1, <1>4
  <2> QED
    BY <1>2, <2>1
<1>6. Merge(f) = [k \in 1..N |-> At(f, the(k))]
  BY DEF Merge
<1>7. \A p \in P : At(f, p) \in Entries
  BY PositionFields
<1> HIDE DEF the
<1>8. Merge(f) \in [1..N -> Entries]
  BY <1>4, <1>6, <1>7
<1>9. \A p \in P : Merge(f)[Place(f, p)] = At(f, p)
  BY <1>1, <1>5, <1>6
<1> QED
  BY <1>1, <1>2, <1>3, <1>8, <1>9

LEMMA MergeIsSorted ==
  ASSUME NEW f \in [Source -> Seq(Entries)]
  PROVE  NewestFirst(Merge(f))
<1> DEFINE N == Cardinality(Positions(f))
<1>1. N \in Nat /\ DOMAIN Merge(f) = 1..N
  BY MergeIsInPlace
<1> SUFFICES ASSUME NEW i \in 1..N, NEW j \in 1..N, i < j
             PROVE  Merge(f)[i].at >= Merge(f)[j].at
  BY <1>1 DEF NewestFirst
<1>2. PICK p \in Positions(f) : Place(f, p) = i
  BY MergeIsInPlace
<1>3. PICK q \in Positions(f) : Place(f, q) = j
  BY MergeIsInPlace
<1>4. Before(f, p, q) /\ Merge(f)[i] = At(f, p) /\ Merge(f)[j] = At(f, q)
  BY <1>2, <1>3, MergeIsInPlace
<1>5. At(f, p).at \in Nat /\ At(f, q).at \in Nat
  BY PositionFields
<1> QED
  BY <1>4, <1>5 DEF Before

LEMMA MergeHasAll ==
  ASSUME NEW f \in [Source -> Seq(Entries)]
  PROVE  ToSet(Merge(f)) = UNION {ToSet(f[s]) : s \in Source}
<1> DEFINE N == Cardinality(Positions(f))
<1>1. N \in Nat /\ DOMAIN Merge(f) = 1..N
  BY MergeIsInPlace
<1>2. \A s \in Source : DOMAIN f[s] = 1..Len(f[s])
  BY LenProperties
<1>3. ASSUME NEW k \in 1..N
      PROVE  \E s \in Source : Merge(f)[k] \in ToSet(f[s])
  <2>1. PICK p \in Positions(f) : Place(f, p) = k
    BY MergeIsInPlace
  <2>2. Merge(f)[k] = f[Order[p[1]]][p[2]]
    BY <2>1, MergeIsInPlace DEF At
  <2>3. Order[p[1]] \in Source /\ p[2] \in 1..Len(f[Order[p[1]]])
    BY PositionFields
  <2> QED
    BY <1>2, <2>2, <2>3 DEF ToSet
<1>4. ASSUME NEW s \in Source, NEW i \in 1..Len(f[s])
      PROVE  f[s][i] \in ToSet(Merge(f))
  <2>1. PICK c \in 1..4 : Order[c] = s
    BY Sources
  <2>2. <<c, i>> \in Positions(f)
    BY <2>1, PositionFields
  <2>3. At(f, <<c, i>>) = f[s][i]
    BY <2>1 DEF At
  <2>4. Place(f, <<c, i>>) \in 1..N /\ Merge(f)[Place(f, <<c, i>>)] = At(f, <<c, i>>)
    BY <2>2, MergeIsInPlace
  <2> QED
    BY <1>1, <2>3, <2>4 DEF ToSet
<1> QED
  BY <1>1, <1>2, <1>3, <1>4 DEF ToSet

\* Answers that repeat nothing, of entries that tell their sources.
Distinct(f) == \A s \in Source : IsInjective(f[s]) /\ \A e \in ToSet(f[s]) : e.source = s

LEMMA DistinctPositions ==
  ASSUME NEW f \in [Source -> Seq(Entries)], Distinct(f)
  PROVE  \A p, q \in Positions(f) : At(f, p) = At(f, q) => p = q
<1> SUFFICES ASSUME NEW p \in Positions(f), NEW q \in Positions(f), At(f, p) = At(f, q)
             PROVE  p = q
  OBVIOUS
<1>1. /\ p = <<p[1], p[2]>> /\ p[1] \in 1..4 /\ Order[p[1]] \in Source /\ p[2] \in 1..Len(f[Order[p[1]]])
      /\ q = <<q[1], q[2]>> /\ q[1] \in 1..4 /\ Order[q[1]] \in Source /\ q[2] \in 1..Len(f[Order[q[1]]])
  BY PositionFields
<1>2. /\ DOMAIN f[Order[p[1]]] = 1..Len(f[Order[p[1]]])
      /\ DOMAIN f[Order[q[1]]] = 1..Len(f[Order[q[1]]])
  BY <1>1, LenProperties
<1>3. At(f, p).source = Order[p[1]] /\ At(f, q).source = Order[q[1]]
  BY <1>1, <1>2 DEF Distinct, At, ToSet
<1>4. p[1] = q[1]
  BY <1>1, <1>3, Sources
<1>5. f[Order[p[1]]][p[2]] = f[Order[p[1]]][q[2]] /\ IsInjective(f[Order[p[1]]])
  BY <1>1, <1>4 DEF At, Distinct
<1>6. p[2] = q[2]
  BY <1>1, <1>2, <1>4, <1>5 DEF IsInjective
<1> QED
  BY <1>1, <1>4, <1>6

LEMMA MergeIsInjective ==
  ASSUME NEW f \in [Source -> Seq(Entries)], Distinct(f)
  PROVE  IsInjective(Merge(f))
<1> DEFINE N == Cardinality(Positions(f))
<1>1. N \in Nat /\ DOMAIN Merge(f) = 1..N
  BY MergeIsInPlace
<1> SUFFICES ASSUME NEW i \in 1..N, NEW j \in 1..N, Merge(f)[i] = Merge(f)[j]
             PROVE  i = j
  BY <1>1 DEF IsInjective
<1>2. PICK p \in Positions(f) : Place(f, p) = i
  BY MergeIsInPlace
<1>3. PICK q \in Positions(f) : Place(f, q) = j
  BY MergeIsInPlace
<1>4. At(f, p) = At(f, q)
  BY <1>2, <1>3, MergeIsInPlace
<1> QED
  BY <1>2, <1>3, <1>4, DistinctPositions

\* Answers cut after n entries begin with the same n entries as the whole.
LEMMA CutsAgree ==
  ASSUME NEW f \in [Source -> Seq(Entries)], NEW g \in [Source -> Seq(Entries)], NEW n \in Nat,
         \A s \in Source : NewestFirst(g[s]) /\ f[s] = SubSeq(g[s], 1, Least(n, Len(g[s])))
  PROVE  LET M == Cardinality(Positions(f))
             N == Cardinality(Positions(g))
         IN  /\ M \in Nat /\ N \in Nat /\ M <= N
             /\ \A k \in 1..N : k <= n => k <= M /\ Merge(f)[k] = Merge(g)[k]
             /\ N <= n => M = N
<1> DEFINE P == Positions(f)
           Q == Positions(g)
           D == UpTo(g)
           M == Cardinality(P)
           N == Cardinality(Q)
<1>1. M \in Nat /\ N \in Nat
  BY MergeIsInPlace
<1>2. ASSUME NEW s \in Source
      PROVE  /\ Len(g[s]) \in Nat /\ Len(f[s]) = Least(n, Len(g[s]))
             /\ \A i \in 1..Len(f[s]) : f[s][i] = g[s][i]
             /\ DOMAIN g[s] = 1..Len(g[s])
  <2>1. g[s] \in Seq(Entries) /\ Len(g[s]) \in Nat /\ DOMAIN g[s] = 1..Len(g[s])
    BY LenProperties
  <2>2. Least(n, Len(g[s])) \in Nat /\ Least(n, Len(g[s])) <= Len(g[s])
    BY <2>1 DEF Least
  <2>3. \A i \in 1..Least(n, Len(g[s])) : g[s][i] \in Entries
    BY <2>1, <2>2, ElementOfSeq
  <2>4. f[s] = SubSeq(g[s], 1, Least(n, Len(g[s])))
    OBVIOUS
  <2>5. /\ Len(f[s]) = (IF 1 <= Least(n, Len(g[s])) THEN Least(n, Len(g[s])) - 1 + 1 ELSE 0)
        /\ \A i \in 1..(Least(n, Len(g[s])) - 1 + 1) : f[s][i] = g[s][1 + i - 1]
    BY <2>2, <2>3, <2>4, SubSeqProperties
  <2> QED
    BY <2>1, <2>2, <2>5
<1>3. \A p \in P : p \in Q /\ At(f, p) = At(g, p)
  <2> SUFFICES ASSUME NEW p \in P PROVE p \in Q /\ At(f, p) = At(g, p)
    OBVIOUS
  <2>1. p = <<p[1], p[2]>> /\ p[1] \in 1..4 /\ Order[p[1]] \in Source /\ p[2] \in 1..Len(f[Order[p[1]]])
    BY PositionFields
  <2>2. p[2] \in 1..Len(g[Order[p[1]]]) /\ f[Order[p[1]]][p[2]] = g[Order[p[1]]][p[2]]
    BY <1>2, <2>1 DEF Least
  <2>3. <<p[1], p[2]>> \in Positions(g)
    BY <2>1, <2>2, PositionFields
  <2> QED
    BY <2>1, <2>2, <2>3 DEF At
<1>4. ASSUME NEW q \in Q \ P
      PROVE  n <= Cardinality(D[q] \cap P)
  <2> DEFINE s == Order[q[1]]
             mates == {q[1]} \X (1..n)
  <2>1. q = <<q[1], q[2]>> /\ q[1] \in 1..4 /\ s \in Source /\ q[2] \in 1..Len(g[s])
    BY PositionFields
  <2>2. q[2] \notin 1..Len(f[s])
    BY <2>1, PositionFields
  <2>3. Len(f[s]) = n /\ n < q[2] /\ n <= Len(g[s])
    BY <1>2, <2>1, <2>2 DEF Least
  <2>4. ASSUME NEW i \in 1..n
        PROVE  <<q[1], i>> \in D[q] \cap P
    <3>1. <<q[1], i>> \in P
      BY <2>1, <2>3, PositionFields
    <3>2. i \in 1..Len(g[s]) /\ i < q[2]
      BY <2>1, <2>3, <1>2
    <3>3. g[s][i].at >= g[s][q[2]].at
      BY <1>2, <2>1, <3>2 DEF NewestFirst
    <3>4. g[s][i].at \in Nat /\ g[s][q[2]].at \in Nat
      BY <2>1, <3>2, ElementOfSeq, TimesAreNatural
    <3>5. At(g, <<q[1], i>>) = g[s][i] /\ At(g, q) = g[s][q[2]]
      BY DEF At
    <3>6. Before(g, <<q[1], i>>, q)
      BY <3>2, <3>3, <3>4, <3>5 DEF Before
    <3> QED
      BY <1>3, <3>1, <3>6 DEF UpTo
  <2>5. IsFiniteSet(mates) /\ Cardinality(mates) = n
    <3>1. IsFiniteSet(1..n) /\ Cardinality(1..n) = n
      BY FS_Interval
    <3>2. IsFiniteSet({q[1]}) /\ Cardinality({q[1]}) = 1
      BY FS_Singleton
    <3>3. IsFiniteSet(mates) /\ Cardinality(mates) = 1 * Cardinality(1..n)
      BY <3>1, <3>2, FS_Product
    <3> QED
      BY <3>1, <3>3
  <2>6. mates \in SUBSET (D[q] \cap P)
    BY <2>4
  <2>7. IsFiniteSet(D[q] \cap P)
    BY PositionFields, FS_Intersection
  <2> HIDE DEF mates, D, P
  <2>8. Cardinality(mates) <= Cardinality(D[q] \cap P)
    BY <2>6, <2>7, FS_Subset
  <2> QED
    BY <2>5, <2>8
<1>5. P \in SUBSET Q /\ IsFiniteSet(Q) /\ TotalOrder(Q, D)
  BY <1>3, PositionFields, PositionsAreOrdered
<1>6. M <= N
  <2> HIDE DEF P, Q
  <2> QED
    BY <1>5, FS_Subset
<1>7. \A q \in Q : Cardinality(D[q]) <= n => D[q] \subseteq P
  <2> HIDE DEF P, Q, D
  <2> QED
    BY <1>4, <1>5, CutKeepsPlaces
<1>8. ASSUME NEW k \in 1..N, k <= n
      PROVE  k <= M /\ Merge(f)[k] = Merge(g)[k]
  <2>1. PICK q \in Q : Place(g, q) = k
    BY MergeIsInPlace
  <2>2. Cardinality(D[q]) = k
    BY <2>1, PlaceIsCardinality
  <2>3. D[q] \subseteq P /\ q \in D[q]
    BY <1>5, <1>7, <1>8, <2>2 DEF TotalOrder
  <2>4. UpTo(f)[q] = D[q]
    <3>1. \A r \in P : Before(f, r, q) <=> Before(g, r, q)
      BY <1>3, <2>3 DEF Before
    <3> QED
      BY <1>3, <2>3, <3>1 DEF UpTo
  <2>5. Place(f, q) = k
    BY <2>2, <2>3, <2>4, PlaceIsCardinality
  <2>6. /\ Place(f, q) \in 1..M /\ Merge(f)[Place(f, q)] = At(f, q)
        /\ Merge(g)[Place(g, q)] = At(g, q)
    BY <2>3, MergeIsInPlace
  <2> QED
    BY <1>1, <1>3, <2>1, <2>3, <2>5, <2>6
<1>9. N <= n => M = N
  <2> SUFFICES ASSUME N <= n, N # 0 PROVE N <= M
    BY <1>1, <1>6
  <2> QED
    BY <1>1, <1>8
<1> QED
  BY <1>1, <1>6, <1>8, <1>9
-------------------------------------------------------------------------------
(***************************************************************************)
(* The page of a quiet read.                                               *)
(***************************************************************************)
\* The arrangements of a finite set.
LEMMA ArrangementFields ==
  ASSUME NEW S, IsFiniteSet(S), NEW r \in SetToSeqs(S)
  PROVE  /\ r \in Seq(S) /\ Len(r) = Cardinality(S) /\ DOMAIN r = 1..Len(r)
         /\ IsInjective(r) /\ ToSet(r) = S
<1> DEFINE N == Cardinality(S)
<1>1. N \in Nat
  BY FS_CardinalityType
<1>2. r \in [1..N -> S] /\ \A i, j \in 1..N : r[i] = r[j] => i = j
  BY DEF SetToSeqs
<1>3. r \in Injection(1..N, S)
  BY <1>2, Fun_IsInj
<1>4. IsFiniteSet(1..N) /\ Cardinality(1..N) = Cardinality(S)
  BY <1>1, FS_Interval
<1>5. r \in Surjection(1..N, S)
  <2> HIDE DEF N
  <2> QED
    BY <1>3, <1>4, FS_Injection
<1>6. \A x \in S : \E i \in 1..N : r[i] = x
  BY <1>5 DEF Surjection
<1>7. r \in Seq(S) /\ Len(r) = N
  <2> HIDE DEF N
  <2> QED
    BY <1>1, <1>2
<1>8. ToSet(r) = S
  BY <1>2, <1>6 DEF ToSet
<1>9. IsInjective(r)
  BY <1>2 DEF IsInjective
<1> QED
  BY <1>2, <1>7, <1>8, <1>9

LEMMA ArrangementsAre ==
  ASSUME NEW S, NEW n \in Nat, NEW r, DOMAIN r = 1..n, r = [k \in 1..n |-> r[k]],
         IsInjective(r), ToSet(r) = S
  PROVE  IsFiniteSet(S) /\ Cardinality(S) = n /\ r \in SetToSeqs(S)
<1>1. r \in [1..n -> S] /\ (\A x \in S : \E k \in 1..n : r[k] = x)
      /\ \A i, j \in 1..n : r[i] = r[j] => i = j
  BY DEF ToSet, IsInjective
<1>2. r \in Surjection(1..n, S) /\ r \in Injection(1..n, S)
  BY <1>1, Fun_IsSurj, Fun_IsInj
<1>3. IsFiniteSet(1..n) /\ Cardinality(1..n) = n
  BY FS_Interval
<1>4. IsFiniteSet(S) /\ Cardinality(S) = n
  BY <1>2, <1>3, FS_Surjection
<1> QED
  BY <1>1, <1>4 DEF SetToSeqs

LEMMA QueryFields ==
  ASSUME NEW q \in Query
  PROVE  /\ q.page \in Nat \ {0} /\ q.limit \in Nat \ {0} /\ q.period \in Period
         /\ Skip(q) \in Nat /\ FetchLimit(q) \in Nat
         /\ q.page = 1 => Skip(q) = 0
<1>1. q.page \in Nat \ {0} /\ q.limit \in Nat \ {0} /\ q.period \in Period
  <2> DEFINE types == {"deposit", "withdrawal", "buy", "sell", AnyType}
             pages == 1..MaxPage
  <2>1. q \in [type: types, page: pages, limit: Limit, period: Period]
    BY DEF Query
  <2> HIDE DEF types, pages
  <2>2. q.page \in pages /\ q.limit \in Limit /\ q.period \in Period
    BY <2>1
  <2>3. Limit \subseteq Nat \ {0} /\ pages \subseteq Nat \ {0}
    BY PagesArePositive DEF pages
  <2> QED
    BY <2>2, <2>3
<1>2. q.page - 1 \in Nat /\ q.limit \in Nat
  BY <1>1
<1>3. \A a, b \in Nat : a * b \in Nat
  OBVIOUS
<1>4. Skip(q) \in Nat
  BY <1>2, <1>3 DEF Skip
<1>5. q.page = 1 => Skip(q) = 0
  BY <1>1 DEF Skip
<1> QED
  BY <1>1, <1>4, <1>5 DEF FetchLimit

LEMMA MatchingFields ==
  ASSUME TypeOK, NEW s \in Source
  PROVE  /\ IsFiniteSet(Matching(query, s)) /\ Matching(query, s) \subseteq Entries
         /\ \A e \in Matching(query, s) :
              /\ e.source = s /\ e.id \in DOMAIN docs[s] /\ e.at = docs[s][e.id].at
              /\ docs[s][e.id].kind \in Wanted(query, s) /\ Within(e.at, query.period)
<1> DEFINE ids == {j \in DOMAIN docs[s] : docs[s][j].kind \in Wanted(query, s)
                                           /\ Within(docs[s][j].at, query.period)}
           entry == [i \in ids |-> Entry(s, i)]
<1>1. \A i \in DOMAIN docs[s] : i \in Id /\ docs[s][i].at \in Time
  BY DEF TypeOK
<1>2. IsFiniteSet(ids)
  BY <1>1, IdsAreFinite, FS_Subset
<1>3. Matching(query, s) = {entry[i] : i \in ids}
  BY DEF Matching
<1>4. entry \in Surjection(ids, Matching(query, s))
  BY <1>3 DEF Surjection
<1>5. IsFiniteSet(Matching(query, s))
  <2> HIDE DEF entry, ids
  <2> QED
    BY <1>2, <1>4, FS_Surjection
<1>6. ASSUME NEW e \in Matching(query, s)
      PROVE  /\ e \in Entries /\ e.source = s /\ e.id \in DOMAIN docs[s] /\ e.at = docs[s][e.id].at
             /\ docs[s][e.id].kind \in Wanted(query, s) /\ Within(e.at, query.period)
  <2>1. PICK i \in ids : e = [source |-> s, id |-> i, at |-> docs[s][i].at]
    BY <1>3 DEF Entry
  <2> QED
    BY <1>1, <2>1 DEF Entries
<1> QED
  BY <1>5, <1>6

\* The four queries ask for the whole history.
LEMMA WholeIsMatching ==
  ASSUME TypeOK
  PROVE  Whole(query) = UNION {Matching(query, s) : s \in Source}
<1>1. ASSUME NEW s \in Source, NEW i \in DOMAIN docs[s]
      PROVE  docs[s][i].kind \in Wanted(query, s)
               <=> ~Superseded(Entry(s, i)) /\ query.type \in {TypeOf(Entry(s, i)), AnyType}
  <2>1. docs[s][i].kind \in Kinds[s]
    BY DEF TypeOK
  <2>2. Entry(s, i).source = s /\ Entry(s, i).id = i
    BY DEF Entry
  <2>3. CASE s = "wallet_transactions"
    <3>1. docs[s][i].kind \in {"deposit", "withdrawal", "manual_credit", "manual_debit"}
      BY <2>1, <2>3 DEF Kinds
    <3> QED
      BY <2>2, <2>3, <3>1 DEF Wanted, ShouldInclude, Superseded, TypeOf
  <2>4. CASE s = "withdrawals_requests"
    <3>1. docs[s][i].kind \in {"pending", "approved", "rejected"}
      BY <2>1, <2>4 DEF Kinds
    <3> QED
      BY <2>2, <2>4, <3>1 DEF Wanted, ShouldInclude, ShownRequests, Superseded, TypeOf
  <2>5. CASE s = "buy_orders"
    <3>1. docs[s][i].kind = "filled"
      BY <2>1, <2>5 DEF Kinds
    <3> QED
      BY <2>2, <2>5, <3>1 DEF Wanted, ShouldInclude, Superseded, TypeOf
  <2>6. CASE s = "sell_orders"
    <3>1. docs[s][i].kind = "filled"
      BY <2>1, <2>6 DEF Kinds
    <3> QED
      BY <2>2, <2>6, <3>1 DEF Wanted, ShouldInclude, Superseded, TypeOf
  <2> QED
    BY <2>3, <2>4, <2>5, <2>6, Sources
<1>2. \A s \in Source : \A i \in DOMAIN docs[s] : Entry(s, i).at = docs[s][i].at
  BY DEF Entry
<1>3. \A e : e \in Whole(query) <=> \E s \in Source : \E i \in DOMAIN docs[s] :
                e = Entry(s, i) /\ ~Superseded(e) /\ query.type \in {TypeOf(e), AnyType}
                /\ Within(e.at, query.period)
  BY DEF Whole
<1>4. \A e : e \in UNION {Matching(query, s) : s \in Source} <=>
                \E s \in Source : \E i \in DOMAIN docs[s] :
                  e = Entry(s, i) /\ docs[s][i].kind \in Wanted(query, s)
                  /\ Within(docs[s][i].at, query.period)
  BY DEF Matching
<1> QED
  BY <1>1, <1>2, <1>3, <1>4

LEMMA QuietPageIsExact ==
  ASSUME TypeOK, answer = Page(Merge(found), query),
         \A s \in Source : found[s] \in Newest(Matching(query, s), FetchLimit(query))
  PROVE  \E whole \in SetToSeqs(Whole(query)) :
           /\ NewestFirst(whole)
           /\ answer.data = SubSeq(whole, Skip(query) + 1, Least(Skip(query) + query.limit, Len(whole)))
           /\ answer.hasMore = (Len(whole) > Skip(query) + query.limit)
<1> DEFINE n == FetchLimit(query)
           end == Skip(query) + query.limit
           all == [s \in Source |-> CHOOSE r \in SetToSeqs(Matching(query, s)) :
                     NewestFirst(r) /\ found[s] = SubSeq(r, 1, Least(n, Len(r)))]
<1>1. PICK g : /\ g = [s \in Source |-> g[s]]
               /\ \A s \in Source : /\ g[s] \in SetToSeqs(Matching(query, s)) /\ NewestFirst(g[s])
                                    /\ found[s] = SubSeq(g[s], 1, Least(n, Len(g[s])))
  <2>1. \A s \in Source : \E r \in SetToSeqs(Matching(query, s)) :
          NewestFirst(r) /\ found[s] = SubSeq(r, 1, Least(n, Len(r)))
    BY DEF Newest
  <2>2. \A s \in Source : /\ all[s] \in SetToSeqs(Matching(query, s)) /\ NewestFirst(all[s])
                          /\ found[s] = SubSeq(all[s], 1, Least(n, Len(all[s])))
    BY <2>1
  <2>3. all = [s \in Source |-> all[s]]
    OBVIOUS
  <2> HIDE DEF all, n
  <2> QED
    BY <2>2, <2>3
<1> DEFINE M == Cardinality(Positions(found))
           N == Cardinality(Positions(g))
<1>2. ASSUME NEW s \in Source
      PROVE  /\ g[s] \in Seq(Entries) /\ IsInjective(g[s]) /\ ToSet(g[s]) = Matching(query, s)
             /\ found[s] \in Seq(Entries)
  <2>1. PICK r : r = g[s]
    OBVIOUS
  <2>2. r \in SetToSeqs(Matching(query, s)) /\ found[s] = SubSeq(r, 1, Least(n, Len(r)))
    BY <1>1, <2>1
  <2>3. n \in Nat
    BY QueryFields DEF TypeOK
  <2> HIDE DEF n
  <2>4. /\ r \in Seq(Matching(query, s)) /\ Len(r) = Cardinality(Matching(query, s))
        /\ DOMAIN r = 1..Len(r) /\ IsInjective(r) /\ ToSet(r) = Matching(query, s)
    BY <2>2, MatchingFields, ArrangementFields
  <2>5. r \in Seq(Entries) /\ Len(r) \in Nat
    BY <2>4, MatchingFields, SeqMonotonic, LenProperties
  <2>6. PICK k : k = Least(n, Len(r))
    OBVIOUS
  <2>7. k \in Int /\ \A i \in 1..k : i \in 1..Len(r)
    BY <2>3, <2>5, <2>6 DEF Least
  <2>8. \A i \in 1..k : r[i] \in Entries
    BY <2>5, <2>7, ElementOfSeq
  <2>9. SubSeq(r, 1, k) \in Seq(Entries)
    BY <2>7, <2>8, SubSeqProperties
  <2>10. found[s] \in Seq(Entries)
    BY <2>2, <2>6, <2>9
  <2> QED
    BY <2>1, <2>4, <2>5, <2>10
<1>3. g \in [Source -> Seq(Entries)] /\ found \in [Source -> Seq(Entries)] /\ n \in Nat
  BY <1>1, <1>2, QueryFields DEF TypeOK
<1>4. Distinct(g)
  BY <1>2, MatchingFields DEF Distinct
<1> HIDE DEF n
<1>5. /\ M \in Nat /\ N \in Nat /\ M <= N
      /\ \A k \in 1..N : k <= n => k <= M /\ Merge(found)[k] = Merge(g)[k]
      /\ N <= n => M = N
  <2>1. \A s \in Source : NewestFirst(g[s]) /\ found[s] = SubSeq(g[s], 1, Least(n, Len(g[s])))
    BY <1>1
  <2> QED
    BY <1>3, <2>1, CutsAgree
<1>6. /\ Merge(g) \in [1..N -> Entries] /\ Merge(found) \in [1..M -> Entries]
      /\ Len(Merge(g)) = N /\ Len(Merge(found)) = M
  BY <1>3, <1>5, MergeIsInPlace
<1>7. Merge(g) \in SetToSeqs(Whole(query)) /\ NewestFirst(Merge(g))
  <2>1. ToSet(Merge(g)) = UNION {Matching(query, s) : s \in Source}
    BY <1>2, <1>3, MergeHasAll
  <2>2. IsInjective(Merge(g)) /\ NewestFirst(Merge(g))
    BY <1>3, <1>4, MergeIsInjective, MergeIsSorted
  <2>3. DOMAIN Merge(g) = 1..N /\ Merge(g) = [k \in 1..N |-> Merge(g)[k]]
    BY <1>6
  <2> QED
    BY <1>5, <2>1, <2>2, <2>3, WholeIsMatching, ArrangementsAre
<1>8. n = end + 1 /\ end \in Nat /\ Skip(query) \in Nat /\ query.limit \in Nat
  BY QueryFields DEF n, FetchLimit, TypeOK
<1>9. answer.hasMore = (N > end)
  <2>1. answer.hasMore = (M > end)
    BY <1>6 DEF Page
  <2>2. N > end => n \in 1..N
    BY <1>5, <1>8
  <2> QED
    BY <1>5, <1>8, <2>1, <2>2
<1>10. answer.data = SubSeq(Merge(g), Skip(query) + 1, Least(end, N))
  <2>1. answer.data = SubSeq(Merge(found), Skip(query) + 1, Least(end, M))
    BY <1>6 DEF Page
  <2>2. Least(end, M) = Least(end, N)
    <3>1. CASE N <= end
      BY <1>5, <1>8, <3>1 DEF Least
    <3>2. CASE N > end
      <4>1. n \in 1..N
        BY <1>5, <1>8, <3>2
      <4> QED
        BY <1>5, <1>8, <4>1 DEF Least
    <3> QED
      BY <1>5, <1>8, <3>1, <3>2
  <2> DEFINE last == Least(end, N)
             from == Skip(query) + 1
  <2>3. last \in Int /\ from \in Int /\ last <= N /\ last <= n /\ from >= 1
    BY <1>5, <1>8 DEF Least
  <2>4. \A i \in from..last : /\ Merge(found)[i] = Merge(g)[i]
                              /\ Merge(found)[i] \in Entries /\ Merge(g)[i] \in Entries
    <3>1. \A i \in from..last : i \in 1..N /\ i <= n
      BY <1>5, <1>8, <2>3
    <3>2. \A i \in from..last : i \in 1..M /\ Merge(found)[i] = Merge(g)[i]
      BY <1>5, <3>1
    <3> HIDE DEF from, last, M, N
    <3> QED
      BY <1>6, <3>1, <3>2
  <2> HIDE DEF last, from
  <2>5. /\ SubSeq(Merge(found), from, last) \in Seq(Entries)
        /\ SubSeq(Merge(g), from, last) \in Seq(Entries)
        /\ Len(SubSeq(Merge(found), from, last)) = Len(SubSeq(Merge(g), from, last))
        /\ Len(SubSeq(Merge(g), from, last)) = IF from <= last THEN last - from + 1 ELSE 0
        /\ \A i \in 1..(last - from + 1) :
              /\ SubSeq(Merge(found), from, last)[i] = Merge(found)[from + i - 1]
              /\ SubSeq(Merge(g), from, last)[i] = Merge(g)[from + i - 1]
    BY <2>3, <2>4, SubSeqProperties
  <2>6. \A i \in 1..Len(SubSeq(Merge(found), from, last)) :
          SubSeq(Merge(found), from, last)[i] = SubSeq(Merge(g), from, last)[i]
    BY <2>3, <2>4, <2>5
  <2>7. SubSeq(Merge(found), from, last) = SubSeq(Merge(g), from, last)
    BY <2>5, <2>6, SeqEqual
  <2> QED
    BY <2>1, <2>2, <2>7 DEF last, from
<1> QED
  BY <1>6, <1>7, <1>9, <1>10
-------------------------------------------------------------------------------
(***************************************************************************)
(* The inductive invariant.                                                *)
(***************************************************************************)
LEMMA LeastIs ==
  \A m, n \in Nat : /\ Least(m, n) \in Nat /\ Least(m, n) <= n
                    /\ Least(m, n) >= m \/ Least(m, n) = n
BY DEF Least

\* What the database may return.
LEMMA NewestFields ==
  ASSUME NEW S, S \subseteq Entries, IsFiniteSet(S), NEW n \in Nat, NEW r \in Newest(S, n)
  PROVE  /\ r \in Seq(S) /\ NewestFirst(r) /\ IsInjective(r) /\ ToSet(r) \subseteq S
         /\ Len(r) >= n \/ ToSet(r) = S
<1>1. PICK w \in SetToSeqs(S) : NewestFirst(w) /\ r = SubSeq(w, 1, Least(n, Len(w)))
  BY DEF Newest
<1>2. w \in Seq(S) /\ DOMAIN w = 1..Len(w) /\ IsInjective(w) /\ ToSet(w) = S /\ Len(w) \in Nat
  BY <1>1, ArrangementFields, LenProperties
<1>3. PICK k : k = Least(n, Len(w))
  OBVIOUS
<1>4. k \in Nat /\ k <= Len(w) /\ (k >= n \/ k = Len(w))
  <2>1. Len(w) \in Nat
    BY <1>2
  <2> QED
    BY <2>1, <1>3, LeastIs
<1>5. \A i \in 1..k : i \in 1..Len(w) /\ w[i] \in S
  <2>1. Len(w) \in Nat /\ w \in Seq(S)
    BY <1>2
  <2>2. \A i \in 1..k : i \in 1..Len(w)
    BY <1>4, <2>1
  <2> QED
    BY <2>1, <2>2, ElementOfSeq
<1>6. r = SubSeq(w, 1, k)
  BY <1>1, <1>3
<1>7. /\ r \in Seq(S) /\ Len(r) = (IF 1 <= k THEN k - 1 + 1 ELSE 0)
      /\ \A i \in 1..(k - 1 + 1) : r[i] = w[1 + i - 1]
  BY <1>4, <1>5, <1>6, SubSeqProperties
<1>8. Len(r) = k /\ DOMAIN r = 1..k /\ \A i \in 1..k : r[i] = w[i]
  BY <1>4, <1>7, LenProperties
<1>9. NewestFirst(r)
  BY <1>1, <1>2, <1>5, <1>8 DEF NewestFirst
<1>10. IsInjective(r)
  BY <1>2, <1>5, <1>8 DEF IsInjective
<1>11. ToSet(r) \subseteq S
  BY <1>5, <1>8 DEF ToSet
<1>12. Len(r) >= n \/ ToSet(r) = S
  <2>1. k = Len(w) => ToSet(r) = ToSet(w)
    BY <1>2, <1>8 DEF ToSet
  <2> QED
    BY <1>2, <1>4, <1>8, <2>1
<1> QED
  BY <1>7, <1>9, <1>10, <1>11, <1>12

LEMMA NothingToFind ==
  ASSUME NEW n \in Nat
  PROVE  /\ << >> \in Newest({}, n) /\ << >> \in Seq(Entries) /\ NewestFirst(<< >>)
         /\ IsInjective(<< >>) /\ ToSet(<< >>) = {}
<1>1. << >> \in Seq(Entries) /\ Len(<< >>) = 0 /\ DOMAIN << >> = 1..0 /\ 1..0 = {}
  BY EmptySeq
<1>2. NewestFirst(<< >>) /\ IsInjective(<< >>) /\ ToSet(<< >>) = {}
  BY <1>1 DEF NewestFirst, IsInjective, ToSet
<1>3. << >> = [k \in 1..0 |-> << >>[k]]
  BY <1>1
<1>4. << >> \in SetToSeqs({})
  BY <1>1, <1>2, <1>3, ArrangementsAre
<1>5. << >> = SubSeq(<< >>, 1, 0) /\ Least(n, Len(<< >>)) = 0
  BY <1>1, SubSeqEmpty DEF Least
<1> QED
  BY <1>1, <1>2, <1>4, <1>5 DEF Newest

\* The members of a past are typed, and what there is to show is to be shown.
LEMMA InitOK == Init => IInv
<1> SUFFICES ASSUME Init PROVE IInv
  OBVIOUS
<1>1. PICK kind \in [Id -> {<<"none", "none">>} \cup UNION {{s} \X Kinds[s] : s \in Source}],
           at \in [Id -> Time] :
        LET in(s) == {i \in Id : kind[i][1] = s}
            paid  == {i \in Id : kind[i][2] = "approved"}
            doc(i, k) == [kind |-> k, at |-> at[i]]
        IN /\ docs = [s \in Source |->
                        IF s = "wallet_transactions"
                        THEN [i \in in(s) \cup paid |-> IF i \in paid THEN doc(i, "withdrawal")
                                                        ELSE doc(i, kind[i][2])]
                        ELSE [i \in in(s) |-> IF i \in paid THEN [kind |-> "approved", at |-> 0]
                                              ELSE doc(i, kind[i][2])]]
           /\ wallet \in IF in("none") = Id THEN BOOLEAN ELSE {TRUE}
  BY DEF Init
<1> DEFINE in(s) == {i \in Id : kind[i][1] = s}
           paid  == {i \in Id : kind[i][2] = "approved"}
<1>2. /\ query \in Query /\ step = "start" /\ found = [s \in Source |-> None]
      /\ atStart = Whole(query) /\ writes = 0 /\ approved = {}
  BY DEF Init
<1>3. \A i \in Id : \/ kind[i] = <<"none", "none">>
                    \/ kind[i][1] \in Source /\ kind[i][2] \in Kinds[kind[i][1]]
  BY <1>1
<1>4. \A i \in paid : kind[i][1] = "withdrawals_requests"
  BY <1>3, Sources DEF Kinds
<1>5. \A i \in Id : at[i] \in Time
  BY <1>1
<1>6. 0 \in Time
  BY TimeIsNatural DEF Time
<1>7. DOMAIN docs = Source
  BY <1>1
<1>8. /\ DOMAIN docs["wallet_transactions"] = in("wallet_transactions") \cup paid
      /\ \A s \in Source \ {"wallet_transactions"} : DOMAIN docs[s] = in(s)
      /\ \A s \in Source : docs[s] = [i \in DOMAIN docs[s] |-> docs[s][i]]
      /\ \A i \in paid : docs["withdrawals_requests"][i].kind = "approved"
  BY <1>1, <1>4, Sources
<1>9. \A s \in Source : \A i \in DOMAIN docs[s] : docs[s][i] \in [kind: Kinds[s], at: Time]
  <2> SUFFICES ASSUME NEW s \in Source, NEW i \in DOMAIN docs[s]
               PROVE  docs[s][i] \in [kind: Kinds[s], at: Time]
    OBVIOUS
  <2>1. CASE s = "wallet_transactions" /\ i \in paid
    <3>1. docs[s][i] = [kind |-> "withdrawal", at |-> at[i]]
      BY <1>1, <1>8, <2>1
    <3> QED
      BY <1>5, <2>1, <3>1 DEF Kinds
  <2>2. CASE s # "wallet_transactions" /\ i \in paid
    <3>1. i \in in(s) /\ s = "withdrawals_requests"
      BY <1>4, <1>8, <2>2
    <3>2. docs[s][i] = [kind |-> "approved", at |-> 0]
      BY <1>1, <2>2, <3>1
    <3> QED
      BY <1>6, <3>1, <3>2 DEF Kinds
  <2>3. CASE i \notin paid
    <3>1. i \in in(s) /\ i \in Id
      BY <1>8, <2>3
    <3>2. docs[s][i] = [kind |-> kind[i][2], at |-> at[i]]
      BY <1>1, <2>3, <3>1
    <3>3. kind[i][2] \in Kinds[s]
      BY <1>3, <3>1, Sources
    <3> QED
      BY <1>5, <3>1, <3>2, <3>3
  <2> QED
    BY <2>1, <2>2, <2>3
<1>10. TypeOK
  <2>1. docs = [s \in Source |-> docs[s]] /\ found = [s \in Source |-> found[s]]
    BY <1>1, <1>2
  <2>2. \A s \in Source : DOMAIN docs[s] \subseteq Id
    <3>1. \A s : in(s) \subseteq Id /\ paid \subseteq Id
      OBVIOUS
    <3> QED
      BY <1>8, <3>1
  <2>3. \A s \in Source : docs[s] \in [DOMAIN docs[s] -> [kind: Kinds[s], at: Time]]
    <3> HIDE DEF in, paid
    <3> QED
      BY <1>8, <1>9
  <2>4. wallet \in BOOLEAN
    BY <1>1
  <2>5. atStart \subseteq Entries
    <3>1. \A s \in Source : \A i \in DOMAIN docs[s] : Entry(s, i) \in Entries
      BY <1>9, <2>2 DEF Entry, Entries
    <3> QED
      BY <1>2, <3>1 DEF Whole
  <2> QED
    BY <1>2, <1>7, <2>1, <2>2, <2>3, <2>4, <2>5 DEF TypeOK
<1>11. DocsOK
  <2>1. ASSUME NEW s \in Source, NEW u \in Source, NEW i \in DOMAIN docs[s] \cap DOMAIN docs[u], s # u
        PROVE  /\ {s, u} = {"wallet_transactions", "withdrawals_requests"}
               /\ docs.withdrawals_requests[i].kind = "approved"
    <3>1. i \in paid
      BY <1>8, <2>1
    <3>2. \A v \in Source \ {"wallet_transactions"} : i \in DOMAIN docs[v] => v = "withdrawals_requests"
      BY <1>4, <1>8, <3>1
    <3> QED
      BY <1>8, <2>1, <3>1, <3>2
  <2>2. ~wallet => \A s \in {"wallet_transactions", "withdrawals_requests"} : DOMAIN docs[s] = {}
    <3> SUFFICES ASSUME ~wallet PROVE \A s \in {"wallet_transactions", "withdrawals_requests"} : DOMAIN docs[s] = {}
      OBVIOUS
    <3>1. in("none") = Id
      BY <1>1
    <3>2. \A i \in Id : kind[i][1] = "none"
      BY <3>1
    <3>3. in("wallet_transactions") = {} /\ in("withdrawals_requests") = {} /\ paid = {}
      BY <1>4, <3>2
    <3> HIDE DEF in, paid
    <3> QED
      BY <1>8, <3>3, Sources
  <2> QED
    BY <2>1, <2>2 DEF DocsOK
<1>12. StartOK
  BY <1>2, <1>10, WholeIsMatching, MatchingFields DEF StartOK
<1>13. \A s \in Source : FoundOK(s)
  BY <1>2 DEF FoundOK
<1> QED
  BY <1>2, <1>10, <1>11, <1>12, <1>13 DEF IInv, AnswerOK

\* The read.  A wallet that does not exist has no documents.
LEMMA ReadWalletOK == IInv /\ ReadWallet => IInv'
<1> SUFFICES ASSUME IInv, ReadWallet PROVE IInv'
  OBVIOUS
<1> DEFINE Both == {"wallet_transactions", "withdrawals_requests"}
<1>1. /\ step' = "reading" /\ writes' = writes /\ docs' = docs /\ query' = query
      /\ atStart' = atStart /\ approved' = approved /\ wallet' = wallet /\ answer' = answer
      /\ found' = [s \in Source |-> IF ~wallet /\ s \in Both THEN <<>> ELSE None]
  BY DEF ReadWallet
<1>2. TypeOK' /\ DocsOK' /\ StartOK' /\ AnswerOK'
  <2>1. TypeOK /\ DocsOK /\ StartOK
    BY DEF IInv
  <2>2. found' = [s \in Source |-> found'[s]]
    BY <1>1
  <2>3. TypeOK'
    BY <1>1, <2>1, <2>2 DEF TypeOK
  <2>4. DocsOK' /\ StartOK'
    BY <1>1, <2>1 DEF DocsOK, StartOK
  <2>5. AnswerOK'
    BY <1>1 DEF AnswerOK
  <2> QED
    BY <2>3, <2>4, <2>5
<1>3. ASSUME NEW s \in Source, found'[s] # None
      PROVE  /\ found'[s] \in Seq(Entries) /\ NewestFirst(found'[s]) /\ IsInjective(found'[s])
             /\ ToSet(found'[s]) = {} /\ (\A e \in atStart : e.source # s)
             /\ found'[s] \in Newest(Matching(query, s), FetchLimit(query))
  <2>1. ~wallet /\ s \in Both /\ found'[s] = <<>>
    BY <1>1, <1>3
  <2>2. DOMAIN docs[s] = {}
    BY <2>1 DEF IInv, DocsOK
  <2>3. Matching(query, s) = {}
    BY <2>2 DEF Matching
  <2>4. FetchLimit(query) \in Nat
    BY QueryFields DEF IInv, TypeOK
  <2>5. \A e \in atStart : e.source # s
    BY <2>2 DEF IInv, StartOK
  <2> QED
    BY <2>1, <2>3, <2>4, <2>5, NothingToFind
<1>4. \A s \in Source : FoundOK(s)'
  <2> SUFFICES ASSUME NEW s \in Source, found'[s] # None PROVE FoundOK(s)'
    BY DEF FoundOK
  <2>1. Matching(query, s)' = Matching(query, s)
    BY <1>1 DEF Matching, Entry
  <2> QED
    BY <1>1, <1>3, <2>1 DEF FoundOK
<1> QED
  BY <1>2, <1>4 DEF IInv

LEMMA FindOK == ASSUME IInv, NEW s \in Source, Find(s) PROVE IInv'
<1> DEFINE n == FetchLimit(query)
           S == Matching(query, s)
<1>1. /\ step' = step /\ writes' = writes /\ docs' = docs /\ query' = query
      /\ atStart' = atStart /\ approved' = approved /\ wallet' = wallet /\ answer' = answer
      /\ step = "reading"
  BY DEF Find
<1>2. PICK r \in Newest(S, n) : found' = [found EXCEPT ![s] = r]
  BY DEF Find
<1>3. TypeOK /\ DocsOK /\ StartOK /\ \A t \in Source : FoundOK(t)
  BY DEF IInv
<1>4. found'[s] = r /\ \A t \in Source \ {s} : found'[t] = found[t]
  BY <1>2, <1>3 DEF TypeOK
<1>5. TypeOK' /\ DocsOK' /\ StartOK' /\ AnswerOK'
  <2>1. found' = [t \in Source |-> found'[t]]
    BY <1>2, <1>3 DEF TypeOK
  <2>2. TypeOK'
    BY <1>1, <1>3, <2>1 DEF TypeOK
  <2>3. DocsOK' /\ StartOK'
    <3>1. DocsOK /\ StartOK
      BY <1>3
    <3> HIDE DEF S, n
    <3>2. DocsOK'
      BY <1>1, <3>1 DEF DocsOK
    <3>3. StartOK'
      BY <1>1, <3>1 DEF StartOK
    <3> QED
      BY <3>2, <3>3
  <2>4. AnswerOK'
    BY <1>1 DEF AnswerOK
  <2> QED
    BY <2>2, <2>3, <2>4
<1>6. /\ r \in Seq(Entries) /\ NewestFirst(r) /\ IsInjective(r) /\ ToSet(r) \subseteq S
      /\ Len(r) >= n \/ ToSet(r) = S
  <2>1. IsFiniteSet(S) /\ S \subseteq Entries
    BY <1>3, MatchingFields
  <2>2. n \in Nat
    BY <1>3, QueryFields DEF TypeOK
  <2> HIDE DEF S, n
  <2>3. /\ r \in Seq(S) /\ NewestFirst(r) /\ IsInjective(r) /\ ToSet(r) \subseteq S
        /\ Len(r) >= n \/ ToSet(r) = S
    BY <2>1, <2>2, NewestFields
  <2> QED
    BY <2>1, <2>3, SeqMonotonic
<1>7. ASSUME NEW e \in ToSet(r)
      PROVE  /\ e.source = s /\ e.id \in DOMAIN docs[s] /\ e.at = docs[s][e.id].at
             /\ s = "withdrawals_requests" => e.id \notin DOMAIN docs.wallet_transactions
  <2>1. /\ e.source = s /\ e.id \in DOMAIN docs[s] /\ e.at = docs[s][e.id].at
        /\ docs[s][e.id].kind \in Wanted(query, s)
    BY <1>3, <1>6, MatchingFields
  <2>2. CASE s = "withdrawals_requests"
    <3>1. docs.withdrawals_requests[e.id].kind # "approved"
      BY <2>1, <2>2 DEF Wanted, ShownRequests
    <3>2. "wallet_transactions" \in Source /\ "wallet_transactions" # s
      BY <2>2, Sources
    <3> QED
      BY <1>3, <2>1, <2>2, <3>1, <3>2 DEF DocsOK
  <2> QED
    BY <2>1, <2>2
<1>8. ASSUME NEW e \in atStart, e.source = s, e.id \notin approved
      PROVE  e \in S
  <2>1. /\ e.id \in DOMAIN docs[s] /\ docs[s][e.id].at = e.at /\ Within(e.at, query.period)
        /\ docs[s][e.id].kind \in Wanted(query, s)
    BY <1>3, <1>8 DEF StartOK
  <2>2. e = [source |-> e.source, id |-> e.id, at |-> e.at]
    BY <1>3 DEF TypeOK, Entries
  <2>3. e = Entry(s, e.id)
    BY <1>8, <2>1, <2>2 DEF Entry
  <2> QED
    BY <2>1, <2>3 DEF Matching
<1>9. \A t \in Source : Matching(query, t)' = Matching(query, t)
  BY <1>1 DEF Matching, Entry
<1>10. FoundOK(s)'
  BY <1>1, <1>2, <1>4, <1>6, <1>7, <1>8, <1>9 DEF FoundOK
<1>11. \A t \in Source \ {s} : FoundOK(t)'
  BY <1>1, <1>3, <1>4, <1>9 DEF FoundOK
<1> QED
  BY <1>5, <1>10, <1>11 DEF IInv

LEMMA AnswerOfFoundOK == IInv /\ Answer => IInv'
<1> SUFFICES ASSUME IInv, Answer PROVE IInv'
  OBVIOUS
<1>1. /\ step' = "done" /\ writes' = writes /\ docs' = docs /\ query' = query /\ found' = found
      /\ atStart' = atStart /\ approved' = approved /\ wallet' = wallet
      /\ answer' = Page(Merge(found), query) /\ \A s \in Source : found[s] # None
  BY DEF Answer
<1>2. TypeOK' /\ DocsOK' /\ StartOK'
  BY <1>1 DEF IInv, TypeOK, DocsOK, StartOK
<1>3. \A s \in Source : FoundOK(s)'
  <2>1. \A s \in Source : Matching(query, s)' = Matching(query, s)
    BY <1>1 DEF Matching, Entry
  <2> QED
    BY <1>1, <2>1 DEF IInv, FoundOK
<1>4. AnswerOK'
  BY <1>1 DEF AnswerOK
<1> QED
  BY <1>2, <1>3, <1>4 DEF IInv
-------------------------------------------------------------------------------
(***************************************************************************)
(* Meanwhile.  Documents keep their times, and what a query wants of them, *)
(* until an approval.                                                      *)
(***************************************************************************)
DocumentsStay ==
  /\ \A s \in Source : \A i \in DOMAIN docs[s] :
       /\ i \in DOMAIN docs'[s] /\ docs'[s][i].at = docs[s][i].at
       /\ docs[s][i].kind \in Wanted(query, s)
            => i \in approved' \/ docs'[s][i].kind \in Wanted(query, s)
  /\ \A i \in DOMAIN docs.withdrawals_requests : i \in DOMAIN docs'.wallet_transactions
       => i \in approved' \/ i \in DOMAIN docs.wallet_transactions
  /\ approved \subseteq approved'

LEMMA MeanwhileOK ==
  ASSUME IInv, Meanwhile, DocumentsStay
  PROVE  StartOK' /\ AnswerOK' /\ \A s \in Source : FoundOK(s)'
<1>1. /\ step' = step /\ step # "done" /\ writes' = writes + 1 /\ query' = query /\ found' = found
      /\ atStart' = atStart /\ answer' = answer
  BY DEF Meanwhile
<1>2. TypeOK /\ StartOK /\ \A s \in Source : FoundOK(s)
  BY DEF IInv
<1>3. \A e \in atStart : e.source \in Source
  BY <1>2 DEF TypeOK, Entries
<1>4. StartOK'
  BY <1>1, <1>2, <1>3 DEF StartOK, DocumentsStay
<1>5. AnswerOK'
  BY <1>1 DEF AnswerOK
<1>6. writes' # 0
  BY <1>1, <1>2 DEF TypeOK
<1>7. ASSUME NEW s \in Source, found[s] # None
      PROVE  /\ found[s] \in Seq(Entries) /\ NewestFirst(found[s]) /\ IsInjective(found[s])
             /\ \A e \in ToSet(found[s]) :
                  /\ e.source = s /\ e.id \in DOMAIN docs'[s] /\ e.at = docs'[s][e.id].at
                  /\ s = "withdrawals_requests" /\ e.id \in DOMAIN docs'.wallet_transactions
                       => e.id \in approved'
             /\ \/ Len(found[s]) >= FetchLimit(query)
                \/ \A e \in atStart : e.source = s => e \in ToSet(found[s]) \/ e.id \in approved'
  BY <1>2, <1>7 DEF FoundOK, DocumentsStay
<1>8. \A s \in Source : FoundOK(s)'
  BY <1>1, <1>6, <1>7 DEF FoundOK
<1> QED
  BY <1>4, <1>5, <1>8

LEMMA RejectOK == ASSUME IInv, NEW i \in Id, Reject(i) PROVE IInv'
<1>1. TypeOK /\ DocsOK
  BY DEF IInv
<1> DEFINE req == "withdrawals_requests"
<1>2. /\ Meanwhile /\ i \in DOMAIN docs[req] /\ docs[req][i].kind = "pending"
      /\ docs' = [docs EXCEPT !.withdrawals_requests[i].kind = "rejected"]
      /\ wallet' = wallet /\ approved' = approved
  BY DEF Reject, Pending
<1>3. /\ step' = step /\ writes' = writes + 1 /\ query' = query /\ found' = found
      /\ atStart' = atStart
  BY <1>2 DEF Meanwhile
<1>4. req \in Source /\ "wallet_transactions" \in Source /\ "rejected" \in Kinds[req]
  BY Sources DEF Kinds
<1> HIDE DEF req
<1>5. /\ DOMAIN docs' = Source
      /\ \A s \in Source \ {req} : docs'[s] = docs[s]
      /\ docs'[req] = [docs[req] EXCEPT ![i].kind = "rejected"]
  BY <1>1, <1>2, <1>4 DEF TypeOK, req
<1>6. /\ docs[req] \in [DOMAIN docs[req] -> [kind: Kinds[req], at: Time]]
      /\ docs[req][i] \in [kind: Kinds[req], at: Time]
  BY <1>1, <1>2, <1>4 DEF TypeOK
<1>7. /\ DOMAIN docs'[req] = DOMAIN docs[req]
      /\ docs'[req] \in [DOMAIN docs'[req] -> [kind: Kinds[req], at: Time]]
      /\ docs'[req][i].kind = "rejected" /\ docs'[req][i].at = docs[req][i].at
      /\ \A j \in DOMAIN docs[req] \ {i} : docs'[req][j] = docs[req][j]
  BY <1>2, <1>4, <1>5, <1>6
<1>8. TypeOK'
  <2>1. ASSUME NEW s \in Source
        PROVE  DOMAIN docs'[s] \subseteq Id /\ docs'[s] \in [DOMAIN docs'[s] -> [kind: Kinds[s], at: Time]]
    <3>1. CASE s = req
      BY <1>1, <1>4, <1>7, <3>1 DEF TypeOK
    <3>2. CASE s # req
      BY <1>1, <1>5, <3>2 DEF TypeOK
    <3> QED
      BY <3>1, <3>2
  <2>2. wallet' = wallet /\ approved' = approved
    BY <1>2
  <2>3. DOMAIN docs' = Source
    BY <1>5
  <2> QED
    BY <1>1, <1>3, <2>1, <2>2, <2>3 DEF TypeOK
<1>9. DocsOK'
  <2>1. \A s \in Source : DOMAIN docs'[s] = DOMAIN docs[s]
    BY <1>5, <1>7
  <2>2. i \notin DOMAIN docs.wallet_transactions
    BY <1>1, <1>2, <1>4 DEF DocsOK, req
  <2>3. ASSUME NEW s \in Source, NEW u \in Source, NEW j \in DOMAIN docs'[s] \cap DOMAIN docs'[u], s # u
        PROVE  /\ {s, u} = {"wallet_transactions", "withdrawals_requests"}
               /\ docs'.withdrawals_requests[j].kind = "approved"
    <3>1. /\ {s, u} = {"wallet_transactions", "withdrawals_requests"}
          /\ docs.withdrawals_requests[j].kind = "approved"
          /\ j \in DOMAIN docs[s] \cap DOMAIN docs[u]
      BY <1>1, <2>1, <2>3 DEF DocsOK
    <3>2. j # i /\ j \in DOMAIN docs[req]
      BY <2>2, <3>1 DEF req
    <3> QED
      BY <1>7, <3>1, <3>2 DEF req
  <2>4. ~wallet' => \A s \in {"wallet_transactions", "withdrawals_requests"} : DOMAIN docs'[s] = {}
    BY <1>1, <1>2, <1>4, <2>1 DEF DocsOK, req
  <2> QED
    BY <2>3, <2>4 DEF DocsOK
<1>10. DocumentsStay
  <2>1. "pending" \in Wanted(query, req) => "rejected" \in Wanted(query, req)
    BY DEF Wanted, ShownRequests, req
  <2> QED
    BY <1>2, <1>4, <1>5, <1>7, <2>1 DEF DocumentsStay, req
<1> QED
  BY <1>2, <1>8, <1>9, <1>10, MeanwhileOK DEF IInv

LEMMA ApproveOK == ASSUME IInv, NEW i \in Id, Approve(i) PROVE IInv'
<1> DEFINE req == "withdrawals_requests"
           txs == "wallet_transactions"
           tx  == [kind |-> "withdrawal", at |-> Now]
<1>1. TypeOK /\ DocsOK
  BY DEF IInv
<1>2. /\ Meanwhile /\ i \in DOMAIN docs[req] /\ docs[req][i].kind = "pending"
      /\ docs' = [docs EXCEPT !.withdrawals_requests[i].kind = "approved",
                              !.wallet_transactions = With(@, i, tx)]
      /\ wallet' = wallet /\ approved' = approved \cup {i}
  BY DEF Approve, Pending
<1>3. /\ step' = step /\ writes' = writes + 1 /\ query' = query /\ found' = found
      /\ atStart' = atStart
  BY <1>2 DEF Meanwhile
<1>4. /\ req \in Source /\ txs \in Source /\ req # txs
      /\ "approved" \in Kinds[req] /\ tx \in [kind: Kinds[txs], at: Time]
  BY Sources, TimeIsNatural DEF Kinds, Time
<1> HIDE DEF req, txs, tx
<1>5. /\ DOMAIN docs' = Source
      /\ \A s \in Source \ {req, txs} : docs'[s] = docs[s]
      /\ docs'[req] = [docs[req] EXCEPT ![i].kind = "approved"]
      /\ docs'[txs] = With(docs[txs], i, tx)
  BY <1>1, <1>2, <1>4 DEF TypeOK, req, txs
<1>6. /\ docs[req] \in [DOMAIN docs[req] -> [kind: Kinds[req], at: Time]]
      /\ docs[req][i] \in [kind: Kinds[req], at: Time]
      /\ docs[txs] \in [DOMAIN docs[txs] -> [kind: Kinds[txs], at: Time]]
  BY <1>1, <1>2, <1>4 DEF TypeOK
<1>7. /\ DOMAIN docs'[req] = DOMAIN docs[req]
      /\ docs'[req] \in [DOMAIN docs'[req] -> [kind: Kinds[req], at: Time]]
      /\ docs'[req][i].kind = "approved" /\ docs'[req][i].at = docs[req][i].at
      /\ \A j \in DOMAIN docs[req] \ {i} : docs'[req][j] = docs[req][j]
  BY <1>2, <1>4, <1>5, <1>6
<1>8. /\ DOMAIN docs'[txs] = DOMAIN docs[txs] \cup {i}
      /\ docs'[txs] \in [DOMAIN docs'[txs] -> [kind: Kinds[txs], at: Time]]
      /\ \A j \in DOMAIN docs[txs] \ {i} : docs'[txs][j] = docs[txs][j]
  BY <1>4, <1>5, <1>6 DEF With
<1>9. /\ \A s \in Source : i \in DOMAIN docs[s] => s = req
      /\ wallet
  BY <1>1, <1>2, <1>4 DEF DocsOK, req, txs
<1>10. TypeOK'
  <2>1. ASSUME NEW s \in Source
        PROVE  DOMAIN docs'[s] \subseteq Id /\ docs'[s] \in [DOMAIN docs'[s] -> [kind: Kinds[s], at: Time]]
    <3>1. CASE s = req
      BY <1>1, <1>4, <1>7, <3>1 DEF TypeOK
    <3>2. CASE s = txs
      BY <1>1, <1>4, <1>8, <3>2 DEF TypeOK
    <3>3. CASE s # req /\ s # txs
      BY <1>1, <1>5, <3>3 DEF TypeOK
    <3> QED
      BY <3>1, <3>2, <3>3
  <2>2. wallet' = wallet /\ approved' = approved \cup {i}
    BY <1>2
  <2>3. DOMAIN docs' = Source
    BY <1>5
  <2> QED
    BY <1>1, <1>3, <2>1, <2>2, <2>3 DEF TypeOK
<1>11. DocsOK'
  <2>1. \A s \in Source \ {txs} : DOMAIN docs'[s] = DOMAIN docs[s]
    BY <1>5, <1>7
  <2>2. ASSUME NEW s \in Source, NEW u \in Source, NEW j \in DOMAIN docs'[s] \cap DOMAIN docs'[u], s # u
        PROVE  {s, u} = {txs, req} /\ docs'[req][j].kind = "approved"
    <3>1. CASE j = i
      <4>1. (s = req \/ s = txs) /\ (u = req \/ u = txs)
        BY <1>9, <2>1, <2>2, <3>1
      <4> QED
        BY <1>7, <2>2, <3>1, <4>1
    <3>2. CASE j # i
      <4>1. j \in DOMAIN docs[s] \cap DOMAIN docs[u]
        BY <1>8, <2>1, <2>2, <3>2
      <4>2. {s, u} = {txs, req} /\ docs[req][j].kind = "approved"
        BY <1>1, <2>2, <4>1 DEF DocsOK, req, txs
      <4>3. j \in DOMAIN docs[req]
        BY <4>1, <4>2
      <4> QED
        BY <1>7, <3>2, <4>2, <4>3
    <3> QED
      BY <3>1, <3>2
  <2>3. wallet'
    BY <1>2, <1>9
  <2> QED
    BY <2>2, <2>3 DEF DocsOK, req, txs
<1>12. DocumentsStay
  <2>1. ASSUME NEW s \in Source, NEW j \in DOMAIN docs[s]
        PROVE  /\ j \in DOMAIN docs'[s] /\ docs'[s][j].at = docs[s][j].at
               /\ j \in approved' \/ docs'[s][j] = docs[s][j]
    <3>1. CASE j = i
      BY <1>2, <1>7, <1>9, <3>1
    <3>2. CASE j # i
      BY <1>5, <1>7, <1>8, <3>2
    <3> QED
      BY <3>1, <3>2
  <2>2. \A j \in DOMAIN docs[req] : j \in DOMAIN docs'[txs] => j \in approved' \/ j \in DOMAIN docs[txs]
    BY <1>2, <1>8
  <2>3. approved \subseteq approved'
    BY <1>2
  <2> QED
    BY <2>1, <2>2, <2>3 DEF DocumentsStay, req, txs
<1> QED
  BY <1>2, <1>10, <1>11, <1>12, MeanwhileOK DEF IInv

LEMMA WriteOK == ASSUME IInv, Write PROVE IInv'
<1>1. TypeOK /\ DocsOK
  BY DEF IInv
<1>2. PICK i \in New, s \in Source : \E k \in Kinds[s] : Put(s, i, k)
  BY DEF Write
<1>3. PICK k \in Kinds[s] : Put(s, i, k)
  BY <1>2
<1> DEFINE doc == [kind |-> k, at |-> Now]
<1>4. Meanwhile /\ wallet' = TRUE /\ approved' = approved
  BY DEF Write
<1>5. /\ step' = step /\ writes' = writes + 1 /\ query' = query /\ found' = found
      /\ atStart' = atStart
  BY <1>4 DEF Meanwhile
<1>6. i \in Id /\ \A u \in Source : i \notin DOMAIN docs[u]
  BY DEF New
<1>7. doc \in [kind: Kinds[s], at: Time]
  BY TimeIsNatural DEF Time
<1> HIDE DEF doc
<1>8. /\ DOMAIN docs' = Source /\ docs'[s] = With(docs[s], i, doc)
      /\ \A u \in Source \ {s} : docs'[u] = docs[u]
  BY <1>1, <1>3 DEF TypeOK, Put, doc
<1>9. docs[s] \in [DOMAIN docs[s] -> [kind: Kinds[s], at: Time]]
  BY <1>1 DEF TypeOK
<1>10. /\ DOMAIN docs'[s] = DOMAIN docs[s] \cup {i}
       /\ docs'[s] \in [DOMAIN docs'[s] -> [kind: Kinds[s], at: Time]]
       /\ \A j \in DOMAIN docs[s] : docs'[s][j] = docs[s][j]
  BY <1>6, <1>7, <1>8, <1>9 DEF With
<1>11. TypeOK'
  <2>1. ASSUME NEW u \in Source
        PROVE  DOMAIN docs'[u] \subseteq Id /\ docs'[u] \in [DOMAIN docs'[u] -> [kind: Kinds[u], at: Time]]
    <3>1. CASE u = s
      BY <1>1, <1>6, <1>10, <3>1 DEF TypeOK
    <3>2. CASE u # s
      BY <1>1, <1>8, <3>2 DEF TypeOK
    <3> QED
      BY <3>1, <3>2
  <2>2. wallet' \in BOOLEAN /\ approved' = approved /\ DOMAIN docs' = Source
    BY <1>4, <1>8
  <2> QED
    BY <1>1, <1>5, <2>1, <2>2 DEF TypeOK
<1>12. \A u \in Source : \A j \in DOMAIN docs[u] : j \in DOMAIN docs'[u] /\ docs'[u][j] = docs[u][j]
  BY <1>8, <1>10
<1>13. \A u \in Source : \A j \in DOMAIN docs'[u] : j \in DOMAIN docs[u] \/ (j = i /\ u = s)
  BY <1>8, <1>10
<1>14. "withdrawals_requests" \in Source /\ "wallet_transactions" \in Source
  BY Sources
<1>15. DocsOK'
  <2>1. ASSUME NEW u \in Source, NEW v \in Source, NEW j \in DOMAIN docs'[u] \cap DOMAIN docs'[v], u # v
        PROVE  /\ {u, v} = {"wallet_transactions", "withdrawals_requests"}
               /\ docs'.withdrawals_requests[j].kind = "approved"
    <3>1. j \in DOMAIN docs[u] /\ j \in DOMAIN docs[v]
      BY <1>6, <1>13, <2>1
    <3>2. /\ {u, v} = {"wallet_transactions", "withdrawals_requests"}
          /\ docs.withdrawals_requests[j].kind = "approved"
      BY <1>1, <2>1, <3>1 DEF DocsOK
    <3>3. j \in DOMAIN docs.withdrawals_requests
      BY <3>1, <3>2
    <3> QED
      BY <1>12, <1>14, <3>2, <3>3
  <2> QED
    BY <1>4, <2>1 DEF DocsOK
<1>16. DocumentsStay
  <2>1. \A j \in DOMAIN docs.withdrawals_requests :
          j \in DOMAIN docs'.wallet_transactions => j \in DOMAIN docs.wallet_transactions
    BY <1>6, <1>13, <1>14
  <2> QED
    BY <1>4, <1>12, <2>1 DEF DocumentsStay
<1> QED
  BY <1>4, <1>11, <1>15, <1>16, MeanwhileOK DEF IInv

\* Whatever happens to the documents, an answer of the database tells the truth
\* about what does not change of them, and every page is cut from such answers.
THEOREM HistoryInvariant == Spec => []IInv
<1>1. IInv /\ [Next]_vars => IInv'
  <2> SUFFICES ASSUME IInv, [Next]_vars PROVE IInv'
    OBVIOUS
  <2>1. CASE ReadWallet
    BY <2>1, ReadWalletOK
  <2>2. CASE Answer
    BY <2>2, AnswerOfFoundOK
  <2>3. ASSUME NEW s \in Source, Find(s) PROVE IInv'
    BY <2>3, FindOK
  <2>4. CASE Write
    BY <2>4, WriteOK
  <2>5. ASSUME NEW i \in Id, Approve(i) PROVE IInv'
    BY <2>5, ApproveOK
  <2>6. ASSUME NEW i \in Id, Reject(i) PROVE IInv'
    BY <2>6, RejectOK
  <2>7. CASE UNCHANGED vars
    <3>1. /\ wallet' = wallet /\ docs' = docs /\ query' = query /\ step' = step /\ found' = found
          /\ answer' = answer /\ atStart' = atStart /\ writes' = writes /\ approved' = approved
      BY <2>7 DEF vars
    <3>2. TypeOK' /\ DocsOK' /\ StartOK' /\ AnswerOK'
      <4>1. TypeOK /\ DocsOK /\ StartOK /\ AnswerOK
        BY DEF IInv
      <4>2. TypeOK'
        BY <3>1, <4>1 DEF TypeOK
      <4>3. DocsOK'
        BY <3>1, <4>1 DEF DocsOK
      <4>4. StartOK'
        BY <3>1, <4>1 DEF StartOK
      <4>5. AnswerOK'
        BY <3>1, <4>1 DEF AnswerOK
      <4> QED
        BY <4>2, <4>3, <4>4, <4>5
    <3>3. \A s \in Source : Matching(query, s)' = Matching(query, s)
      BY <3>1 DEF Matching, Entry
    <3>4. \A s \in Source : FoundOK(s)'
      BY <3>1, <3>3 DEF IInv, FoundOK
    <3> QED
      BY <3>2, <3>4 DEF IInv
  <2> QED
    BY <2>1, <2>2, <2>3, <2>4, <2>5, <2>6, <2>7 DEF Next
<1> QED
  BY <1>1, InitOK, PTL DEF Spec

\* A read that nothing overlaps shows a page of the whole history, though each
\* collection was cut before the answers were merged.
THEOREM PagesAreExact == Spec => []QuietPagesAreExact
<1>1. IInv => QuietPagesAreExact
  <2> SUFFICES ASSUME IInv, step = "done", writes = 0 PROVE QuietPagesAreExact
    BY DEF QuietPagesAreExact
  <2>1. /\ TypeOK /\ answer = Page(Merge(found), query)
        /\ \A s \in Source : found[s] \in Newest(Matching(query, s), FetchLimit(query))
    BY DEF IInv, AnswerOK, FoundOK
  <2> QED
    BY <2>1, QuietPageIsExact DEF QuietPagesAreExact, Skip
<1> QED
  BY <1>1, HistoryInvariant, PTL
-------------------------------------------------------------------------------
(***************************************************************************)
(* The page of a read that is overlapped.                                  *)
(***************************************************************************)
LEMMA AnswersFit ==
  ASSUME NEW f \in [Source -> Seq(Entries)], NEW s \in Source
  PROVE  Len(f[s]) \in Nat /\ Len(f[s]) <= Cardinality(Positions(f))
<1>1. PICK c \in 1..4 : Order[c] = s
  BY Sources
<1>2. PICK n : n = Len(f[s])
  OBVIOUS
<1>3. n \in Nat
  BY <1>2, LenProperties
<1> DEFINE own == {c} \X (1..n)
<1>4. own \in SUBSET Positions(f)
  BY <1>1, <1>2, PositionFields
<1>5. Cardinality(own) = n
  <2>1. IsFiniteSet(1..n) /\ Cardinality(1..n) = n
    BY <1>3, FS_Interval
  <2>2. IsFiniteSet({c}) /\ Cardinality({c}) = 1
    BY FS_Singleton
  <2>3. Cardinality(own) = 1 * Cardinality(1..n)
    BY <2>1, <2>2, FS_Product
  <2> QED
    BY <1>3, <2>1, <2>3
<1>6. IsFiniteSet(Positions(f))
  BY PositionFields
<1> HIDE DEF own
<1>7. Cardinality(own) <= Cardinality(Positions(f))
  BY <1>4, <1>6, FS_Subset
<1> QED
  BY <1>2, <1>3, <1>5, <1>7

\* A part of a history is sorted and repeats nothing, as the history.
LEMMA PartFields ==
  ASSUME NEW n \in Nat, NEW h \in [1..n -> Entries], NewestFirst(h), IsInjective(h),
         NEW from \in Nat \ {0}, NEW last \in Nat, last <= n
  PROVE  /\ NewestFirst(SubSeq(h, from, last)) /\ IsInjective(SubSeq(h, from, last))
         /\ ToSet(SubSeq(h, from, last)) \subseteq ToSet(h)
         /\ from = 1 /\ last = n => ToSet(SubSeq(h, from, last)) = ToSet(h)
<1>1. DOMAIN h = 1..n
  OBVIOUS
<1>2. \A i \in from..last : i \in 1..n /\ h[i] \in Entries
  OBVIOUS
<1>3. PICK part : part = SubSeq(h, from, last)
  OBVIOUS
<1>4. PICK k : k = last - from + 1
  OBVIOUS
<1>5. from \in Int /\ last \in Int /\ k \in Int
  BY <1>4
<1>6. /\ SubSeq(h, from, last) \in Seq(Entries)
      /\ Len(SubSeq(h, from, last)) = IF from <= last THEN last - from + 1 ELSE 0
      /\ \A i \in 1..(last - from + 1) : SubSeq(h, from, last)[i] = h[from + i - 1]
  BY <1>2, <1>5, SubSeqProperties
<1>7. DOMAIN part = 1..k /\ \A i \in 1..k : part[i] = h[from + i - 1]
  <2>1. part \in Seq(Entries) /\ Len(part) = IF from <= last THEN k ELSE 0
    BY <1>3, <1>4, <1>6
  <2>2. DOMAIN part = 1..Len(part)
    BY <2>1, LenProperties
  <2>3. 1..Len(part) = 1..k
    BY <1>4, <1>5, <2>1
  <2> QED
    BY <1>3, <1>4, <1>6, <2>2, <2>3
<1>8. \A i \in 1..k : from + i - 1 \in 1..n
  BY <1>4
<1>9. NewestFirst(part)
  <2> SUFFICES ASSUME NEW i \in 1..k, NEW j \in 1..k, i < j PROVE part[i].at >= part[j].at
    BY <1>7 DEF NewestFirst
  <2>1. from + i - 1 \in 1..n /\ from + j - 1 \in 1..n /\ from + i - 1 < from + j - 1
    BY <1>8
  <2> QED
    BY <1>1, <1>7, <2>1 DEF NewestFirst
<1>10. IsInjective(part)
  <2> SUFFICES ASSUME NEW i \in 1..k, NEW j \in 1..k, part[i] = part[j] PROVE i = j
    BY <1>7 DEF IsInjective
  <2>1. from + i - 1 = from + j - 1
    BY <1>1, <1>7, <1>8 DEF IsInjective
  <2> QED
    BY <2>1
<1>11. ToSet(part) \subseteq ToSet(h)
  BY <1>1, <1>7, <1>8 DEF ToSet
<1>12. from = 1 /\ last = n => ToSet(part) = ToSet(h)
  <2> SUFFICES ASSUME from = 1, last = n PROVE \A i \in 1..n : h[i] \in ToSet(part)
    BY <1>1, <1>11 DEF ToSet
  <2>1. k = n /\ \A i \in 1..n : from + i - 1 = i
    BY <1>4
  <2> QED
    BY <1>7, <2>1 DEF ToSet
<1> QED
  BY <1>3, <1>9, <1>10, <1>11, <1>12

\* Of what there was when the read began, a first page that is said to be the last
\* misses only withdrawals that have been approved since; a request is shown with
\* its own transaction only if it is one of these; and every page is sorted and
\* repeats nothing.
THEOREM PagesMissOnlyApprovals == Spec => []OverlappedPagesMissOnlyApprovals
<1>1. IInv => OverlappedPagesMissOnlyApprovals
  <2> SUFFICES ASSUME IInv, step = "done" PROVE OverlappedPagesMissOnlyApprovals
    BY DEF OverlappedPagesMissOnlyApprovals
  <2> DEFINE N == Cardinality(Positions(found))
             h == Merge(found)
             end == Skip(query) + query.limit
  <2>1. /\ TypeOK /\ DocsOK /\ answer = Page(h, query)
        /\ \A s \in Source : found[s] # None /\ FoundOK(s)
    BY DEF IInv, AnswerOK
  <2>2. found \in [Source -> Seq(Entries)] /\ Distinct(found)
    BY <2>1 DEF FoundOK, TypeOK, Distinct
  <2>3. /\ N \in Nat /\ h \in [1..N -> Entries] /\ NewestFirst(h) /\ IsInjective(h)
        /\ ToSet(h) = UNION {ToSet(found[s]) : s \in Source}
    BY <2>2, MergeIsInPlace, MergeIsSorted, MergeIsInjective, MergeHasAll
  <2>4. /\ Skip(query) \in Nat /\ query.limit \in Nat /\ end \in Nat /\ FetchLimit(query) = end + 1
        /\ query.page = 1 => Skip(query) = 0
    BY <2>1, QueryFields DEF TypeOK, FetchLimit
  <2>5. PICK last, from : last = Least(end, N) /\ from = Skip(query) + 1
    OBVIOUS
  <2>6. from \in Nat \ {0} /\ last \in Nat /\ last <= N
    BY <2>3, <2>4, <2>5, LeastIs
  <2>7. answer.data = SubSeq(h, from, last) /\ answer.hasMore = (N > end)
    <3>1. Len(h) = N
      BY <2>3
    <3> HIDE DEF h, N
    <3> QED
      BY <2>1, <2>5, <3>1 DEF Page
  <2>8. /\ NewestFirst(answer.data) /\ IsInjective(answer.data) /\ ToSet(answer.data) \subseteq ToSet(h)
        /\ from = 1 /\ last = N => ToSet(answer.data) = ToSet(h)
    <3> HIDE DEF h, N
    <3> QED
      BY <2>3, <2>6, <2>7, PartFields
  <2>9. ASSUME query.page = 1, ~answer.hasMore, NEW e \in atStart
        PROVE  e \in ToSet(answer.data) \/ e.id \in approved
    <3>1. e.source \in Source
      BY <2>1 DEF TypeOK, Entries
    <3>2. N <= end /\ ToSet(answer.data) = ToSet(h)
      <4> HIDE DEF h, N, end
      <4>1. N <= end
        <5>1. ~(N > end)
          BY <2>7, <2>9, Zenon
        <5> QED
          BY <2>3, <2>4, <5>1
      <4>2. last = N
        BY <2>3, <2>4, <2>5, <4>1 DEF Least
      <4>3. from = 1
        BY <2>4, <2>5, <2>9
      <4> QED
        BY <2>8, <4>1, <4>2, <4>3
    <3>3. Len(found[e.source]) < FetchLimit(query)
      BY <2>2, <2>3, <2>4, <3>1, <3>2, AnswersFit
    <3>4. e \in ToSet(found[e.source]) \/ e.id \in approved
      <4>1. \/ Len(found[e.source]) >= FetchLimit(query)
            \/ e \in ToSet(found[e.source]) \/ e.id \in approved
        BY <2>1, <3>1 DEF FoundOK
      <4>2. Len(found[e.source]) \in Nat /\ FetchLimit(query) \in Nat
        BY <2>2, <2>4, <3>1, AnswersFit
      <4> QED
        BY <3>3, <4>1, <4>2
    <3> QED
      BY <2>3, <3>1, <3>2, <3>4
  <2>10. ASSUME NEW x \in ToSet(answer.data), NEW y \in ToSet(answer.data), x.id = y.id, x # y
         PROVE  x.id \in approved
    <3>1. PICK s \in Source, u \in Source : x \in ToSet(found[s]) /\ y \in ToSet(found[u])
      BY <2>3, <2>8
    <3>2. x \in Entries /\ y \in Entries
      BY <2>3, <2>8 DEF ToSet
    <3>3. /\ x.source = s /\ x.id \in DOMAIN docs[s] /\ x.at = docs[s][x.id].at
          /\ y.source = u /\ y.id \in DOMAIN docs[u] /\ y.at = docs[u][y.id].at
      BY <2>1, <3>1 DEF FoundOK
    <3>4. s # u
      BY <2>10, <3>2, <3>3 DEF Entries
    <3>5. {s, u} = {"wallet_transactions", "withdrawals_requests"}
      BY <2>1, <2>10, <3>3, <3>4 DEF DocsOK
    <3>6. /\ s = "withdrawals_requests" /\ x.id \in DOMAIN docs.wallet_transactions => x.id \in approved
          /\ u = "withdrawals_requests" /\ y.id \in DOMAIN docs.wallet_transactions => y.id \in approved
      BY <2>1, <3>1 DEF FoundOK
    <3>7. \/ s = "withdrawals_requests" /\ u = "wallet_transactions"
          \/ u = "withdrawals_requests" /\ s = "wallet_transactions"
      BY <3>4, <3>5
    <3> QED
      BY <2>10, <3>3, <3>6, <3>7
  <2> QED
    BY <2>8, <2>9, <2>10 DEF OverlappedPagesMissOnlyApprovals
<1> QED
  BY <1>1, HistoryInvariant, PTL
===============================================================================
