----------------------------- MODULE ReportsProofs -----------------------------
(***************************************************************************)
(* The books of Trading for any number of trades: shares and money are     *)
(* conserved, and the reports computed from the orders agree with the      *)
(* wallets.  First what is needed of sums, then the books.                 *)
(***************************************************************************)
EXTENDS Reports, TradingProofs, FiniteSetTheorems, FunctionTheorems, WellFoundedInduction

\* A sum does not depend on more of its function than the terms.
LEMMA TotalOfSame ==
  ASSUME NEW S, NEW f, NEW g, \A x \in S : g[x] = f[x]
  PROVE  Total(S, g) = Total(S, f)
<1>1. Units(S, g) = Units(S, f)
  BY DEF Units
<1>2. Units(S, [x \in S |-> -g[x]]) = Units(S, [x \in S |-> -f[x]])
  <2>1. [x \in S |-> -g[x]] = [x \in S |-> -f[x]]
    OBVIOUS
  <2> QED
    BY <2>1
<1> QED
  BY <1>1, <1>2 DEF Total

\* Terms that are 0 may be left out.
LEMMA TotalOfNonzero ==
  ASSUME NEW S, NEW T \in SUBSET S, NEW f, \A x \in S \ T : f[x] = 0
  PROVE  Total(T, f) = Total(S, f)
<1>1. 1..0 = {} /\ 1..(-0) = {}
  <2>1. \A i \in 1..0 : FALSE
    OBVIOUS
  <2>2. \A i \in 1..(-0) : FALSE
    OBVIOUS
  <2> QED
    BY <2>1, <2>2
<1>2. Units(T, f) = Units(S, f)
  BY <1>1 DEF Units
<1>3. Units(T, [x \in T |-> -f[x]]) = Units(S, [x \in S |-> -f[x]])
  BY <1>1 DEF Units
<1> QED
  BY <1>2, <1>3 DEF Total

LEMMA TotalOfNone == ASSUME NEW f PROVE Total({}, f) = 0
<1>1. Units({}, f) = {} /\ Units({}, [x \in {} |-> -f[x]]) = {}
  BY DEF Units
<1> QED
  BY <1>1, FS_EmptySet DEF Total

LEMMA UnitsOfOneMore ==
  ASSUME NEW S, IsFiniteSet(S), NEW x, x \notin S, NEW f, \A y \in S \cup {x} : f[y] \in Int
  PROVE  /\ IsFiniteSet(Units(S, f)) /\ Cardinality(Units(S, f)) \in Nat
         /\ Cardinality(Units(S \cup {x}, f))
              = Cardinality(Units(S, f)) + IF f[x] > 0 THEN f[x] ELSE 0
<1> DEFINE one(y) == {y} \X (1..f[y])
           all == {one(y) : y \in S}
           g   == [y \in S |-> one(y)]
<1>1. \A y \in S \cup {x} : /\ IsFiniteSet(one(y))
                            /\ Cardinality(one(y)) = IF f[y] > 0 THEN f[y] ELSE 0
  <2> SUFFICES ASSUME NEW y \in S \cup {x}
               PROVE  /\ IsFiniteSet(one(y))
                      /\ Cardinality(one(y)) = IF f[y] > 0 THEN f[y] ELSE 0
    OBVIOUS
  <2>1. /\ IsFiniteSet(1..f[y])
        /\ Cardinality(1..f[y]) = IF f[y] > 0 THEN f[y] ELSE 0
    BY FS_Interval
  <2>2. IsFiniteSet({y}) /\ Cardinality({y}) = 1
    BY FS_Singleton
  <2>3. IsFiniteSet(one(y)) /\ Cardinality(one(y)) = 1 * Cardinality(1..f[y])
    BY <2>1, <2>2, FS_Product
  <2> QED
    BY <2>1, <2>3
<1>2. IsFiniteSet(all)
  <2>1. g \in Surjection(S, all)
    BY DEF Surjection
  <2> QED
    BY <2>1, FS_Surjection
<1>3. IsFiniteSet(Units(S, f))
  <2>1. Units(S, f) = UNION all
    BY DEF Units
  <2> QED
    BY <1>1, <1>2, <2>1, FS_UNION
<1>4. /\ Units(S \cup {x}, f) = Units(S, f) \cup one(x)
      /\ Units(S, f) \cap one(x) = {}
  BY DEF Units
<1>5. Cardinality(Units(S, f)) \in Nat
  BY <1>3, FS_CardinalityType
<1>6. PICK X : /\ X = one(x) /\ IsFiniteSet(X)
               /\ Cardinality(X) = IF f[x] > 0 THEN f[x] ELSE 0
  BY <1>1
<1>7. /\ Units(S \cup {x}, f) = Units(S, f) \cup X
      /\ Units(S, f) \cap X = {}
  BY <1>4, <1>6
<1> HIDE DEF one, all, g
<1>8. Cardinality(Units(S \cup {x}, f)) = Cardinality(Units(S, f)) + Cardinality(X) - 0
  <2>1. Cardinality(Units(S, f) \cup X)
          = Cardinality(Units(S, f)) + Cardinality(X) - Cardinality(Units(S, f) \cap X)
    BY <1>3, <1>6, FS_Union
  <2>2. Cardinality(Units(S, f) \cap X) = 0
    BY <1>7, FS_EmptySet
  <2> QED
    BY <1>7, <2>1, <2>2
<1>9. Cardinality(X) \in Int
  BY <1>6
<1> QED
  BY <1>3, <1>5, <1>6, <1>8, <1>9

\* A sum with one more term.
LEMMA TotalOfOneMore ==
  ASSUME NEW S, IsFiniteSet(S), NEW x, x \notin S, NEW f, \A y \in S \cup {x} : f[y] \in Int
  PROVE  Total(S, f) \in Int /\ Total(S \cup {x}, f) = Total(S, f) + f[x]
<1> DEFINE minus == [y \in S \cup {x} |-> -f[y]]
<1>1. \A y \in S \cup {x} : minus[y] \in Int
  OBVIOUS
<1>2. Units(S, [y \in S |-> -f[y]]) = Units(S, minus)
  BY DEF Units
<1>3. /\ Cardinality(Units(S, minus)) \in Nat
      /\ Cardinality(Units(S \cup {x}, minus))
           = Cardinality(Units(S, minus)) + IF minus[x] > 0 THEN minus[x] ELSE 0
  <2> HIDE DEF minus
  <2> QED
    BY <1>1, UnitsOfOneMore
<1>4. /\ Cardinality(Units(S, f)) \in Nat
      /\ Cardinality(Units(S \cup {x}, f))
           = Cardinality(Units(S, f)) + IF f[x] > 0 THEN f[x] ELSE 0
  BY UnitsOfOneMore
<1>5. f[x] \in Int /\ minus[x] = -f[x]
  OBVIOUS
<1>6. Total(S, f) = Cardinality(Units(S, f)) - Cardinality(Units(S, minus))
  BY <1>2 DEF Total
<1>7. Total(S \cup {x}, f) = Cardinality(Units(S \cup {x}, f)) - Cardinality(Units(S \cup {x}, minus))
  BY DEF Total
<1> HIDE DEF minus
<1> QED
  BY <1>3, <1>4, <1>5, <1>6, <1>7

\* A sum in which one term changes.
LEMMA TotalOfOneChanged ==
  ASSUME NEW S, IsFiniteSet(S), NEW x \in S, NEW f, NEW g,
         \A y \in S : f[y] \in Int /\ g[y] \in Int, \A y \in S \ {x} : g[y] = f[y]
  PROVE  Total(S, f) \in Int /\ Total(S, g) = Total(S, f) + g[x] - f[x]
<1> DEFINE R == S \ {x}
<1>1. IsFiniteSet(R) /\ x \notin R /\ R \cup {x} = S
  BY FS_RemoveElement
<1> HIDE DEF R
<1>2. /\ Total(R, f) \in Int /\ Total(S, f) = Total(R, f) + f[x]
      /\ Total(R, g) \in Int /\ Total(S, g) = Total(R, g) + g[x]
  BY <1>1, TotalOfOneMore
<1>3. Total(R, g) = Total(R, f)
  BY TotalOfSame DEF R
<1>4. f[x] \in Int /\ g[x] \in Int
  OBVIOUS
<1> QED
  BY <1>2, <1>3, <1>4

\* A sum over a set that may gain an element, whose terms so far stay as they were.
LEMMA TotalOfMore ==
  ASSUME NEW S, IsFiniteSet(S), NEW x, x \notin S, NEW f, NEW g,
         \A y \in S : f[y] \in Int /\ g[y] = f[y], g[x] \in Int
  PROVE  /\ Total(S, f) \in Int /\ Total(S, g) = Total(S, f)
         /\ Total(S \cup {x}, g) = Total(S, f) + g[x]
<1>1. Total(S, g) = Total(S, f)
  BY TotalOfSame
<1>2. Total(S, g) \in Int /\ Total(S \cup {x}, g) = Total(S, g) + g[x]
  BY TotalOfOneMore
<1> QED
  BY <1>1, <1>2

LEMMA TotalIsInt ==
  ASSUME NEW S, IsFiniteSet(S), NEW f, \A y \in S : f[y] \in Int
  PROVE  Total(S, f) \in Int
<1>1. CASE S = {}
  BY <1>1, TotalOfNone
<1>2. CASE S # {}
  <2>1. PICK x : x \in S
    BY <1>2
  <2> QED
    BY <2>1, TotalOfOneChanged
<1> QED
  BY <1>1, <1>2

\* Induction over finite sets, for a property given as the set of the sets that
\* have it.
LEMMA FiniteSetInduction ==
  ASSUME NEW S, IsFiniteSet(S), NEW P, {} \in P,
         \A T \in SUBSET S : \A x \in S \ T : T \in P => T \cup {x} \in P
  PROVE  S \in P
<1> SUFFICES ASSUME S \notin P PROVE FALSE
  OBVIOUS
<1> DEFINE R == StrictSubsetOrdering(S)
           F == FiniteSubsetsOf(S)
           Bad == {T \in F : T \notin P}
<1>1. IsWellFoundedOn(R, F)
  BY FS_StrictSubsetOrderingWellFounded
<1>2. S \in Bad
  BY DEF FiniteSubsetsOf
<1>3. Bad \subseteq F /\ Bad # {}
  BY <1>2
<1>4. \E T \in Bad : \A U \in Bad : <<U, T>> \notin R
  <2> HIDE DEF R, F, Bad
  <2> QED
    BY <1>1, <1>3, WFMin
<1>5. PICK T \in Bad : \A U \in Bad : <<U, T>> \notin R
  BY <1>4
<1>6. T \subseteq S /\ IsFiniteSet(T) /\ T \notin P /\ T # {}
  BY <1>5 DEF FiniteSubsetsOf
<1>7. PICK x : x \in T
  BY <1>6
<1>8. IsFiniteSet(T \ {x})
  BY <1>6, FS_RemoveElement
<1>9. T \ {x} \in F
  BY <1>6, <1>8 DEF FiniteSubsetsOf
<1>10. <<T \ {x}, T>> \in R
  BY <1>6, <1>7 DEF StrictSubsetOrdering
<1>11. T \ {x} \in P
  BY <1>5, <1>9, <1>10
<1>12. (T \ {x}) \cup {x} = T /\ x \in S \ (T \ {x}) /\ T \ {x} \in SUBSET S
  BY <1>6, <1>7
<1> QED
  BY <1>6, <1>11, <1>12

\* The sum of a difference is the difference of the sums.
LEMMA TotalOfDifference ==
  ASSUME NEW S, IsFiniteSet(S), NEW f, NEW g, NEW h,
         \A x \in S : f[x] \in Int /\ g[x] \in Int /\ h[x] = f[x] - g[x]
  PROVE  Total(S, h) = Total(S, f) - Total(S, g)
<1> DEFINE P == {T \in SUBSET S : Total(T, h) = Total(T, f) - Total(T, g)}
<1>1. {} \in P
  <2>1. Total({}, h) = 0 /\ Total({}, f) = 0 /\ Total({}, g) = 0
    BY TotalOfNone
  <2> QED
    BY <2>1
<1>2. ASSUME NEW T \in SUBSET S, NEW x \in S \ T, T \in P
      PROVE  T \cup {x} \in P
  <2>1. IsFiniteSet(T) /\ x \notin T /\ T \cup {x} \in SUBSET S
    BY FS_Subset
  <2>2. \A y \in T \cup {x} : f[y] \in Int /\ g[y] \in Int /\ h[y] \in Int /\ h[y] = f[y] - g[y]
    BY <2>1
  <2>3. /\ Total(T, f) \in Int /\ Total(T \cup {x}, f) = Total(T, f) + f[x]
        /\ Total(T, g) \in Int /\ Total(T \cup {x}, g) = Total(T, g) + g[x]
        /\ Total(T, h) \in Int /\ Total(T \cup {x}, h) = Total(T, h) + h[x]
    BY <2>1, <2>2, TotalOfOneMore
  <2>4. Total(T, h) = Total(T, f) - Total(T, g)
    BY <1>2
  <2>5. f[x] \in Int /\ g[x] \in Int /\ h[x] = f[x] - g[x]
    OBVIOUS
  <2>6. Total(T \cup {x}, h) = Total(T \cup {x}, f) - Total(T \cup {x}, g)
    BY <2>3, <2>4, <2>5
  <2> QED
    BY <2>1, <2>6
<1>3. S \in P
  <2> HIDE DEF P
  <2> QED
    BY <1>1, <1>2, FiniteSetInduction
<1> QED
  BY <1>3

\* The sum of a sum is the sum of the sums.
LEMMA TotalOfSum ==
  ASSUME NEW S, IsFiniteSet(S), NEW f, NEW g, NEW h,
         \A x \in S : f[x] \in Int /\ g[x] \in Int /\ h[x] = f[x] + g[x]
  PROVE  /\ Total(S, f) \in Int /\ Total(S, g) \in Int
         /\ Total(S, h) = Total(S, f) + Total(S, g)
<1>1. \A x \in S : h[x] \in Int /\ f[x] = h[x] - g[x]
  OBVIOUS
<1>2. Total(S, f) = Total(S, h) - Total(S, g)
  BY <1>1, TotalOfDifference
<1>3. Total(S, f) \in Int /\ Total(S, g) \in Int /\ Total(S, h) \in Int
  BY <1>1, TotalIsInt
<1> QED
  BY <1>2, <1>3

\* Counting is adding up ones.
LEMMA TotalOfOnes ==
  ASSUME NEW S, IsFiniteSet(S), NEW f, \A x \in S : f[x] = 1
  PROVE  Total(S, f) = Cardinality(S)
<1>1. 1..1 = {1} /\ 1..(-1) = {}
  <2>1. \A i : i \in 1..1 <=> i = 1
    OBVIOUS
  <2>2. \A i \in 1..(-1) : FALSE
    OBVIOUS
  <2> QED
    BY <2>1, <2>2
<1>2. Units(S, f) = S \X {1}
  BY <1>1 DEF Units
<1>3. Units(S, [x \in S |-> -f[x]]) = {}
  BY <1>1 DEF Units
<1>4. IsFiniteSet({1}) /\ Cardinality({1}) = 1 /\ Cardinality(S) \in Nat
  BY FS_Singleton, FS_CardinalityType
<1>5. Cardinality(S \X {1}) = Cardinality(S) * 1
  BY <1>4, FS_Product
<1>6. Cardinality(Units(S, f)) = Cardinality(S)
  BY <1>2, <1>4, <1>5
<1> QED
  BY <1>3, <1>4, <1>6, FS_EmptySet DEF Total

\* The whole is the sum of its parts: S is divided by p into a part for each i.
LEMMA TotalOfParts ==
  ASSUME NEW S, IsFiniteSet(S), NEW I, IsFiniteSet(I), NEW p, NEW f,
         \A x \in S : p[x] \in I /\ f[x] \in Int
  PROVE  Total(S, f) = Total(I, [i \in I |-> Total({x \in S : p[x] = i}, f)])
<1> DEFINE part(T, i) == {x \in T : p[x] = i}
           sums(T)    == [i \in I |-> Total(part(T, i), f)]
           P          == {T \in SUBSET S : Total(T, f) = Total(I, sums(T))}
<1>1. {} \in P
  <2>1. \A i \in I : part({}, i) = {}
    OBVIOUS
  <2>2. \A i \in I : sums({})[i] = 0
    BY <2>1, TotalOfNone
  <2>3. Total({}, sums({})) = Total(I, sums({}))
    <3> HIDE DEF sums
    <3> QED
      BY <2>2, TotalOfNonzero
  <2>4. Total({}, sums({})) = 0 /\ Total({}, f) = 0
    BY TotalOfNone
  <2> QED
    BY <2>3, <2>4
<1>2. ASSUME NEW T \in SUBSET S, NEW x \in S \ T, T \in P
      PROVE  T \cup {x} \in P
  <2> DEFINE U == T \cup {x}
  <2>1. IsFiniteSet(T) /\ IsFiniteSet(U) /\ x \notin T /\ U \in SUBSET S
    BY FS_Subset, FS_AddElement
  <2>2. Total(T, f) \in Int /\ Total(U, f) = Total(T, f) + f[x]
    BY <2>1, TotalOfOneMore
  <2>3. \A i \in I : IsFiniteSet(part(T, i)) /\ IsFiniteSet(part(U, i))
    BY <2>1, FS_Subset
  <2>4. \A i \in I : sums(T)[i] \in Int /\ sums(U)[i] \in Int
    <3> SUFFICES ASSUME NEW i \in I PROVE sums(T)[i] \in Int /\ sums(U)[i] \in Int
      OBVIOUS
    <3>1. \A y \in part(T, i) : f[y] \in Int
      OBVIOUS
    <3>2. \A y \in part(U, i) : f[y] \in Int
      OBVIOUS
    <3>3. Total(part(T, i), f) \in Int /\ Total(part(U, i), f) \in Int
      <4> HIDE DEF part, U
      <4> QED
        BY <2>3, <3>1, <3>2, TotalIsInt
    <3> QED
      BY <3>3
  <2>5. \A i \in I \ {p[x]} : sums(U)[i] = sums(T)[i]
    <3>1. \A i \in I \ {p[x]} : part(U, i) = part(T, i)
      OBVIOUS
    <3> QED
      BY <3>1
  <2>6. p[x] \in I /\ f[x] \in Int
    OBVIOUS
  <2>7. sums(U)[p[x]] = sums(T)[p[x]] + f[x]
    <3>1. part(U, p[x]) = part(T, p[x]) \cup {x}
      OBVIOUS
    <3>2. x \notin part(T, p[x]) /\ \A y \in part(T, p[x]) \cup {x} : f[y] \in Int
      BY <2>1
    <3>3. IsFiniteSet(part(T, p[x]))
      BY <2>3, <2>6
    <3>4. Total(part(T, p[x]) \cup {x}, f) = Total(part(T, p[x]), f) + f[x]
      <4> HIDE DEF part, U
      <4> QED
        BY <3>2, <3>3, TotalOfOneMore
    <3> QED
      BY <2>6, <3>1, <3>4
  <2>8. Total(I, sums(U)) = Total(I, sums(T)) + sums(U)[p[x]] - sums(T)[p[x]]
    <3> HIDE DEF sums, U
    <3> QED
      BY <2>4, <2>5, <2>6, TotalOfOneChanged
  <2>9. Total(U, f) = Total(I, sums(U))
    <3>1. Total(T, f) = Total(I, sums(T))
      BY <1>2
    <3> HIDE DEF sums, U
    <3> QED
      BY <2>2, <2>4, <2>6, <2>7, <2>8, <3>1
  <2> QED
    BY <2>1, <2>9
<1>3. S \in P
  <2> HIDE DEF P
  <2> QED
    BY <1>1, <1>2, FiniteSetInduction
<1> QED
  BY <1>3
-------------------------------------------------------------------------------
(***************************************************************************)
(* What a step does to the books.                                          *)
(***************************************************************************)
\* Call c buys n shares of s for m at k each.
Buys(c, m, s, n, k) ==
  /\ c \in Call /\ c \notin DOMAIN buyOrders /\ m \in Member /\ s \in Stock
  /\ n \in Nat /\ k \in Nat /\ k = stock[s].price
  /\ DOMAIN buyOrders' = DOMAIN buyOrders \cup {c}
  /\ \A o \in DOMAIN buyOrders : buyOrders'[o] = buyOrders[o]
  /\ buyOrders'[c].owner = m /\ buyOrders'[c].stock = s /\ buyOrders'[c].cost = k
  /\ buyOrders'[c].shares = n /\ buyOrders'[c].available = n
  /\ sellOrders' = sellOrders
  /\ m \in DOMAIN balance /\ balance' = [balance EXCEPT ![m] = @ - Cost(k, n)]
  /\ stock' = [stock EXCEPT ![s].available = @ - n]

\* Call c sells n shares of order o, of stock s and bought by m, at k each.
Sells(c, m, o, s, n, k) ==
  /\ c \in Call /\ c \notin DOMAIN sellOrders /\ m \in Member /\ s \in Stock
  /\ n \in Nat /\ k \in Nat /\ k = stock[s].price
  /\ o \in DOMAIN buyOrders /\ buyOrders[o].owner = m /\ buyOrders[o].stock = s
  /\ DOMAIN buyOrders' = DOMAIN buyOrders
  /\ \A q \in DOMAIN buyOrders :
       /\ buyOrders'[q].owner = buyOrders[q].owner /\ buyOrders'[q].stock = buyOrders[q].stock
       /\ buyOrders'[q].cost = buyOrders[q].cost /\ buyOrders'[q].shares = buyOrders[q].shares
       /\ q # o => buyOrders'[q] = buyOrders[q]
  /\ buyOrders'[o].available = buyOrders[o].available - n
  /\ DOMAIN sellOrders' = DOMAIN sellOrders \cup {c}
  /\ \A x \in DOMAIN sellOrders : sellOrders'[x] = sellOrders[x]
  /\ sellOrders'[c].order = o /\ sellOrders'[c].shares = n /\ sellOrders'[c].price = k
  /\ m \in DOMAIN balance /\ balance' = [balance EXCEPT ![m] = @ + Cost(k, n)]
  /\ stock' = [stock EXCEPT ![s].available = @ + n]

\* What the orders are made of.
LEMMA OrderFields ==
  ASSUME TradesOK
  PROVE  /\ \A o \in DOMAIN buyOrders :
              /\ o \in Call /\ buyOrders[o].owner \in Member /\ buyOrders[o].stock \in Stock
              /\ buyOrders[o].shares \in Nat /\ buyOrders[o].cost \in Nat
              /\ buyOrders[o].available \in Nat
         /\ \A x \in DOMAIN sellOrders :
              /\ x \in Call /\ sellOrders[x].order \in DOMAIN buyOrders
              /\ sellOrders[x].shares \in Nat /\ sellOrders[x].price \in Nat
<1>1. \A o \in DOMAIN buyOrders : o \in Call /\ buyOrders[o] \in BuyOrder
  BY DEF TradesOK, SchemasOK
<1>2. \A x \in DOMAIN sellOrders : x \in Call /\ sellOrders[x] \in SellOrder
  BY DEF TradesOK, SchemasOK
<1>3. \A n \in Share : n \in Nat
  BY MaxSharesIsNatural DEF Share
<1>4. \A b \in BuyOrder : /\ b.owner \in Member /\ b.stock \in Stock /\ b.cost \in Nat
                          /\ b.shares \in Share
  BY DEF BuyOrder
<1>5. \A o \in DOMAIN buyOrders : buyOrders[o].available \in 0..buyOrders[o].shares
  BY DEF TradesOK, NonNegative
<1>6. \A x \in SellOrder : x.shares \in Share /\ x.price \in Nat
  BY DEF SellOrder
<1>7. \A x \in DOMAIN sellOrders : sellOrders[x].order \in DOMAIN buyOrders
  BY DEF TradesOK, OrderIdsOK
<1>8. \A o \in DOMAIN buyOrders : buyOrders[o].shares \in Nat
  BY <1>1, <1>3, <1>4
<1>9. \A o \in DOMAIN buyOrders : buyOrders[o].available \in Nat
  BY <1>5, <1>8
<1> QED
  BY <1>1, <1>2, <1>3, <1>4, <1>6, <1>7, <1>8, <1>9

LEMMA CommitBuyBuys ==
  ASSUME TradesOK, NEW c \in Call, CommitBuy(c)
  PROVE  \E m \in Member, s \in Stock, n \in Nat, k \in Nat : Buys(c, m, s, n, k)
<1>1. /\ status[c] = "open" /\ c \notin DOMAIN buyOrders /\ Fresh(c)
      /\ request[c].member \in Member /\ plan[c].stock \in Stock
      /\ plan[c].shares \in Nat /\ plan[c].price \in Nat
  BY OpenCallOK DEF CommitBuy, CommitTxn, TradesOK, SnapshotFresh
<1>2. PICK m \in Member, s \in Stock, n \in Nat, k \in Nat :
        m = request[c].member /\ s = plan[c].stock /\ n = plan[c].shares /\ k = plan[c].price
  BY <1>1
<1>3. k = stock[s].price /\ m \in DOMAIN balance
  BY <1>1, <1>2 DEF Fresh
<1>4. /\ DOMAIN buyOrders' = DOMAIN buyOrders \cup {c}
      /\ \A o \in DOMAIN buyOrders : buyOrders'[o] = buyOrders[o]
      /\ buyOrders'[c].owner = m /\ buyOrders'[c].stock = s /\ buyOrders'[c].cost = k
      /\ buyOrders'[c].shares = n /\ buyOrders'[c].available = n
  BY <1>1, <1>2 DEF CommitBuy, With
<1>5. /\ sellOrders' = sellOrders
      /\ balance' = [balance EXCEPT ![m] = @ - Cost(k, n)]
      /\ stock' = [stock EXCEPT ![s].available = @ - n]
  BY <1>2 DEF CommitBuy
<1> QED
  BY <1>1, <1>3, <1>4, <1>5 DEF Buys

LEMMA CommitSellSells ==
  ASSUME TradesOK, NEW c \in Call, CommitSell(c)
  PROVE  \E m \in Member, o \in DOMAIN buyOrders, s \in Stock, n \in Nat, k \in Nat :
           Sells(c, m, o, s, n, k)
<1>0. PICK o : o = request[c].order
  OBVIOUS
<1>1. /\ status[c] = "open" /\ c \notin DOMAIN sellOrders /\ Fresh(c) /\ request[c].op = "sell"
      /\ request[c].member \in Member /\ plan[c].stock \in Stock /\ plan[c] \in Plan
      /\ plan[c].shares \in Nat /\ plan[c].price \in Nat /\ plan[c].shares > 0
  BY OpenCallOK DEF CommitSell, CommitTxn, TradesOK, SnapshotFresh
<1>2. PICK m \in Member, s \in Stock, n \in Nat, k \in Nat :
        /\ m = request[c].member /\ s = plan[c].stock /\ n = plan[c].shares /\ k = plan[c].price
        /\ o = request[c].order
  BY <1>0, <1>1
<1>3. /\ k = stock[s].price /\ m \in DOMAIN balance /\ o \in DOMAIN buyOrders
      /\ buyOrders[o].owner = m /\ buyOrders[o].stock = s
      /\ plan[c].shares <= buyOrders[o].available
      /\ plan[c].full <=> plan[c].shares = buyOrders[o].available
  BY <1>1, <1>2 DEF Fresh, OwnOpenOrder
<1>4. buyOrders[o] \in BuyOrder /\ (buyOrders[o].closed <=> buyOrders[o].available = 0)
  BY <1>3 DEF TradesOK, SchemasOK, ClosedMeansSoldOut
<1>5. PICK b : b = AfterSale(buyOrders[o], plan[c])
  OBVIOUS
<1>6. b.available = buyOrders[o].available - n
  BY <1>1, <1>2, <1>3, <1>4, <1>5, AfterSaleOK
<1>7. /\ b.owner = buyOrders[o].owner /\ b.stock = buyOrders[o].stock
      /\ b.cost = buyOrders[o].cost /\ b.shares = buyOrders[o].shares
  BY <1>4, <1>5 DEF AfterSale, BuyOrder
<1>8. buyOrders' = [buyOrders EXCEPT ![o] = b]
  BY <1>2, <1>5 DEF CommitSell
<1>9. /\ DOMAIN sellOrders' = DOMAIN sellOrders \cup {c}
      /\ \A x \in DOMAIN sellOrders : sellOrders'[x] = sellOrders[x]
      /\ sellOrders'[c].order = o /\ sellOrders'[c].shares = n /\ sellOrders'[c].price = k
  BY <1>1, <1>2 DEF CommitSell, With
<1>10. /\ balance' = [balance EXCEPT ![m] = @ + Cost(k, n)]
       /\ stock' = [stock EXCEPT ![s].available = @ + n]
  BY <1>2 DEF CommitSell
<1>11. /\ DOMAIN buyOrders' = DOMAIN buyOrders /\ buyOrders'[o] = b
       /\ \A q \in DOMAIN buyOrders : q # o => buyOrders'[q] = buyOrders[q]
  BY <1>3, <1>8
<1>12. /\ buyOrders'[o].available = buyOrders[o].available - n
       /\ \A q \in DOMAIN buyOrders :
            /\ buyOrders'[q].owner = buyOrders[q].owner /\ buyOrders'[q].stock = buyOrders[q].stock
            /\ buyOrders'[q].cost = buyOrders[q].cost /\ buyOrders'[q].shares = buyOrders[q].shares
  BY <1>6, <1>7, <1>11
<1>13. c \in Call /\ c \notin DOMAIN sellOrders
  BY <1>1
<1>14. Sells(c, m, o, s, n, k)
  BY <1>3, <1>9, <1>10, <1>11, <1>12, <1>13 DEF Sells
<1> QED
  BY <1>3, <1>14

\* A step trades, edits a stock or touches no book but isActive.
LEMMA BookSteps ==
  ASSUME TradesOK, [Next]_vars
  PROVE  \/ \E c \in Call, m \in Member, s \in Stock, n \in Nat, k \in Nat : Buys(c, m, s, n, k)
         \/ \E c \in Call, m \in Member, o \in DOMAIN buyOrders, s \in Stock, n \in Nat, k \in Nat :
              Sells(c, m, o, s, n, k)
         \/ /\ UNCHANGED <<balance, buyOrders, sellOrders>>
            /\ UNCHANGED stock \/ \E s \in Stock : UpdateStock(s)
<1>1. CASE UNCHANGED vars
  BY <1>1 DEF vars, books
<1>2. ASSUME NEW c \in Call, Receive(c) \/ Refuse(c) \/ OpenBuy(c) \/ OpenSell(c) \/ Conflict(c) \/ Fail(c)
      PROVE  UNCHANGED <<balance, buyOrders, sellOrders, stock>>
  BY <1>2 DEF Receive, Refuse, OpenBuy, OpenSell, Conflict, Fail, books
<1>3. CASE AdminStep
  BY <1>3 DEF AdminStep, SaveStatus, UpdateStock
<1> QED
  BY <1>1, <1>2, <1>3, CommitBuyBuys, CommitSellSells DEF Next, CallStep
-------------------------------------------------------------------------------
(***************************************************************************)
(* The sums, term by term and step by step.                                *)
(***************************************************************************)
LEMMA CostOfDifference ==
  ASSUME NEW p \in Int, NEW a \in Int, NEW b \in Int
  PROVE  /\ Cost(p, a) \in Int /\ Cost(p, b) \in Int
         /\ Cost(p, a - b) = Cost(p, a) - Cost(p, b)
BY SMT DEF Cost

LEMMA NothingCostsNothing == ASSUME NEW p \in Int PROVE Cost(p, 0) = 0
BY SMT DEF Cost

\* Every term of every sum is an integer.
LEMMA TermsAreInt ==
  ASSUME TradesOK
  PROVE  /\ \A o \in DOMAIN buyOrders :
              /\ SharesHeld[o] \in Int /\ CostOf[o] \in Int /\ CostHeld[o] \in Int
              /\ ValueHeld[o] \in Int
         /\ \A x \in DOMAIN sellOrders :
              SharesSold[x] \in Int /\ ProceedsOf[x] \in Int /\ ProfitLoss(x) \in Int
<1>1. \A p \in Nat, n \in Nat : Cost(p, n) \in Int
  BY CostIsNatural
<1>2. \A s \in Stock : stock[s].price \in Nat
  BY PricesAreNatural DEF TradesOK, SchemasOK
<1>3. \A o \in DOMAIN buyOrders :
        SharesHeld[o] \in Int /\ CostOf[o] \in Int /\ CostHeld[o] \in Int /\ ValueHeld[o] \in Int
  BY <1>1, <1>2, OrderFields DEF SharesHeld, CostOf, CostHeld, ValueHeld
<1>4. \A x \in DOMAIN sellOrders :
        SharesSold[x] \in Int /\ ProceedsOf[x] \in Int /\ ProfitLoss(x) \in Int
  BY <1>1, OrderFields DEF SharesSold, ProceedsOf, ProfitLoss
<1> QED
  BY <1>3, <1>4

\* Any selection of the orders is finite.
LEMMA SelectionsAreFinite ==
  ASSUME FiniteBooks
  PROVE  /\ \A S \in SUBSET DOMAIN buyOrders : IsFiniteSet(S)
         /\ \A S \in SUBSET DOMAIN sellOrders : IsFiniteSet(S)
BY FS_Subset DEF FiniteBooks

LEMMA BooksStayFinite ==
  ASSUME FiniteBooks, TradesOK, [Next]_vars  PROVE FiniteBooks'
<1>1. ASSUME NEW c \in Call, DOMAIN buyOrders' = DOMAIN buyOrders \cup {c}, sellOrders' = sellOrders
      PROVE  FiniteBooks'
  BY <1>1, FS_AddElement DEF FiniteBooks
<1>2. ASSUME NEW c \in Call, DOMAIN sellOrders' = DOMAIN sellOrders \cup {c},
             DOMAIN buyOrders' = DOMAIN buyOrders
      PROVE  FiniteBooks'
  BY <1>2, FS_AddElement DEF FiniteBooks
<1>3. ASSUME UNCHANGED <<buyOrders, sellOrders>> PROVE FiniteBooks'
  BY <1>3 DEF FiniteBooks
<1>4. ASSUME NEW c \in Call, NEW m, NEW s, NEW n, NEW k, Buys(c, m, s, n, k)
      PROVE  FiniteBooks'
  BY <1>1, <1>4 DEF Buys
<1>5. ASSUME NEW c \in Call, NEW m, NEW o, NEW s, NEW n, NEW k, Sells(c, m, o, s, n, k)
      PROVE  FiniteBooks'
  BY <1>2, <1>5 DEF Sells
<1> QED
  BY <1>3, <1>4, <1>5, BookSteps

\* A buy of n shares invests what they cost, and realizes nothing.
LEMMA BuyInvests ==
  ASSUME TradesOK, FiniteBooks, NEW c, NEW m, NEW s, NEW n, NEW k, Buys(c, m, s, n, k), NEW q
  PROVE  /\ Invested(q) \in Int /\ Invested(q)' = Invested(q) + IF q = m THEN Cost(k, n) ELSE 0
         /\ Realized(q)' = Realized(q)
<1> DEFINE S == {o \in DOMAIN buyOrders : buyOrders[o].owner = q}
           T == {o \in DOMAIN buyOrders' : buyOrders'[o].owner = q}
           g == [o \in DOMAIN buyOrders' |-> Cost(buyOrders'[o].cost, buyOrders'[o].available)]
           R == {x \in DOMAIN sellOrders : SellerOf(x) = q}
           f == [x \in DOMAIN sellOrders |-> ProfitLoss(x)]
<1>1. /\ c \notin DOMAIN buyOrders /\ DOMAIN buyOrders' = DOMAIN buyOrders \cup {c}
      /\ \A o \in DOMAIN buyOrders : buyOrders'[o] = buyOrders[o]
      /\ buyOrders'[c].owner = m /\ buyOrders'[c].cost = k /\ buyOrders'[c].available = n
      /\ k \in Nat /\ n \in Nat
      /\ sellOrders' = sellOrders
  BY DEF Buys
<1>2. Invested(q) = Total(S, CostHeld) /\ Invested(q)' = Total(T, g)
  BY DEF Invested, CostHeld
<1>3. /\ IsFiniteSet(S) /\ c \notin S /\ T \in {S, S \cup {c}} /\ (c \in T <=> q = m)
      /\ \A o \in S : CostHeld[o] \in Int /\ g[o] = CostHeld[o]
      /\ g[c] = Cost(k, n) /\ Cost(k, n) \in Int
  <2>1. IsFiniteSet(S)
    BY SelectionsAreFinite
  <2>2. T = IF q = m THEN S \cup {c} ELSE S
    BY <1>1
  <2>3. \A o \in S : CostHeld[o] \in Int
    BY TermsAreInt
  <2>4. \A o \in S : g[o] = CostHeld[o]
    BY <1>1 DEF CostHeld
  <2>5. g[c] = Cost(k, n)
    BY <1>1
  <2>6. Cost(k, n) \in Int
    BY <1>1, CostIsNatural
  <2> QED
    BY <1>1, <2>1, <2>2, <2>3, <2>4, <2>5, <2>6
<1>4. Total(S, CostHeld) \in Int /\ Total(T, g) = Total(S, CostHeld) + IF c \in T THEN g[c] ELSE 0
  <2>1. g[c] \in Int
    BY <1>3
  <2>2. c \notin S /\ IsFiniteSet(S)
    BY <1>3
  <2>3. \A o \in S : CostHeld[o] \in Int /\ g[o] = CostHeld[o]
    BY <1>3
  <2> HIDE DEF S, T, g
  <2>4. /\ Total(S, CostHeld) \in Int /\ Total(S, g) = Total(S, CostHeld)
        /\ Total(S \cup {c}, g) = Total(S, CostHeld) + g[c]
    BY <2>1, <2>2, <2>3, TotalOfMore
  <2> QED
    BY <1>3, <2>4
<1>5. /\ Realized(q) = Total(R, f)
      /\ Realized(q)' = Total({x \in DOMAIN sellOrders : buyOrders'[sellOrders[x].order].owner = q},
                              [x \in DOMAIN sellOrders |-> ProfitLoss(x)'])
  BY <1>1 DEF Realized, SellerOf
<1>6. \A x \in DOMAIN sellOrders : sellOrders[x].order \in DOMAIN buyOrders
  BY OrderFields
<1>7. {x \in DOMAIN sellOrders : buyOrders'[sellOrders[x].order].owner = q} = R
  BY <1>1, <1>6 DEF SellerOf
<1>8. \A x \in DOMAIN sellOrders : ProfitLoss(x)' = ProfitLoss(x)
  BY <1>1, <1>6 DEF ProfitLoss
<1>9. [x \in DOMAIN sellOrders |-> ProfitLoss(x)'] = f
  BY <1>8
<1> QED
  BY <1>2, <1>3, <1>4, <1>5, <1>7, <1>9

\* A sell of n shares divests what they had cost, and realizes the difference.
LEMMA SellRealizes ==
  ASSUME TradesOK, FiniteBooks, NEW c, NEW m, NEW o, NEW s, NEW n, NEW k,
         Sells(c, m, o, s, n, k), NEW q
  PROVE  /\ Cost(buyOrders[o].cost, n) \in Int /\ Cost(k, n) \in Int
         /\ Invested(q) \in Int
         /\ Invested(q)' = Invested(q) - IF q = m THEN Cost(buyOrders[o].cost, n) ELSE 0
         /\ Realized(q) \in Int
         /\ Realized(q)' = Realized(q)
              + IF q = m THEN Cost(k, n) - Cost(buyOrders[o].cost, n) ELSE 0
<1> DEFINE S == {p \in DOMAIN buyOrders : buyOrders[p].owner = q}
           g == [p \in DOMAIN buyOrders' |-> Cost(buyOrders'[p].cost, buyOrders'[p].available)]
           R == {x \in DOMAIN sellOrders : SellerOf(x) = q}
           U == {x \in DOMAIN sellOrders' : buyOrders'[sellOrders'[x].order].owner = q}
           f == [x \in DOMAIN sellOrders |-> ProfitLoss(x)]
           h == [x \in DOMAIN sellOrders' |->
                   Cost(sellOrders'[x].price, sellOrders'[x].shares)
                     - Cost(buyOrders'[sellOrders'[x].order].cost, sellOrders'[x].shares)]
<1>1. /\ c \notin DOMAIN sellOrders /\ DOMAIN sellOrders' = DOMAIN sellOrders \cup {c}
      /\ \A x \in DOMAIN sellOrders : sellOrders'[x] = sellOrders[x]
      /\ sellOrders'[c].order = o /\ sellOrders'[c].shares = n /\ sellOrders'[c].price = k
      /\ k \in Nat /\ n \in Nat
  BY DEF Sells
<1>2. /\ o \in DOMAIN buyOrders /\ buyOrders[o].owner = m /\ DOMAIN buyOrders' = DOMAIN buyOrders
      /\ \A p \in DOMAIN buyOrders :
           /\ buyOrders'[p].owner = buyOrders[p].owner /\ buyOrders'[p].cost = buyOrders[p].cost
           /\ p # o => buyOrders'[p] = buyOrders[p]
      /\ buyOrders'[o].available = buyOrders[o].available - n
  BY DEF Sells
<1>3. Invested(q) = Total(S, CostHeld) /\ Invested(q)' = Total(S, g)
  <2>1. {p \in DOMAIN buyOrders' : buyOrders'[p].owner = q} = S
    BY <1>2
  <2> QED
    BY <2>1 DEF Invested, CostHeld
<1>4. /\ IsFiniteSet(S) /\ \A p \in S : CostHeld[p] \in Int
      /\ \A p \in S : p # o => g[p] = CostHeld[p]
  <2>1. IsFiniteSet(S)
    BY SelectionsAreFinite
  <2>2. \A p \in S : p # o => g[p] = CostHeld[p]
    BY <1>2 DEF CostHeld
  <2> QED
    BY <2>1, <2>2, TermsAreInt
<1>5. /\ Cost(buyOrders[o].cost, n) \in Int /\ CostHeld[o] \in Int
      /\ g[o] = CostHeld[o] - Cost(buyOrders[o].cost, n)
  <2>1. /\ buyOrders[o].cost \in Int /\ buyOrders[o].available \in Int /\ n \in Int
    BY <1>1, <1>2, OrderFields
  <2>2. g[o] = Cost(buyOrders[o].cost, buyOrders[o].available - n)
    BY <1>2
  <2>3. CostHeld[o] = Cost(buyOrders[o].cost, buyOrders[o].available)
    BY <1>2 DEF CostHeld
  <2>4. /\ Cost(buyOrders[o].cost, buyOrders[o].available) \in Int
        /\ Cost(buyOrders[o].cost, n) \in Int
        /\ Cost(buyOrders[o].cost, buyOrders[o].available - n)
             = Cost(buyOrders[o].cost, buyOrders[o].available) - Cost(buyOrders[o].cost, n)
    <3> HIDE DEF g
    <3> QED
      BY <2>1, CostOfDifference
  <2> HIDE DEF g
  <2> QED
    BY <2>2, <2>3, <2>4
<1>6. /\ Total(S, CostHeld) \in Int
      /\ Total(S, g) = Total(S, CostHeld) - IF q = m THEN Cost(buyOrders[o].cost, n) ELSE 0
  <2>1. CASE q = m
    <3>1. o \in S
      BY <1>2, <2>1
    <3>2. \A p \in S : CostHeld[p] \in Int /\ g[p] \in Int
      BY <1>4, <1>5
    <3>3. \A p \in S \ {o} : g[p] = CostHeld[p]
      BY <1>4
    <3>4. Total(S, CostHeld) \in Int /\ Total(S, g) = Total(S, CostHeld) + g[o] - CostHeld[o]
      <4> HIDE DEF S, g
      <4> QED
        BY <1>4, <3>1, <3>2, <3>3, TotalOfOneChanged
    <3> QED
      BY <1>5, <2>1, <3>4
  <2>2. CASE q # m
    <3>1. o \notin S
      BY <1>2, <2>2
    <3>2. \A p \in S : g[p] = CostHeld[p]
      BY <1>4, <3>1
    <3>3. Total(S, CostHeld) \in Int /\ Total(S, g) = Total(S, CostHeld)
      <4> HIDE DEF S, g
      <4> QED
        BY <1>4, <3>2, TotalOfSame, TotalIsInt
    <3> QED
      BY <2>2, <3>3
  <2> QED
    BY <2>1, <2>2
<1>7. \A x \in DOMAIN sellOrders : sellOrders[x].order \in DOMAIN buyOrders
  BY OrderFields
<1>8. Realized(q) = Total(R, f) /\ Realized(q)' = Total(U, h)
  BY DEF Realized, SellerOf, ProfitLoss
<1>9. /\ IsFiniteSet(R) /\ c \notin R /\ U \in {R, R \cup {c}} /\ (c \in U <=> q = m)
  <2>1. U = IF q = m THEN R \cup {c} ELSE R
    BY <1>1, <1>2, <1>7 DEF SellerOf
  <2>2. IsFiniteSet(R)
    BY SelectionsAreFinite
  <2> QED
    BY <1>1, <2>1, <2>2
<1>10. \A x \in R : f[x] \in Int /\ h[x] = f[x]
  <2>1. \A x \in R : f[x] \in Int
    BY TermsAreInt
  <2>2. \A x \in R : h[x] = f[x]
    BY <1>1, <1>2, <1>7 DEF ProfitLoss
  <2> QED
    BY <2>1, <2>2
<1>11. /\ Cost(k, n) \in Int
       /\ h[c] = Cost(k, n) - Cost(buyOrders[o].cost, n) /\ h[c] \in Int
  <2>1. Cost(k, n) \in Int
    BY <1>1, CostIsNatural
  <2>2. h[c] = Cost(k, n) - Cost(buyOrders[o].cost, n)
    BY <1>1, <1>2
  <2> QED
    BY <1>5, <2>1, <2>2
<1>12. Total(R, f) \in Int /\ Total(U, h) = Total(R, f) + IF c \in U THEN h[c] ELSE 0
  <2>1. c \notin R /\ IsFiniteSet(R)
    BY <1>9
  <2>2. \A x \in R : f[x] \in Int /\ h[x] = f[x]
    BY <1>10
  <2>3. h[c] \in Int
    BY <1>11
  <2> HIDE DEF R, U, f, h
  <2>4. /\ Total(R, f) \in Int /\ Total(R, h) = Total(R, f)
        /\ Total(R \cup {c}, h) = Total(R, f) + h[c]
    <3>1. \A x \in R \cup {c} : h[x] \in Int
      BY <2>2, <2>3
    <3>2. Total(R, h) = Total(R, f)
      BY <2>2, TotalOfSame
    <3>3. Total(R, h) \in Int /\ Total(R \cup {c}, h) = Total(R, h) + h[c]
      BY <2>1, <3>1, TotalOfOneMore
    <3> QED
      BY <3>2, <3>3
  <2>5. CASE c \in U
    <3>1. U = R \cup {c}
      BY <1>9, <2>1, <2>5
    <3> QED
      BY <2>4, <2>5, <3>1
  <2>6. CASE c \notin U
    <3>1. U = R
      BY <1>9, <2>6
    <3> QED
      BY <2>3, <2>4, <2>6, <3>1
  <2> QED
    BY <2>5, <2>6
<1> QED
  BY <1>3, <1>5, <1>6, <1>8, <1>9, <1>11, <1>12

\* A new order has not been sold from; a sell of n shares of order o has taken
\* them from o.
LEMMA BuySellsNothing ==
  ASSUME TradesOK, FiniteBooks, NEW c, NEW m, NEW s, NEW n, NEW k, Buys(c, m, s, n, k)
  PROVE  /\ \A q \in DOMAIN buyOrders : SoldFrom(q)' = SoldFrom(q)
         /\ SoldFrom(c)' = 0
<1>1. sellOrders' = sellOrders /\ c \notin DOMAIN buyOrders
  BY DEF Buys
<1>2. \A q \in DOMAIN buyOrders : SoldFrom(q)' = SoldFrom(q)
  BY <1>1 DEF SoldFrom, SharesSold
<1>3. SoldFrom(c)' = Total({x \in DOMAIN sellOrders : sellOrders[x].order = c}, SharesSold)
  BY <1>1 DEF SoldFrom, SharesSold
<1>4. {x \in DOMAIN sellOrders : sellOrders[x].order = c} = {}
  BY <1>1, OrderFields
<1> QED
  BY <1>2, <1>3, <1>4, TotalOfNone

LEMMA SellTakes ==
  ASSUME TradesOK, FiniteBooks, NEW c, NEW m, NEW o, NEW s, NEW n, NEW k,
         Sells(c, m, o, s, n, k), NEW q
  PROVE  SoldFrom(q) \in Int /\ SoldFrom(q)' = SoldFrom(q) + IF q = o THEN n ELSE 0
<1> DEFINE R == {x \in DOMAIN sellOrders : sellOrders[x].order = q}
           U == {x \in DOMAIN sellOrders' : sellOrders'[x].order = q}
           h == [x \in DOMAIN sellOrders' |-> sellOrders'[x].shares]
<1>1. /\ c \notin DOMAIN sellOrders /\ DOMAIN sellOrders' = DOMAIN sellOrders \cup {c}
      /\ \A x \in DOMAIN sellOrders : sellOrders'[x] = sellOrders[x]
      /\ sellOrders'[c].order = o /\ sellOrders'[c].shares = n /\ n \in Int
  BY DEF Sells
<1>2. SoldFrom(q) = Total(R, SharesSold) /\ SoldFrom(q)' = Total(U, h)
  BY DEF SoldFrom, SharesSold
<1>3. c \notin R /\ U = IF q = o THEN R \cup {c} ELSE R
  BY <1>1
<1>4. IsFiniteSet(R)
  BY SelectionsAreFinite
<1>5. (\A x \in R : SharesSold[x] \in Int) /\ (\A x \in R : h[x] = SharesSold[x])
  <2>1. \A x \in R : h[x] = SharesSold[x]
    BY <1>1 DEF SharesSold
  <2> QED
    BY <2>1, TermsAreInt
<1>6. h[c] = n
  BY <1>1
<1>7. \A x \in R \cup {c} : h[x] \in Int
  BY <1>1, <1>5, <1>6
<1> HIDE DEF R, U, h
<1>8. Total(R, h) = Total(R, SharesSold)
  BY <1>5, TotalOfSame
<1>9. Total(R, h) \in Int /\ Total(R \cup {c}, h) = Total(R, h) + h[c]
  BY <1>3, <1>4, <1>7, TotalOfOneMore
<1>10. CASE q = o
  BY <1>2, <1>3, <1>6, <1>8, <1>9, <1>10
<1>11. CASE q # o
  BY <1>2, <1>3, <1>8, <1>9, <1>11
<1> QED
  BY <1>10, <1>11

LEMMA SalesKeepMatching ==
  ASSUME TradesOK, FiniteBooks, SalesMatchOrders, [Next]_vars
  PROVE  SalesMatchOrders'
<1>1. ASSUME NEW c \in Call, NEW m, NEW s, NEW n \in Nat, NEW k, Buys(c, m, s, n, k)
      PROVE  SalesMatchOrders'
  <2>1. /\ DOMAIN buyOrders' = DOMAIN buyOrders \cup {c} /\ c \notin DOMAIN buyOrders
        /\ \A o \in DOMAIN buyOrders : buyOrders'[o] = buyOrders[o]
        /\ buyOrders'[c].shares = n /\ buyOrders'[c].available = n
    BY <1>1 DEF Buys
  <2>2. /\ \A q \in DOMAIN buyOrders : SoldFrom(q)' = SoldFrom(q)
        /\ SoldFrom(c)' = 0
    BY <1>1, BuySellsNothing
  <2>3. \A q \in DOMAIN buyOrders : buyOrders'[q].available = buyOrders'[q].shares - SoldFrom(q)'
    BY <2>1, <2>2 DEF SalesMatchOrders
  <2>4. buyOrders'[c].available = buyOrders'[c].shares - SoldFrom(c)'
    BY <2>1, <2>2
  <2> QED
    BY <2>1, <2>3, <2>4 DEF SalesMatchOrders
<1>2. ASSUME NEW c \in Call, NEW m, NEW o, NEW s, NEW n \in Nat, NEW k, Sells(c, m, o, s, n, k)
      PROVE  SalesMatchOrders'
  <2>1. /\ DOMAIN buyOrders' = DOMAIN buyOrders /\ o \in DOMAIN buyOrders
        /\ \A q \in DOMAIN buyOrders : /\ buyOrders'[q].shares = buyOrders[q].shares
                                       /\ q # o => buyOrders'[q] = buyOrders[q]
        /\ buyOrders'[o].available = buyOrders[o].available - n
    BY <1>2 DEF Sells
  <2>2. \A q : SoldFrom(q) \in Int /\ SoldFrom(q)' = SoldFrom(q) + IF q = o THEN n ELSE 0
    BY <1>2, SellTakes
  <2>3. \A q \in DOMAIN buyOrders :
          /\ buyOrders[q].shares \in Int
          /\ buyOrders[q].available = buyOrders[q].shares - SoldFrom(q)
    BY OrderFields DEF SalesMatchOrders
  <2>4. \A q \in DOMAIN buyOrders : buyOrders'[q].available = buyOrders'[q].shares - SoldFrom(q)'
    <3> SUFFICES ASSUME NEW q \in DOMAIN buyOrders
                 PROVE  buyOrders'[q].available = buyOrders'[q].shares - SoldFrom(q)'
      OBVIOUS
    <3>1. SoldFrom(q) \in Int /\ SoldFrom(q)' = SoldFrom(q) + IF q = o THEN n ELSE 0
      BY <2>2
    <3>2. CASE q = o
      BY <2>1, <2>3, <3>1, <3>2
    <3>3. CASE q # o
      BY <2>1, <2>3, <3>1, <3>3
    <3> QED
      BY <3>2, <3>3
  <2> QED
    BY <2>1, <2>4 DEF SalesMatchOrders
<1>3. ASSUME UNCHANGED <<buyOrders, sellOrders>> PROVE SalesMatchOrders'
  BY <1>3 DEF SalesMatchOrders, SoldFrom, SharesSold
<1> QED
  BY <1>1, <1>2, <1>3, BookSteps

LEMMA CashStaysExplained ==
  ASSUME TradesOK, FiniteBooks, CashIsExplained, [Next]_vars
  PROVE  CashIsExplained'
<1>1. DOMAIN balance = DOMAIN InitialBalance
  BY DEF CashIsExplained
<1>2. \A q \in DOMAIN balance : /\ balance[q] \in Int /\ InitialBalance[q] \in Int
                                /\ balance[q] + Invested(q) = InitialBalance[q] + Realized(q)
  BY <1>1, InitialBalanceIsNatural DEF CashIsExplained, TradesOK, SchemasOK
<1>3. ASSUME NEW c \in Call, NEW m, NEW s, NEW n \in Nat, NEW k \in Nat, Buys(c, m, s, n, k)
      PROVE  CashIsExplained'
  <2>1. m \in DOMAIN balance /\ balance' = [balance EXCEPT ![m] = @ - Cost(k, n)]
    BY <1>3 DEF Buys
  <2>2. \A q : /\ Invested(q) \in Int /\ Invested(q)' = Invested(q) + IF q = m THEN Cost(k, n) ELSE 0
               /\ Realized(q)' = Realized(q)
    BY <1>3, BuyInvests
  <2>3. Cost(k, n) \in Int
    BY CostIsNatural
  <2>4. DOMAIN balance' = DOMAIN balance
    BY <2>1
  <2>5. ASSUME NEW q \in DOMAIN balance
        PROVE  balance'[q] + Invested(q)' = InitialBalance[q] + Realized(q)'
    <3>1. balance'[q] = balance[q] - IF q = m THEN Cost(k, n) ELSE 0
      BY <1>2, <2>1
    <3>2. /\ Invested(q) \in Int /\ Invested(q)' = Invested(q) + IF q = m THEN Cost(k, n) ELSE 0
          /\ Realized(q)' = Realized(q)
      BY <2>2
    <3>3. balance[q] \in Int /\ balance[q] + Invested(q) = InitialBalance[q] + Realized(q)
      BY <1>2
    <3> QED
      BY <2>3, <3>1, <3>2, <3>3
  <2> QED
    BY <1>1, <2>4, <2>5 DEF CashIsExplained
<1>4. ASSUME NEW c \in Call, NEW m, NEW o, NEW s, NEW n \in Nat, NEW k \in Nat,
             Sells(c, m, o, s, n, k)
      PROVE  CashIsExplained'
  <2>1. m \in DOMAIN balance /\ balance' = [balance EXCEPT ![m] = @ + Cost(k, n)]
    BY <1>4 DEF Sells
  <2>2. PICK basis : basis = Cost(buyOrders[o].cost, n)
    OBVIOUS
  <2>3. basis \in Int /\ Cost(k, n) \in Int
    BY <1>4, <2>2, SellRealizes
  <2>4. \A q : /\ Invested(q) \in Int
               /\ Invested(q)' = Invested(q) - IF q = m THEN basis ELSE 0
               /\ Realized(q) \in Int
               /\ Realized(q)' = Realized(q) + IF q = m THEN Cost(k, n) - basis ELSE 0
    BY <1>4, <2>2, SellRealizes
  <2>5. DOMAIN balance' = DOMAIN balance
    BY <2>1
  <2>6. ASSUME NEW q \in DOMAIN balance
        PROVE  balance'[q] + Invested(q)' = InitialBalance[q] + Realized(q)'
    <3>1. balance'[q] = balance[q] + IF q = m THEN Cost(k, n) ELSE 0
      BY <1>2, <2>1
    <3>2. /\ Invested(q) \in Int
          /\ Invested(q)' = Invested(q) - IF q = m THEN basis ELSE 0
          /\ Realized(q) \in Int
          /\ Realized(q)' = Realized(q) + IF q = m THEN Cost(k, n) - basis ELSE 0
      BY <2>4
    <3>3. /\ balance[q] \in Int /\ InitialBalance[q] \in Int
          /\ balance[q] + Invested(q) = InitialBalance[q] + Realized(q)
      BY <1>2
    <3> QED
      BY <2>3, <3>1, <3>2, <3>3
  <2> QED
    BY <1>1, <2>5, <2>6 DEF CashIsExplained
<1>5. ASSUME UNCHANGED <<balance, buyOrders, sellOrders>> PROVE CashIsExplained'
  BY <1>5 DEF CashIsExplained, Invested, CostHeld, Realized, SellerOf, ProfitLoss
<1> QED
  BY <1>3, <1>4, <1>5, BookSteps

LEMMA InitBooks == Init => BooksInv
<1> SUFFICES ASSUME Init PROVE BooksInv
  OBVIOUS
<1>1. DOMAIN buyOrders = {} /\ DOMAIN sellOrders = {} /\ balance = InitialBalance
  BY DEF Init, EmptyCollection
<1>2. FiniteBooks
  BY <1>1, FS_EmptySet DEF FiniteBooks
<1>3. SalesMatchOrders
  BY <1>1 DEF SalesMatchOrders
<1>4. ASSUME NEW m PROVE Invested(m) = 0 /\ Realized(m) = 0
  <2>1. /\ {o \in DOMAIN buyOrders : buyOrders[o].owner = m} = {}
        /\ {x \in DOMAIN sellOrders : SellerOf(x) = m} = {}
    BY <1>1
  <2> QED
    BY <2>1, TotalOfNone DEF Invested, Realized
<1>5. CashIsExplained
  BY <1>1, <1>4, InitialBalanceIsNatural DEF CashIsExplained
<1> QED
  BY <1>2, <1>3, <1>5 DEF BooksInv

\* However many trades and edits there have been: an order has left what its sell
\* orders have not taken, and a member's money is in his wallet or invested.
THEOREM BooksInvariant == Spec => []BooksInv
<1>1. IInv /\ BooksInv /\ [Next]_vars => BooksInv'
  BY BooksStayFinite, SalesKeepMatching, CashStaysExplained DEF BooksInv, IInv
<1> QED
  BY <1>1, InitBooks, TradingInvariant, PTL DEF Spec

\* Nothing is sold twice, and what was sold is missing from the order.
THEOREM OrdersAreBalanced == Spec => []SalesMatchOrders
<1>1. BooksInv => SalesMatchOrders
  BY DEF BooksInv
<1> QED
  BY <1>1, BooksInvariant, PTL
-------------------------------------------------------------------------------
(***************************************************************************)
(* Shares, as long as no admin overwrites availableShares.                 *)
(***************************************************************************)
LEMMA BuyHolds ==
  ASSUME TradesOK, FiniteBooks, NEW c, NEW m, NEW s, NEW n, NEW k, Buys(c, m, s, n, k), NEW t
  PROVE  HeldOf(t) \in Int /\ HeldOf(t)' = HeldOf(t) + IF t = s THEN n ELSE 0
<1> DEFINE S == {o \in DOMAIN buyOrders : buyOrders[o].stock = t}
           T == {o \in DOMAIN buyOrders' : buyOrders'[o].stock = t}
           g == [o \in DOMAIN buyOrders' |-> buyOrders'[o].available]
<1>1. /\ c \notin DOMAIN buyOrders /\ DOMAIN buyOrders' = DOMAIN buyOrders \cup {c}
      /\ \A o \in DOMAIN buyOrders : buyOrders'[o] = buyOrders[o]
      /\ buyOrders'[c].stock = s /\ buyOrders'[c].available = n /\ n \in Int
  BY DEF Buys
<1>2. HeldOf(t) = Total(S, SharesHeld) /\ HeldOf(t)' = Total(T, g)
  BY DEF HeldOf, SharesHeld
<1>3. c \notin S /\ T = IF t = s THEN S \cup {c} ELSE S
  BY <1>1
<1>4. IsFiniteSet(S)
  BY SelectionsAreFinite
<1>5. (\A o \in S : SharesHeld[o] \in Int) /\ (\A o \in S : g[o] = SharesHeld[o])
  <2>1. \A o \in S : g[o] = SharesHeld[o]
    BY <1>1 DEF SharesHeld
  <2> QED
    BY <2>1, TermsAreInt
<1>6. g[c] = n
  BY <1>1
<1>7. \A o \in S \cup {c} : g[o] \in Int
  BY <1>1, <1>5, <1>6
<1> HIDE DEF S, T, g
<1>8. Total(S, g) = Total(S, SharesHeld)
  BY <1>5, TotalOfSame
<1>9. Total(S, g) \in Int /\ Total(S \cup {c}, g) = Total(S, g) + g[c]
  BY <1>3, <1>4, <1>7, TotalOfOneMore
<1>10. CASE t = s
  BY <1>2, <1>3, <1>6, <1>8, <1>9, <1>10
<1>11. CASE t # s
  BY <1>2, <1>3, <1>8, <1>9, <1>11
<1> QED
  BY <1>10, <1>11

LEMMA SellReleases ==
  ASSUME TradesOK, FiniteBooks, NEW c, NEW m, NEW o, NEW s, NEW n, NEW k,
         Sells(c, m, o, s, n, k), NEW t
  PROVE  HeldOf(t) \in Int /\ HeldOf(t)' = HeldOf(t) - IF t = s THEN n ELSE 0
<1> DEFINE S == {p \in DOMAIN buyOrders : buyOrders[p].stock = t}
           g == [p \in DOMAIN buyOrders' |-> buyOrders'[p].available]
<1>1. /\ o \in DOMAIN buyOrders /\ buyOrders[o].stock = s /\ DOMAIN buyOrders' = DOMAIN buyOrders
      /\ \A p \in DOMAIN buyOrders : /\ buyOrders'[p].stock = buyOrders[p].stock
                                     /\ p # o => buyOrders'[p] = buyOrders[p]
      /\ buyOrders'[o].available = buyOrders[o].available - n /\ n \in Int
  BY DEF Sells
<1>2. HeldOf(t) = Total(S, SharesHeld) /\ HeldOf(t)' = Total(S, g)
  <2>1. {p \in DOMAIN buyOrders' : buyOrders'[p].stock = t} = S
    BY <1>1
  <2> QED
    BY <2>1 DEF HeldOf, SharesHeld
<1>3. IsFiniteSet(S)
  BY SelectionsAreFinite
<1>4. \A p \in DOMAIN buyOrders : SharesHeld[p] \in Int
  BY TermsAreInt
<1>5. g[o] = SharesHeld[o] - n /\ \A p \in S \ {o} : g[p] = SharesHeld[p]
  BY <1>1 DEF SharesHeld
<1>6. (o \in S <=> t = s) /\ S \subseteq DOMAIN buyOrders
  BY <1>1
<1> HIDE DEF S, g
<1>7. CASE t = s
  <2>1. \A p \in S : SharesHeld[p] \in Int /\ g[p] \in Int
    BY <1>1, <1>4, <1>5, <1>6
  <2>2. Total(S, SharesHeld) \in Int /\ Total(S, g) = Total(S, SharesHeld) + g[o] - SharesHeld[o]
    BY <1>3, <1>5, <1>6, <1>7, <2>1, TotalOfOneChanged
  <2> QED
    BY <1>1, <1>2, <1>4, <1>5, <1>7, <2>2
<1>8. CASE t # s
  <2>1. \A p \in S : SharesHeld[p] \in Int /\ g[p] = SharesHeld[p]
    BY <1>4, <1>5, <1>6, <1>8
  <2>2. Total(S, g) = Total(S, SharesHeld) /\ Total(S, SharesHeld) \in Int
    BY <1>3, <2>1, TotalOfSame, TotalIsInt
  <2> QED
    BY <1>2, <1>8, <2>2
<1> QED
  BY <1>7, <1>8

LEMMA SharesStayConserved ==
  ASSUME Restock = {}, TradesOK, FiniteBooks, SharesConserved, [Next]_vars
  PROVE  SharesConserved'
<1>1. \A t \in Stock : stock[t].available \in Int
  BY DEF TradesOK, SchemasOK
<1>2. stock = [t \in Stock |-> stock[t]]
  BY DEF TradesOK, SchemasOK
<1>3. \A t \in Stock : stock[t] = [price |-> stock[t].price, available |-> stock[t].available,
                                   listed |-> stock[t].listed]
  BY DEF TradesOK, SchemasOK
<1>4. ASSUME NEW c \in Call, NEW m, NEW s \in Stock, NEW n \in Nat, NEW k, Buys(c, m, s, n, k),
             NEW t \in Stock
      PROVE  stock'[t].available + HeldOf(t)' = InitialShares
  <2>1. HeldOf(t) \in Int /\ HeldOf(t)' = HeldOf(t) + IF t = s THEN n ELSE 0
    BY <1>4, BuyHolds
  <2>2. stock' = [stock EXCEPT ![s].available = @ - n]
    BY <1>4 DEF Buys
  <2>3. stock'[t].available = stock[t].available - IF t = s THEN n ELSE 0
    BY <1>1, <1>2, <1>3, <2>2
  <2>4. stock[t].available + HeldOf(t) = InitialShares
    BY DEF SharesConserved
  <2> QED
    BY <1>1, <2>1, <2>3, <2>4
<1>5. ASSUME NEW c \in Call, NEW m, NEW o, NEW s \in Stock, NEW n \in Nat, NEW k,
             Sells(c, m, o, s, n, k), NEW t \in Stock
      PROVE  stock'[t].available + HeldOf(t)' = InitialShares
  <2>1. HeldOf(t) \in Int /\ HeldOf(t)' = HeldOf(t) - IF t = s THEN n ELSE 0
    BY <1>5, SellReleases
  <2>2. stock' = [stock EXCEPT ![s].available = @ + n]
    BY <1>5 DEF Sells
  <2>3. stock'[t].available = stock[t].available + IF t = s THEN n ELSE 0
    BY <1>1, <1>2, <1>3, <2>2
  <2>4. stock[t].available + HeldOf(t) = InitialShares
    BY DEF SharesConserved
  <2> QED
    BY <1>1, <2>1, <2>3, <2>4
<1>6. ASSUME UNCHANGED <<balance, buyOrders, sellOrders>>, UNCHANGED stock
      PROVE  SharesConserved'
  BY <1>6 DEF SharesConserved, HeldOf, SharesHeld
<1>7. ASSUME UNCHANGED <<balance, buyOrders, sellOrders>>, NEW s \in Stock, UpdateStock(s)
      PROVE  SharesConserved'
  <2>1. PICK p \in Price, a \in {stock[s].available}, l \in BOOLEAN :
          stock' = [stock EXCEPT ![s] = [price |-> p, available |-> a, listed |-> l]]
    BY <1>7 DEF UpdateStock
  <2>2. \A t \in Stock : stock'[t].available = stock[t].available
    BY <1>2, <2>1
  <2>3. \A t \in Stock : HeldOf(t)' = HeldOf(t)
    BY <1>7 DEF HeldOf, SharesHeld
  <2> QED
    BY <2>2, <2>3 DEF SharesConserved
<1>8. ASSUME NEW c \in Call, NEW m, NEW s \in Stock, NEW n \in Nat, NEW k, Buys(c, m, s, n, k)
      PROVE  SharesConserved'
  BY <1>4, <1>8 DEF SharesConserved
<1>9. ASSUME NEW c \in Call, NEW m, NEW o, NEW s \in Stock, NEW n \in Nat, NEW k,
             Sells(c, m, o, s, n, k)
      PROVE  SharesConserved'
  BY <1>5, <1>9 DEF SharesConserved
<1> QED
  BY <1>6, <1>7, <1>8, <1>9, BookSteps

LEMMA InitShares == Init => SharesConserved
<1> SUFFICES ASSUME Init, NEW s \in Stock PROVE stock[s].available + HeldOf(s) = InitialShares
  BY DEF SharesConserved
<1>1. {o \in DOMAIN buyOrders : buyOrders[o].stock = s} = {}
  BY DEF Init, EmptyCollection
<1>2. HeldOf(s) = 0
  BY <1>1, TotalOfNone DEF HeldOf
<1>3. stock[s].available = InitialShares
  BY DEF Init
<1> QED
  BY <1>2, <1>3, InitialSharesIsNatural

\* While no admin overwrites availableShares, no race of trades creates a share or
\* loses one.
THEOREM NoShareIsLost == ASSUME Restock = {} PROVE Spec => []SharesConserved
<1>1. IInv /\ BooksInv /\ SharesConserved /\ [Next]_vars => SharesConserved'
  BY SharesStayConserved DEF BooksInv, IInv
<1> QED
  BY <1>1, InitShares, TradingInvariant, BooksInvariant, PTL DEF Spec
-------------------------------------------------------------------------------
(***************************************************************************)
(* The reports.  They are sums of sums: over the positions of a member,    *)
(* over the trades in a stock, over the members.                           *)
(***************************************************************************)
\* The parts of two sums, added up together.
LEMMA TotalOfBothParts ==
  ASSUME NEW S, IsFiniteSet(S), NEW T, IsFiniteSet(T), NEW I, IsFiniteSet(I),
         NEW p, NEW q, NEW f, NEW g,
         \A x \in S : p[x] \in I /\ f[x] \in Int, \A x \in T : q[x] \in I /\ g[x] \in Int
  PROVE  Total(I, [i \in I |-> Total({x \in S : p[x] = i}, f) + Total({x \in T : q[x] = i}, g)])
           = Total(S, f) + Total(T, g)
<1> DEFINE a == [i \in I |-> Total({x \in S : p[x] = i}, f)]
           b == [i \in I |-> Total({x \in T : q[x] = i}, g)]
           h == [i \in I |-> Total({x \in S : p[x] = i}, f) + Total({x \in T : q[x] = i}, g)]
<1>1. Total(S, f) = Total(I, a)
  BY TotalOfParts
<1>2. Total(T, g) = Total(I, b)
  BY TotalOfParts
<1>3. ASSUME NEW i \in I
      PROVE  a[i] \in Int /\ b[i] \in Int
  <2> DEFINE A == {x \in S : p[x] = i}
             B == {x \in T : q[x] = i}
  <2>1. IsFiniteSet(A) /\ IsFiniteSet(B)
    BY FS_Subset
  <2>2. (\A x \in A : f[x] \in Int) /\ (\A x \in B : g[x] \in Int)
    OBVIOUS
  <2>3. Total(A, f) \in Int /\ Total(B, g) \in Int
    <3> HIDE DEF A, B
    <3> QED
      BY <2>1, <2>2, TotalIsInt
  <2> QED
    BY <2>3
<1>4. \A i \in I : h[i] = a[i] + b[i]
  OBVIOUS
<1>5. Total(I, h) = Total(I, a) + Total(I, b)
  <2> HIDE DEF a, b, h
  <2>1. \A i \in I : a[i] \in Int /\ b[i] \in Int /\ h[i] = a[i] + b[i]
    BY <1>3, <1>4
  <2> QED
    BY <2>1, TotalOfSum
<1> QED
  BY <1>1, <1>2, <1>5

\* What a member has invested is what his positions cost.
LEMMA InvestedInPositions ==
  ASSUME TradesOK, FiniteBooks, NEW m
  PROVE  Totals(m).cost = Invested(m)
<1> DEFINE S       == {o \in DOMAIN buyOrders : buyOrders[o].owner = m}
           p       == [o \in DOMAIN buyOrders |-> buyOrders[o].stock]
           part(s) == {o \in S : p[o] = s}
           open(s) == {o \in OpenOrders : buyOrders[o].owner = m /\ buyOrders[o].stock = s}
<1>1. IsFiniteSet(S)
  BY SelectionsAreFinite
<1>2. \A o \in S : p[o] \in Stock /\ CostHeld[o] \in Int
  BY OrderFields, TermsAreInt
<1>3. Total(S, CostHeld) = Total(Stock, [s \in Stock |-> Total(part(s), CostHeld)])
  <2> HIDE DEF S, p
  <2> QED
    BY <1>1, <1>2, CollectionsAreFinite, TotalOfParts
<1>4. ASSUME NEW s \in Stock
      PROVE  Total(open(s), CostHeld) = Total(part(s), CostHeld)
  <2>1. open(s) \in SUBSET part(s)
    BY DEF OpenOrders
  <2>2. ASSUME NEW o \in part(s) \ open(s)
        PROVE  CostHeld[o] = 0
    <3>1. o \in DOMAIN buyOrders /\ ~(buyOrders[o].available > 0)
      BY DEF OpenOrders
    <3>2. buyOrders[o].available = 0 /\ buyOrders[o].cost \in Int
      BY <3>1, OrderFields
    <3>3. CostHeld[o] = Cost(buyOrders[o].cost, 0)
      BY <3>1, <3>2 DEF CostHeld
    <3> QED
      BY <3>2, <3>3, NothingCostsNothing
  <2> HIDE DEF part, open
  <2> QED
    BY <2>1, <2>2, TotalOfNonzero
<1>5. \A s \in Stock : Position(m, s).totalCost = Total(open(s), CostHeld)
  BY DEF Position
<1>6. [s \in Stock |-> Position(m, s).totalCost] = [s \in Stock |-> Total(part(s), CostHeld)]
  <2> HIDE DEF part, open
  <2> QED
    BY <1>4, <1>5
<1>7. Totals(m).cost = Total(Stock, [s \in Stock |-> Position(m, s).totalCost])
  BY DEF Totals
<1> QED
  BY <1>3, <1>6, <1>7 DEF Invested

\* A position's cost and value are integers, its gain is the difference.
LEMMA PositionFields ==
  ASSUME TradesOK, FiniteBooks, NEW m, NEW s \in Stock
  PROVE  /\ Position(m, s).totalCost \in Int /\ Position(m, s).marketValue \in Int
         /\ Position(m, s).unrealizedGainLoss
              = Position(m, s).marketValue - Position(m, s).totalCost
<1> DEFINE mine == {o \in OpenOrders : buyOrders[o].owner = m /\ buyOrders[o].stock = s}
<1>1. IsFiniteSet(mine) /\ mine \in SUBSET DOMAIN buyOrders
  <2>1. mine \in SUBSET DOMAIN buyOrders
    BY DEF OpenOrders
  <2> QED
    BY <2>1, SelectionsAreFinite
<1>2. \A o \in mine : SharesHeld[o] \in Int /\ CostHeld[o] \in Int
  BY <1>1, TermsAreInt
<1>3. Total(mine, SharesHeld) \in Int /\ Total(mine, CostHeld) \in Int
  <2> HIDE DEF mine
  <2> QED
    BY <1>1, <1>2, TotalIsInt
<1>4. stock[s].price \in Int
  BY PricesAreNatural DEF TradesOK, SchemasOK
<1>5. Cost(stock[s].price, Total(mine, SharesHeld)) \in Int
  <2> HIDE DEF mine
  <2> QED
    BY <1>3, <1>4, CostOfDifference
<1>6. /\ Position(m, s).totalCost = Total(mine, CostHeld)
      /\ Position(m, s).marketValue = Cost(stock[s].price, Total(mine, SharesHeld))
      /\ Position(m, s).unrealizedGainLoss
           = Cost(stock[s].price, Total(mine, SharesHeld)) - Total(mine, CostHeld)
  BY DEF Position
<1> QED
  BY <1>3, <1>5, <1>6

\* What the reports say a member has gained is what his wealth has grown by.
THEOREM ReportsExplainWealth == Spec => []ProfitsExplainWealth
<1>1. ASSUME IInv, BooksInv PROVE ProfitsExplainWealth
  <2> SUFFICES ASSUME NEW m \in DOMAIN balance
               PROVE  balance[m] + Totals(m).marketValue
                        = InitialBalance[m] + Realized(m) + Totals(m).unrealizedGainLoss
    BY DEF ProfitsExplainWealth
  <2>1. TradesOK /\ FiniteBooks /\ SalesMatchOrders /\ CashIsExplained
    BY <1>1 DEF IInv, BooksInv
  <2> DEFINE cost  == [s \in Stock |-> Position(m, s).totalCost]
             value == [s \in Stock |-> Position(m, s).marketValue]
             gain  == [s \in Stock |-> Position(m, s).unrealizedGainLoss]
  <2>2. \A s \in Stock : value[s] \in Int /\ cost[s] \in Int /\ gain[s] = value[s] - cost[s]
    BY <2>1, PositionFields
  <2>3. /\ Totals(m).cost = Total(Stock, cost)
        /\ Totals(m).marketValue = Total(Stock, value)
        /\ Totals(m).unrealizedGainLoss = Total(Stock, gain)
    BY DEF Totals
  <2> HIDE DEF cost, value, gain
  <2>4. Total(Stock, gain) = Total(Stock, value) - Total(Stock, cost)
    BY <2>2, CollectionsAreFinite, TotalOfDifference
  <2>5. Total(Stock, value) \in Int /\ Total(Stock, cost) \in Int
    BY <2>2, CollectionsAreFinite, TotalIsInt
  <2>6. Total(Stock, cost) = Invested(m)
    BY <2>1, <2>3, InvestedInPositions
  <2>7. balance[m] + Invested(m) = InitialBalance[m] + Realized(m)
    BY <2>1 DEF CashIsExplained
  <2>8. balance[m] \in Int /\ InitialBalance[m] \in Int /\ Realized(m) \in Int
    <3>1. balance[m] \in Int /\ InitialBalance[m] \in Int
      BY <2>1, InitialBalanceIsNatural DEF CashIsExplained, TradesOK, SchemasOK
    <3> DEFINE R == {x \in DOMAIN sellOrders : SellerOf(x) = m}
               f == [x \in DOMAIN sellOrders |-> ProfitLoss(x)]
    <3>2. IsFiniteSet(R)
      BY <2>1, SelectionsAreFinite
    <3>3. \A x \in R : f[x] \in Int
      BY <2>1, TermsAreInt
    <3>4. Total(R, f) \in Int
      <4> HIDE DEF R, f
      <4> QED
        BY <3>2, <3>3, TotalIsInt
    <3> QED
      BY <3>1, <3>4 DEF Realized
  <2> QED
    BY <2>3, <2>4, <2>5, <2>6, <2>7, <2>8
<1> QED
  BY <1>1, TradingInvariant, BooksInvariant, PTL

\* A member's portfolio is open orders only, and so is what the analyst values, but
\* a closed one is worth nothing.
ClosedIsWorthless == OpenPositionsValue = Total(DOMAIN buyOrders, ValueHeld)

LEMMA ClosedOrdersAreWorthless == TradesOK => ClosedIsWorthless
<1> SUFFICES ASSUME TradesOK PROVE Total(OpenOrders, ValueHeld) = Total(DOMAIN buyOrders, ValueHeld)
  BY DEF ClosedIsWorthless, OpenPositionsValue
<1>1. OpenOrders \in SUBSET DOMAIN buyOrders
  BY DEF OpenOrders
<1>2. ASSUME NEW o \in DOMAIN buyOrders \ OpenOrders
      PROVE  ValueHeld[o] = 0
  <2>1. buyOrders[o].available = 0 /\ buyOrders[o].stock \in Stock
    BY OrderFields DEF OpenOrders
  <2>2. stock[buyOrders[o].stock].price \in Int
    BY <2>1, PricesAreNatural DEF TradesOK, SchemasOK
  <2>3. ValueHeld[o] = Cost(stock[buyOrders[o].stock].price, 0)
    BY <2>1 DEF ValueHeld
  <2> QED
    BY <2>2, <2>3, NothingCostsNothing
<1> QED
  BY <1>1, <1>2, TotalOfNonzero

LEMMA WalletsChange ==
  ASSUME TradesOK, NEW m \in DOMAIN balance, NEW d \in Int, balance' = [balance EXCEPT ![m] = @ + d]
  PROVE  WalletBalanceTotal \in Int /\ WalletBalanceTotal' = WalletBalanceTotal + d
<1>1. IsFiniteSet(DOMAIN balance)
  BY CollectionsAreFinite, FS_Subset DEF TradesOK, SchemasOK
<1>2. \A q \in DOMAIN balance : balance[q] \in Int
  BY DEF TradesOK, SchemasOK
<1>3. DOMAIN balance' = DOMAIN balance
  OBVIOUS
<1>4. balance'[m] = balance[m] + d /\ \A q \in DOMAIN balance \ {m} : balance'[q] = balance[q]
  OBVIOUS
<1>5. \A q \in DOMAIN balance : balance[q] \in Int /\ balance'[q] \in Int
  BY <1>2, <1>4
<1>6. PICK f, g : f = balance /\ g = balance'
  OBVIOUS
<1>7. /\ Total(DOMAIN balance, f) \in Int
      /\ Total(DOMAIN balance, g) = Total(DOMAIN balance, f) + g[m] - f[m]
  <2>1. \A q \in DOMAIN balance : f[q] \in Int /\ g[q] \in Int
    BY <1>5, <1>6
  <2>2. \A q \in DOMAIN balance \ {m} : g[q] = f[q]
    BY <1>4, <1>6
  <2> QED
    BY <1>1, <2>1, <2>2, TotalOfOneChanged
<1>8. WalletBalanceTotal = Total(DOMAIN balance, f) /\ WalletBalanceTotal' = Total(DOMAIN balance, g)
  BY <1>3, <1>6 DEF WalletBalanceTotal
<1> QED
  BY <1>2, <1>4, <1>6, <1>7, <1>8

LEMMA BuyIsWorthIt ==
  ASSUME TradesOK, FiniteBooks, NEW c, NEW m, NEW s, NEW n, NEW k, Buys(c, m, s, n, k)
  PROVE  /\ Total(DOMAIN buyOrders, ValueHeld) \in Int /\ Cost(k, n) \in Int
         /\ Total(DOMAIN buyOrders, ValueHeld)' = Total(DOMAIN buyOrders, ValueHeld) + Cost(k, n)
<1> DEFINE S == DOMAIN buyOrders
           g == [o \in DOMAIN buyOrders' |-> Cost(stock'[buyOrders'[o].stock].price,
                                                  buyOrders'[o].available)]
<1>1. /\ c \notin S /\ DOMAIN buyOrders' = S \cup {c}
      /\ \A o \in S : buyOrders'[o] = buyOrders[o]
      /\ buyOrders'[c].stock = s /\ buyOrders'[c].available = n
      /\ s \in Stock /\ k = stock[s].price /\ k \in Nat /\ n \in Nat
  BY DEF Buys
<1>2. stock' = [stock EXCEPT ![s].available = @ - n]
  BY DEF Buys
<1>3. \A t \in Stock : stock'[t].price = stock[t].price
  BY <1>2 DEF TradesOK, SchemasOK
<1>4. IsFiniteSet(S) /\ \A o \in S : ValueHeld[o] \in Int
  BY SelectionsAreFinite, TermsAreInt
<1>5. \A o \in S : g[o] = ValueHeld[o]
  <2>1. \A o \in S : buyOrders[o].stock \in Stock
    BY OrderFields
  <2> QED
    BY <1>1, <1>3, <2>1 DEF ValueHeld
<1>6. g[c] = Cost(k, n) /\ Cost(k, n) \in Int
  <2>1. g[c] = Cost(k, n)
    BY <1>1, <1>3
  <2>2. Cost(k, n) \in Nat
    BY <1>1, CostIsNatural
  <2> HIDE DEF g
  <2> QED
    BY <2>1, <2>2
<1>7. \A o \in S \cup {c} : g[o] \in Int
  <2> HIDE DEF g
  <2> QED
    BY <1>4, <1>5, <1>6
<1>8. Total(DOMAIN buyOrders, ValueHeld)' = Total(S \cup {c}, g)
  BY <1>1 DEF ValueHeld
<1> HIDE DEF S, g
<1>9. Total(S, g) = Total(S, ValueHeld)
  BY <1>5, TotalOfSame
<1>10. Total(S, g) \in Int /\ Total(S \cup {c}, g) = Total(S, g) + g[c]
  BY <1>1, <1>4, <1>7, TotalOfOneMore
<1> QED
  BY <1>6, <1>8, <1>9, <1>10 DEF S

LEMMA SellIsWorthIt ==
  ASSUME TradesOK, FiniteBooks, NEW c, NEW m, NEW o, NEW s, NEW n, NEW k, Sells(c, m, o, s, n, k)
  PROVE  /\ Total(DOMAIN buyOrders, ValueHeld) \in Int /\ Cost(k, n) \in Int
         /\ Total(DOMAIN buyOrders, ValueHeld)' = Total(DOMAIN buyOrders, ValueHeld) - Cost(k, n)
<1> DEFINE S == DOMAIN buyOrders
           g == [p \in DOMAIN buyOrders' |-> Cost(stock'[buyOrders'[p].stock].price,
                                                  buyOrders'[p].available)]
<1>1. /\ o \in S /\ DOMAIN buyOrders' = S /\ buyOrders[o].stock = s
      /\ \A p \in S : /\ buyOrders'[p].stock = buyOrders[p].stock
                      /\ p # o => buyOrders'[p] = buyOrders[p]
      /\ buyOrders'[o].available = buyOrders[o].available - n
      /\ s \in Stock /\ k = stock[s].price /\ k \in Nat /\ n \in Nat
  BY DEF Sells
<1>2. stock' = [stock EXCEPT ![s].available = @ + n]
  BY DEF Sells
<1>3. \A t \in Stock : stock'[t].price = stock[t].price
  BY <1>2 DEF TradesOK, SchemasOK
<1>4. IsFiniteSet(S) /\ \A p \in S : ValueHeld[p] \in Int
  BY SelectionsAreFinite, TermsAreInt
<1>5. \A p \in S \ {o} : g[p] = ValueHeld[p]
  <2>1. \A p \in S : buyOrders[p].stock \in Stock
    BY OrderFields
  <2> QED
    BY <1>1, <1>3, <2>1 DEF ValueHeld
<1>6. g[o] = ValueHeld[o] - Cost(k, n) /\ Cost(k, n) \in Int
  <2>1. g[o] = Cost(k, buyOrders[o].available - n)
    BY <1>1, <1>3
  <2>2. ValueHeld[o] = Cost(k, buyOrders[o].available)
    BY <1>1 DEF ValueHeld
  <2>3. buyOrders[o].available \in Int /\ k \in Int /\ n \in Int
    BY <1>1, OrderFields
  <2>4. /\ Cost(k, n) \in Int
        /\ Cost(k, buyOrders[o].available - n) = Cost(k, buyOrders[o].available) - Cost(k, n)
    <3> HIDE DEF g
    <3> QED
      BY <2>3, CostOfDifference
  <2> HIDE DEF g
  <2> QED
    BY <2>1, <2>2, <2>4
<1>7. \A p \in S : ValueHeld[p] \in Int /\ g[p] \in Int
  <2> HIDE DEF g
  <2> QED
    BY <1>1, <1>4, <1>5, <1>6
<1>8. Total(DOMAIN buyOrders, ValueHeld)' = Total(S, g)
  BY <1>1 DEF ValueHeld
<1>9. o \in S
  BY <1>1
<1> HIDE DEF S, g
<1>10. /\ Total(S, ValueHeld) \in Int
       /\ Total(S, g) = Total(S, ValueHeld) + g[o] - ValueHeld[o]
  BY <1>4, <1>5, <1>7, <1>9, TotalOfOneChanged
<1> QED
  BY <1>6, <1>7, <1>8, <1>9, <1>10 DEF S

LEMMA StepsKeepAum ==
  ASSUME TradesOK, FiniteBooks, ClosedIsWorthless, ClosedIsWorthless', [Next]_vars,
         \A s \in Stock : stock'[s].price = stock[s].price
  PROVE  TotalAum' = TotalAum
<1> DEFINE held == Total(DOMAIN buyOrders, ValueHeld)
<1>1. TotalAum = WalletBalanceTotal + held
  BY DEF TotalAum, ClosedIsWorthless
<1>2. TotalAum' = WalletBalanceTotal' + held'
  BY DEF TotalAum, ClosedIsWorthless
<1>3. ASSUME NEW c, NEW m, NEW s, NEW n, NEW k, Buys(c, m, s, n, k)
      PROVE  TotalAum' = TotalAum
  <2>1. /\ held \in Int /\ Cost(k, n) \in Int /\ held' = held + Cost(k, n)
    BY <1>3, BuyIsWorthIt
  <2>2. m \in DOMAIN balance /\ balance' = [balance EXCEPT ![m] = @ + (-Cost(k, n))]
    <3>1. m \in DOMAIN balance /\ balance' = [balance EXCEPT ![m] = @ - Cost(k, n)]
      BY <1>3 DEF Buys
    <3>2. balance[m] \in Int
      BY <3>1 DEF TradesOK, SchemasOK
    <3>3. balance[m] - Cost(k, n) = balance[m] + (-Cost(k, n))
      BY <2>1, <3>2
    <3> QED
      BY <3>1, <3>3
  <2>3. WalletBalanceTotal \in Int /\ WalletBalanceTotal' = WalletBalanceTotal + (-Cost(k, n))
    <3>1. PICK d : d = -Cost(k, n)
      OBVIOUS
    <3>2. d \in Int /\ balance' = [balance EXCEPT ![m] = @ + d]
      BY <2>1, <2>2, <3>1
    <3>3. WalletBalanceTotal \in Int /\ WalletBalanceTotal' = WalletBalanceTotal + d
      BY <2>2, <3>2, WalletsChange
    <3> QED
      BY <3>1, <3>3
  <2> HIDE DEF held
  <2> QED
    BY <1>1, <1>2, <2>1, <2>3
<1>4. ASSUME NEW c, NEW m, NEW o, NEW s, NEW n, NEW k, Sells(c, m, o, s, n, k)
      PROVE  TotalAum' = TotalAum
  <2>1. held \in Int /\ Cost(k, n) \in Int /\ held' = held - Cost(k, n)
    BY <1>4, SellIsWorthIt
  <2>2. m \in DOMAIN balance /\ balance' = [balance EXCEPT ![m] = @ + Cost(k, n)]
    BY <1>4 DEF Sells
  <2>3. WalletBalanceTotal \in Int /\ WalletBalanceTotal' = WalletBalanceTotal + Cost(k, n)
    BY <2>1, <2>2, WalletsChange
  <2> HIDE DEF held
  <2> QED
    BY <1>1, <1>2, <2>1, <2>3
<1>5. ASSUME UNCHANGED <<balance, buyOrders, sellOrders>>
      PROVE  TotalAum' = TotalAum
  <2>1. WalletBalanceTotal' = WalletBalanceTotal
    BY <1>5 DEF WalletBalanceTotal
  <2>2. \A o \in DOMAIN buyOrders : buyOrders[o].stock \in Stock
    BY OrderFields
  <2>3. ValueHeld' = ValueHeld
    BY <1>5, <2>2 DEF ValueHeld
  <2>4. held' = held
    BY <1>5, <2>3
  <2> QED
    BY <1>1, <1>2, <2>1, <2>4
<1> QED
  BY <1>3, <1>4, <1>5, BookSteps

\* A trade makes or loses nothing: assets under management change with a price only.
THEOREM TradesMakeNothing == Spec => TradesKeepAum
<1>1. IInv /\ BooksInv /\ ClosedIsWorthless /\ ClosedIsWorthless' /\ [Next]_vars
        => [(\A s \in Stock : stock'[s].price = stock[s].price) => TotalAum' = TotalAum]_vars
  BY StepsKeepAum DEF IInv, BooksInv
<1>2. IInv => ClosedIsWorthless
  BY ClosedOrdersAreWorthless DEF IInv
<1> QED
  BY <1>1, <1>2, TradingInvariant, BooksInvariant, PTL DEF Spec, TradesKeepAum

\* Every filled call has left one order, a buy order or a sell order.
LEMMA FilledCallsAreOrders ==
  ASSUME TradesOK, FiniteBooks, OneOrderPerFilledRequest
  PROVE  Cardinality({c \in Call : status[c] = "filled"})
           = Cardinality(DOMAIN buyOrders) + Cardinality(DOMAIN sellOrders)
<1>1. {c \in Call : status[c] = "filled"} = DOMAIN buyOrders \cup DOMAIN sellOrders
  <2>1. ASSUME NEW c \in Call, status[c] = "filled"
        PROVE  request[c].op = "buy" \/ request[c].op = "sell"
    <3>1. request[c] \in Request
      BY <2>1 DEF TradesOK, SchemasOK
    <3> QED
      BY <3>1 DEF Request
  <2>2. ASSUME NEW c \in DOMAIN buyOrders \cup DOMAIN sellOrders
        PROVE  c \in Call /\ status[c] = "filled"
    BY OrderFields DEF TradesOK, OrderIdsOK
  <2> QED
    BY <2>1, <2>2 DEF OneOrderPerFilledRequest
<1>2. DOMAIN buyOrders \cap DOMAIN sellOrders = {}
  <2>1. ASSUME NEW c, c \in DOMAIN buyOrders, c \in DOMAIN sellOrders PROVE FALSE
    <3>1. c \in Call
      BY <2>1, OrderFields
    <3>2. request[c].op = "buy" /\ request[c].op = "sell"
      BY <2>1, <3>1 DEF OneOrderPerFilledRequest
    <3> QED
      BY <3>2
  <2> QED
    BY <2>1
<1>3. Cardinality(DOMAIN buyOrders \cup DOMAIN sellOrders)
        = Cardinality(DOMAIN buyOrders) + Cardinality(DOMAIN sellOrders)
            - Cardinality(DOMAIN buyOrders \cap DOMAIN sellOrders)
  <2>1. IsFiniteSet(DOMAIN buyOrders) /\ IsFiniteSet(DOMAIN sellOrders)
    BY DEF FiniteBooks
  <2> QED
    BY <2>1, FS_Union
<1>4. Cardinality(DOMAIN buyOrders \cap DOMAIN sellOrders) = 0
  BY <1>2, FS_EmptySet
<1>5. Cardinality(DOMAIN buyOrders) \in Nat /\ Cardinality(DOMAIN sellOrders) \in Nat
  BY FS_CardinalityType DEF FiniteBooks
<1>6. Cardinality(DOMAIN buyOrders \cup DOMAIN sellOrders)
        = Cardinality(DOMAIN buyOrders) + Cardinality(DOMAIN sellOrders)
  BY <1>3, <1>4, <1>5
<1> QED
  BY <1>1, <1>6

\* Where each trade belongs.
StockOfBuy  == [o \in DOMAIN buyOrders |-> buyOrders[o].stock]
StockOfSale == [x \in DOMAIN sellOrders |-> SoldStock(x)]
BuyerOf     == [o \in DOMAIN buyOrders |-> buyOrders[o].owner]
SellersOf   == [x \in DOMAIN sellOrders |-> SellerOf(x)]

LEMMA TradesBelong ==
  ASSUME TradesOK
  PROVE  /\ \A o \in DOMAIN buyOrders : StockOfBuy[o] \in Stock /\ BuyerOf[o] \in Member
         /\ \A x \in DOMAIN sellOrders : StockOfSale[x] \in Stock /\ SellersOf[x] \in Member
BY OrderFields DEF StockOfBuy, StockOfSale, BuyerOf, SellersOf, SoldStock, SellerOf

\* Counting the trades stock by stock, or member by member, counts them all.
LEMMA CountsAddUp ==
  ASSUME FiniteBooks, NEW I, IsFiniteSet(I), NEW p, NEW q,
         \A o \in DOMAIN buyOrders : p[o] \in I, \A x \in DOMAIN sellOrders : q[x] \in I
  PROVE  Total(I, [i \in I |-> Cardinality({o \in DOMAIN buyOrders : p[o] = i})
                                 + Cardinality({x \in DOMAIN sellOrders : q[x] = i})])
           = Cardinality(DOMAIN buyOrders) + Cardinality(DOMAIN sellOrders)
<1> DEFINE B == DOMAIN buyOrders
           S == DOMAIN sellOrders
           f == [o \in B |-> 1]
           g == [x \in S |-> 1]
<1>1. (\A o \in B : p[o] \in I /\ f[o] \in Int) /\ (\A x \in S : q[x] \in I /\ g[x] \in Int)
  OBVIOUS
<1>2. IsFiniteSet(B) /\ IsFiniteSet(S)
  BY DEF FiniteBooks
<1>3. (\A o \in B : f[o] = 1) /\ (\A x \in S : g[x] = 1)
  OBVIOUS
<1>4. ASSUME NEW i \in I
      PROVE  /\ Total({o \in B : p[o] = i}, f) = Cardinality({o \in B : p[o] = i})
             /\ Total({x \in S : q[x] = i}, g) = Cardinality({x \in S : q[x] = i})
  <2> DEFINE P == {o \in B : p[o] = i}
             Q == {x \in S : q[x] = i}
  <2>1. IsFiniteSet(P) /\ IsFiniteSet(Q)
    BY <1>2, FS_Subset
  <2>2. (\A o \in P : f[o] = 1) /\ (\A x \in Q : g[x] = 1)
    OBVIOUS
  <2>3. Total(P, f) = Cardinality(P) /\ Total(Q, g) = Cardinality(Q)
    <3> HIDE DEF P, Q, f, g
    <3> QED
      BY <2>1, <2>2, TotalOfOnes
  <2> QED
    BY <2>3
<1>5. Total(I, [i \in I |-> Total({o \in B : p[o] = i}, f) + Total({x \in S : q[x] = i}, g)])
        = Total(B, f) + Total(S, g)
  <2> HIDE DEF B, S, f, g
  <2> QED
    BY <1>1, <1>2, TotalOfBothParts
<1>6. Total(B, f) = Cardinality(B) /\ Total(S, g) = Cardinality(S)
  <2> HIDE DEF B, S, f, g
  <2> QED
    BY <1>2, <1>3, TotalOfOnes
<1>7. [i \in I |-> Total({o \in B : p[o] = i}, f) + Total({x \in S : q[x] = i}, g)]
        = [i \in I |-> Cardinality({o \in B : p[o] = i}) + Cardinality({x \in S : q[x] = i})]
  <2> HIDE DEF B, S, f, g
  <2> QED
    BY <1>4
<1> QED
  BY <1>5, <1>6, <1>7

\* What was traded, added up stock by stock, is what was spent and earned, added up
\* member by member.
LEMMA ValuesAddUp ==
  ASSUME TradesOK, FiniteBooks, NEW I, IsFiniteSet(I), NEW p, NEW q,
         \A o \in DOMAIN buyOrders : p[o] \in I, \A x \in DOMAIN sellOrders : q[x] \in I
  PROVE  Total(I, [i \in I |-> Total({o \in DOMAIN buyOrders : p[o] = i}, CostOf)
                                 + Total({x \in DOMAIN sellOrders : q[x] = i}, ProceedsOf)])
           = Total(DOMAIN buyOrders, CostOf) + Total(DOMAIN sellOrders, ProceedsOf)
<1>1. IsFiniteSet(DOMAIN buyOrders) /\ IsFiniteSet(DOMAIN sellOrders)
  BY DEF FiniteBooks
<1>2. /\ \A o \in DOMAIN buyOrders : p[o] \in I /\ CostOf[o] \in Int
      /\ \A x \in DOMAIN sellOrders : q[x] \in I /\ ProceedsOf[x] \in Int
  BY TermsAreInt
<1> QED
  BY <1>1, <1>2, TotalOfBothParts

\* Of the shares bought of a stock, those no longer held have been sold.
LEMMA SoldSharesAreCounted ==
  ASSUME TradesOK, FiniteBooks, SalesMatchOrders, NEW s \in Stock
  PROVE  SharesTraded(s) - HeldOf(s) = 2 * Total(Sold(s), SharesSold)
<1> DEFINE shares  == [o \in DOMAIN buyOrders |-> buyOrders[o].shares]
           orderOf == [x \in DOMAIN sellOrders |-> sellOrders[x].order]
           taken   == [o \in Bought(s) |-> Total({x \in Sold(s) : orderOf[x] = o}, SharesSold)]
<1>1. Bought(s) \in SUBSET DOMAIN buyOrders /\ Sold(s) \in SUBSET DOMAIN sellOrders
  BY DEF Bought, Sold
<1>2. IsFiniteSet(Bought(s)) /\ IsFiniteSet(Sold(s))
  BY <1>1, SelectionsAreFinite
<1>3. \A x \in Sold(s) : orderOf[x] \in Bought(s) /\ SharesSold[x] \in Int
  BY <1>1, OrderFields, TermsAreInt DEF Sold, Bought, SoldStock
<1>4. Total(Sold(s), SharesSold) = Total(Bought(s), taken)
  <2> HIDE DEF orderOf
  <2> QED
    BY <1>2, <1>3, TotalOfParts
<1>5. ASSUME NEW o \in Bought(s)
      PROVE  /\ shares[o] \in Int /\ SharesHeld[o] \in Int /\ taken[o] \in Int
             /\ taken[o] = shares[o] - SharesHeld[o]
  <2>1. {x \in Sold(s) : orderOf[x] = o} = {x \in DOMAIN sellOrders : sellOrders[x].order = o}
    BY DEF Sold, Bought, SoldStock
  <2>2. taken[o] = SoldFrom(o)
    BY <2>1 DEF SoldFrom
  <2>3. SoldFrom(o) \in Int
    <3> DEFINE R == {x \in DOMAIN sellOrders : sellOrders[x].order = o}
    <3>1. IsFiniteSet(R)
      BY SelectionsAreFinite
    <3>2. \A x \in R : SharesSold[x] \in Int
      BY TermsAreInt
    <3>3. Total(R, SharesSold) \in Int
      <4> HIDE DEF R
      <4> QED
        BY <3>1, <3>2, TotalIsInt
    <3> QED
      BY <3>3 DEF SoldFrom
  <2>4. /\ o \in DOMAIN buyOrders /\ buyOrders[o].shares \in Int /\ buyOrders[o].available \in Int
        /\ buyOrders[o].available = buyOrders[o].shares - SoldFrom(o)
    BY <1>1, OrderFields DEF SalesMatchOrders
  <2>5. shares[o] = buyOrders[o].shares /\ SharesHeld[o] = buyOrders[o].available
    BY <2>4 DEF SharesHeld
  <2> HIDE DEF shares, taken
  <2> QED
    BY <2>2, <2>3, <2>4, <2>5
<1>6. Total(Bought(s), taken) = Total(Bought(s), shares) - Total(Bought(s), SharesHeld)
  <2>1. \A o \in Bought(s) : /\ shares[o] \in Int /\ SharesHeld[o] \in Int
                             /\ taken[o] = shares[o] - SharesHeld[o]
    BY <1>5
  <2> HIDE DEF shares, taken
  <2> QED
    BY <1>2, <2>1, TotalOfDifference
<1>7. Total(Bought(s), shares) \in Int /\ Total(Bought(s), SharesHeld) \in Int
  <2>1. \A o \in Bought(s) : shares[o] \in Int /\ SharesHeld[o] \in Int
    BY <1>5
  <2> HIDE DEF shares
  <2> QED
    BY <1>2, <2>1, TotalIsInt
<1>8. /\ SharesTraded(s) = Total(Bought(s), shares) + Total(Sold(s), SharesSold)
      /\ HeldOf(s) = Total(Bought(s), SharesHeld)
  BY DEF SharesTraded, HeldOf, Bought
<1> HIDE DEF shares, taken
<1> QED
  BY <1>4, <1>6, <1>7, <1>8

\* The rankings and the volumes are about the same trades.
THEOREM ReportsAgree == Spec => []ReportsCountEveryTrade
<1>1. ASSUME IInv, BooksInv, OneOrderPerFilledRequest PROVE ReportsCountEveryTrade
  <2> DEFINE filled == Cardinality({c \in Call : status[c] = "filled"})
  <2>1. TradesOK /\ FiniteBooks /\ SalesMatchOrders
    BY <1>1 DEF IInv, BooksInv
  <2>2. filled = Cardinality(DOMAIN buyOrders) + Cardinality(DOMAIN sellOrders)
    BY <1>1, <2>1, FilledCallsAreOrders
  <2>3. /\ \A s : Bought(s) = {o \in DOMAIN buyOrders : StockOfBuy[o] = s}
        /\ \A s : Sold(s) = {x \in DOMAIN sellOrders : StockOfSale[x] = s}
    BY DEF Bought, Sold, StockOfBuy, StockOfSale
  <2>4. /\ \A m : {o \in DOMAIN buyOrders : buyOrders[o].owner = m}
                    = {o \in DOMAIN buyOrders : BuyerOf[o] = m}
        /\ \A m : {x \in DOMAIN sellOrders : SellerOf(x) = m}
                    = {x \in DOMAIN sellOrders : SellersOf[x] = m}
    BY DEF BuyerOf, SellersOf
  <2>5. /\ \A o \in DOMAIN buyOrders : StockOfBuy[o] \in Stock
        /\ \A x \in DOMAIN sellOrders : StockOfSale[x] \in Stock
        /\ \A o \in DOMAIN buyOrders : BuyerOf[o] \in Member
        /\ \A x \in DOMAIN sellOrders : SellersOf[x] \in Member
    BY <2>1, TradesBelong
  <2>6. Total(Stock, [s \in Stock |-> TradeCount(s)]) = filled
    <3>1. Total(Stock, [s \in Stock |-> Cardinality({o \in DOMAIN buyOrders : StockOfBuy[o] = s})
                                          + Cardinality({x \in DOMAIN sellOrders : StockOfSale[x] = s})])
            = Cardinality(DOMAIN buyOrders) + Cardinality(DOMAIN sellOrders)
      BY <2>1, <2>5, CollectionsAreFinite, CountsAddUp
    <3> QED
      BY <2>2, <2>3, <3>1 DEF TradeCount
  <2>7. Total(Member, [m \in Member |-> MemberTrades(m)]) = filled
    <3>1. Total(Member, [m \in Member |-> Cardinality({o \in DOMAIN buyOrders : BuyerOf[o] = m})
                                            + Cardinality({x \in DOMAIN sellOrders : SellersOf[x] = m})])
            = Cardinality(DOMAIN buyOrders) + Cardinality(DOMAIN sellOrders)
      BY <2>1, <2>5, CollectionsAreFinite, CountsAddUp
    <3> QED
      BY <2>2, <2>4, <3>1 DEF MemberTrades
  <2>8. Total(Stock, [s \in Stock |-> ValueTraded(s)])
          = Total(Member, [m \in Member |-> Spent(m) + Earned(m)])
    <3>1. Total(Stock, [s \in Stock |-> Total({o \in DOMAIN buyOrders : StockOfBuy[o] = s}, CostOf)
                                          + Total({x \in DOMAIN sellOrders : StockOfSale[x] = s}, ProceedsOf)])
            = Total(DOMAIN buyOrders, CostOf) + Total(DOMAIN sellOrders, ProceedsOf)
      BY <2>1, <2>5, CollectionsAreFinite, ValuesAddUp
    <3>2. Total(Member, [m \in Member |-> Total({o \in DOMAIN buyOrders : BuyerOf[o] = m}, CostOf)
                                            + Total({x \in DOMAIN sellOrders : SellersOf[x] = m}, ProceedsOf)])
            = Total(DOMAIN buyOrders, CostOf) + Total(DOMAIN sellOrders, ProceedsOf)
      BY <2>1, <2>5, CollectionsAreFinite, ValuesAddUp
    <3>3. Total(Stock, [s \in Stock |-> ValueTraded(s)])
            = Total(DOMAIN buyOrders, CostOf) + Total(DOMAIN sellOrders, ProceedsOf)
      BY <2>3, <3>1 DEF ValueTraded
    <3>4. Total(Member, [m \in Member |-> Spent(m) + Earned(m)])
            = Total(DOMAIN buyOrders, CostOf) + Total(DOMAIN sellOrders, ProceedsOf)
      BY <2>4, <3>2 DEF Spent, Earned
    <3> QED
      BY <3>3, <3>4
  <2>9. \A s \in Stock : SharesTraded(s) - HeldOf(s) = 2 * Total(Sold(s), SharesSold)
    BY <2>1, SoldSharesAreCounted
  <2> QED
    BY <2>6, <2>7, <2>8, <2>9 DEF ReportsCountEveryTrade
<1> QED
  BY <1>1, TradingInvariant, BooksInvariant, FilledOnce, PTL
===============================================================================
