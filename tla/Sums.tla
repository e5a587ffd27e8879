---------------------------------- MODULE Sums ----------------------------------
(***************************************************************************)
(* Sums of integers, as the aggregations of the services compute them.     *)
(*                                                                         *)
(* A sum of naturals counts that many things; a sum of integers is what    *)
(* its positive terms exceed the others by.  It is defined so, and not by  *)
(* recursion, because cardinalities are what TLAPS can reason about.       *)
(***************************************************************************)
EXTENDS Integers, FiniteSets

\* f[x] things for each x of S, none if f[x] is not positive.
Units(S, f) == UNION {{x} \X (1..f[x]) : x \in S}

\* The sum of f over S.
Total(S, f) == Cardinality(Units(S, f)) - Cardinality(Units(S, [x \in S |-> -f[x]]))
===============================================================================
