------------------------------- MODULE MCTrading -------------------------------
(***************************************************************************)
(* Trading and Reports on small instances.                                 *)
(***************************************************************************)
EXTENDS Reports, TLC

CONSTANTS alice, bob, Balance

Wallets   == alice :> Balance @@ bob :> Balance
AliceOnly == alice :> Balance

CallSymmetry == Permutations(Call)

\* The sums of Sums are what adding up term by term makes of them.
Folds == INSTANCE FiniteSetsExt
ASSUME TotalsAreSums ==
  \A S \in SUBSET (1..3) : \A f \in [S -> -2..2] :
    Total(S, f) = Folds!MapThenSumSet(LAMBDA x : f[x], S)
===============================================================================
