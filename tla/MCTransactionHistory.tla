-------------------------- MODULE MCTransactionHistory --------------------------
(***************************************************************************)
(* TransactionHistory on a small instance.                                 *)
(***************************************************************************)
EXTENDS TransactionHistory, TLC

\* No dates; from an instant on; up to a day; between two instants.
Periods == {[from |-> 0, to |-> Now, dateOnly |-> FALSE],
            [from |-> 1, to |-> Now, dateOnly |-> FALSE],
            [from |-> 0, to |-> 0, dateOnly |-> TRUE]}

Symmetry == Permutations(Id)
===============================================================================
