----------------------------- MODULE MCStockAlerts -----------------------------
(***************************************************************************)
(* StockAlerts on small instances.                                         *)
(***************************************************************************)
EXTENDS StockAlerts, TLC

Symmetry == Permutations(Message) \cup Permutations(Alert)
===============================================================================
