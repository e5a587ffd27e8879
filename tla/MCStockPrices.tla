----------------------------- MODULE MCStockPrices -----------------------------
(***************************************************************************)
(* StockPrices on small instances.                                         *)
(***************************************************************************)
EXTENDS StockPrices, TLC

Symmetry == Permutations(Call)
===============================================================================
