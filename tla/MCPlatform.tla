------------------------------- MODULE MCPlatform -------------------------------
(***************************************************************************)
(* Platform on a small instance.                                           *)
(***************************************************************************)
EXTENDS Platform, TLC

\* Calls differ in nothing but their names, nor do deliveries.
Symmetry == Permutations(Delivery) \cup Permutations(Call \ Delivery)
===============================================================================
