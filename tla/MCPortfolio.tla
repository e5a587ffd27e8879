------------------------------ MODULE MCPortfolio ------------------------------
(***************************************************************************)
(* Portfolio on small instances; the values are in the .cfg files.         *)
(***************************************************************************)
EXTENDS Portfolio
===============================================================================
