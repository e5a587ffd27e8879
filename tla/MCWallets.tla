------------------------------- MODULE MCWallets -------------------------------
(***************************************************************************)
(* Wallets on a small instance.                                            *)
(***************************************************************************)
EXTENDS Wallets
===============================================================================
