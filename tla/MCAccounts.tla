------------------------------- MODULE MCAccounts -------------------------------
(***************************************************************************)
(* Accounts on a small instance.                                           *)
(***************************************************************************)
EXTENDS Accounts, TLC

\* Slots, codes and passwords are interchangeable.
Symmetry == Permutations(Call) \cup Permutations(Otp) \cup Permutations(Password)
===============================================================================
