-------------------------------- MODULE Account --------------------------------
(***************************************************************************)
(* What the wallets promise: money moves by posting entries, one at a      *)
(* time.  An entry has a reference of its own, changes one member's        *)
(* balance by its amount and never takes it below zero; posted entries     *)
(* stay.  Platform implements this with transactions of two services that  *)
(* race, webhooks that are delivered twice and calls that die half-way.    *)
(***************************************************************************)
EXTENDS Collections

CONSTANTS Member, Reference, Delta   \* Delta: the changes an entry can make

VARIABLES balance,   \* balance[m], 0 for a member without a wallet
          entries    \* by reference: whose balance changed, and by how much

Post(ref, m, d) ==
  /\ ref \notin DOMAIN entries
  /\ balance[m] + d >= 0
  /\ balance' = [balance EXCEPT ![m] = @ + d]
  /\ entries' = With(entries, ref, [member |-> m, delta |-> d])

Init == /\ balance = [m \in Member |-> 0]
        /\ entries = EmptyCollection

Next == \E ref \in Reference, m \in Member, d \in Delta : Post(ref, m, d)

Spec == Init /\ [][Next]_<<balance, entries>>
===============================================================================
