------------------------------ MODULE Collections ------------------------------
(***************************************************************************)
(* Collections and amounts, as the services use them.  A collection is a   *)
(* function from the ids in use to documents; an amount is an integer.     *)
(***************************************************************************)
EXTENDS Integers

EmptyCollection == [x \in {} |-> 0]

\* Collection f with one more document.
With(f, x, y) == [i \in DOMAIN f \cup {x} |-> IF i = x THEN y ELSE f[i]]

\* What n shares come to: costPerShare * numberOfShares.
Cost(price, n) == price * n
===============================================================================
