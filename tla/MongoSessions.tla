---------------------------- MODULE MongoSessions ----------------------------
(***************************************************************************)
(* What the services rely on MongoDB for: session.withTransaction().       *)
(*                                                                         *)
(* A transaction reads one snapshot, its writes stay invisible until it    *)
(* commits, and it cannot commit once another writer has changed a         *)
(* document it writes: the driver then aborts it and runs the callback     *)
(* again on a new snapshot.  A callback therefore has two visible moments: *)
(* opening, when everything it reads is fixed and the writes it will make  *)
(* follow, and committing.  A write outside a transaction is one step.     *)
(*                                                                         *)
(* An inserted unique key (wallets.userId, wallet_transactions.reference_id*)
(* or the partial index on pending requests) is a document like another:   *)
(* two open transactions that insert the same key conflict.                *)
(***************************************************************************)
CONSTANT Call        \* the requests in flight, each served by its own session

VARIABLES writeSet,  \* writeSet[c]: the documents c's open transaction writes
          stale      \* the open transactions a later write has outdated

sessionVars == <<writeSet, stale>>

SessionsInit == /\ writeSet = [c \in Call |-> {}]
                /\ stale = {}

\* docs: everything two writers can conflict on.
SessionsOK(docs) == /\ writeSet \in [Call -> SUBSET docs]
                    /\ stale \subseteq Call

\* The open transactions, c excepted, that a write of docs outdates.
Outdated(c, docs) == {d \in Call \ {c} : writeSet[d] \cap docs # {}}

OpenTxn(c, docs) == /\ writeSet' = [writeSet EXCEPT ![c] = docs]
                    /\ stale' = stale \ {c}

AbortTxn(c) == /\ writeSet' = [writeSet EXCEPT ![c] = {}]
               /\ stale' = stale \ {c}

CommitTxn(c) == /\ c \notin stale
                /\ writeSet' = [writeSet EXCEPT ![c] = {}]
                /\ stale' = stale \cup Outdated(c, writeSet[c])

\* A write outside a transaction.
WriteNow(docs) == /\ stale' = stale \cup {d \in Call : writeSet[d] \cap docs # {}}
                  /\ UNCHANGED writeSet
==============================================================================
