------------------------------- MODULE Ledger -------------------------------
(***************************************************************************)
(* What a keeper of chains (src/src/keeper.rs, src/src/chain.rs) promises  *)
(* to a reader.  It publishes a sequence of commitments that only grows.   *)
(* It may hold, under the number of a commitment, the chain the commitment *)
(* was made for; then the chain is the one committed to, and it stays.     *)
(* A commitment may be without its chain, for ever.                        *)
(***************************************************************************)
EXTENDS Naturals, Sequences

CONSTANT Commitment(_)   \* what is published of a chain

VARIABLES commitments, store

vars == << commitments, store >>

Init ==
  /\ Len(commitments) = 1
  /\ store = << >>

Publishes ==
  /\ Len(commitments') = Len(commitments) + 1
  /\ \A i \in 1 .. Len(commitments) : commitments'[i] = commitments[i]

Stores(id) ==
  /\ DOMAIN store' = DOMAIN store \cup {id}
  /\ id \notin DOMAIN store
  /\ \A k \in DOMAIN store : store'[k] = store[k]
  /\ commitments'[id] = Commitment(store'[id])

Commit == Publishes /\ UNCHANGED store

Record == Publishes /\ Stores(Len(commitments'))

Next == Commit \/ Record

Spec == Init /\ [][Next]_vars
=============================================================================
