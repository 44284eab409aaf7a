------------------------------- MODULE Merkle -------------------------------
(***************************************************************************)
(* Hashes (src/src/hash.rs).  SHA-256 is a symbol, one digest for each     *)
(* input; the Merkle root of a chain is a function of its block hashes.    *)
(***************************************************************************)
EXTENDS Naturals, Sequences

CONSTANT Hash(_)   \* the digest of a block's fields, or of sibling digests

(***************************************************************************)
(* A vector of hashes, of which nothing is assumed but that it is one.     *)
(***************************************************************************)
IsHashes(s) == s \in Seq({s[i] : i \in DOMAIN s})

(***************************************************************************)
(* Mutants of hash_neighbor: the hash without a neighbour is paired with   *)
(* itself; the right neighbour is not hashed.                              *)
(***************************************************************************)
hash_neighbor_doubles_odd(hash_vec) ==
  [i \in 1 .. (Len(hash_vec) + 1) \div 2 |->
     IF 2 * i <= Len(hash_vec)
     THEN Hash(<< hash_vec[2 * i - 1], hash_vec[2 * i] >>)
     ELSE Hash(<< hash_vec[2 * i - 1], hash_vec[2 * i - 1] >>)]

hash_neighbor_left_only(hash_vec) ==
  [i \in 1 .. (Len(hash_vec) + 1) \div 2 |-> Hash(<< hash_vec[2 * i - 1] >>)]

(***************************************************************************)
(* Hasher::hash_neighbor: one digest for every two neighbours; a hash      *)
(* without a right neighbour is hashed alone.                              *)
(***************************************************************************)
hash_neighbor(hash_vec) ==
  [i \in 1 .. (Len(hash_vec) + 1) \div 2 |->
     IF 2 * i <= Len(hash_vec)
     THEN Hash(<< hash_vec[2 * i - 1], hash_vec[2 * i] >>)
     ELSE Hash(<< hash_vec[2 * i - 1] >>)]

(***************************************************************************)
(* Hasher::merkle_root of at least one hash: rounds of hash_neighbor until *)
(* one digest is left, at least one round.  n rounds are always enough for *)
(* n hashes; the rounds that are not needed change nothing.                *)
(***************************************************************************)
merkle_root(hashes) ==
  LET round[n \in 0 .. Len(hashes)] ==
        IF n = 0 THEN hash_neighbor(hashes)
        ELSE LET current == round[n - 1]
             IN  IF Len(current) = 1 THEN current ELSE hash_neighbor(current)
  IN  round[Len(hashes)][1]
=============================================================================
