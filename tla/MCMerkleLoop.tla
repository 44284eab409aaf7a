---------------------------- MODULE MCMerkleLoop ----------------------------
(***************************************************************************)
(* MerkleLoop with tuples for hashes: a digest is the tuple of what was    *)
(* hashed.  The third leaf is itself the digest of the first two, so that  *)
(* a leaf and an inner digest may be equal.                                *)
(***************************************************************************)
EXTENDS MerkleLoop

CONSTANTS h1, h2

MCHash(x) == x
MCLeaf == {<< h1 >>, << h2 >>, << << h1 >>, << h2 >> >>}
=============================================================================
