----------------------------- MODULE MerkleLoop -----------------------------
(***************************************************************************)
(* The loop of Hasher::merkle_root (src/src/hash.rs:72), one round a step, *)
(* run on the block hashes of two chains of the same length side by side.  *)
(* Two runs of the same deterministic loop are one way to say what its     *)
(* result tells apart.                                                     *)
(***************************************************************************)
EXTENDS Merkle

CONSTANTS
  Leaf,      \* the block hashes that occur
  MaxLen     \* the longest chain

ASSUME MaxLenAssumption == MaxLen \in Nat

VARIABLES
  hashes,    \* the hashes of the blocks of each of the two chains
  current,   \* current_hashs of each run
  rounds     \* how many rounds the loop has made

loopVars == << hashes, current, rounds >>

Run == {1, 2}

LoopInit ==
  /\ \E n \in 1 .. MaxLen : hashes \in [Run -> [1 .. n -> Leaf]]
  /\ current = hashes
  /\ rounds = 0

Done == rounds > 0 /\ Len(current[1]) = 1

(***************************************************************************)
(* Mutant of Round: the loop goes on only while two digests are left.      *)
(***************************************************************************)
RoundWhileTwo ==
  /\ ~ Done
  /\ Len(current[1]) > 1
  /\ current' = [r \in Run |-> hash_neighbor(current[r])]
  /\ rounds' = rounds + 1
  /\ UNCHANGED hashes

Round ==
  /\ ~ Done
  /\ current' = [r \in Run |-> hash_neighbor(current[r])]
  /\ rounds' = rounds + 1
  /\ UNCHANGED hashes

LoopNext == Round

LoopSpec == LoopInit /\ [][LoopNext]_loopVars
FairLoopSpec == LoopSpec /\ WF_loopVars(LoopNext)

(***************************************************************************)
(* Both runs hold sequences of the same length, never empty.               *)
(***************************************************************************)
LoopTypeOK ==
  /\ hashes \in [Run -> {hashes[r] : r \in Run}]
  /\ current \in [Run -> {current[r] : r \in Run}]
  /\ \A r \in Run : IsHashes(hashes[r]) /\ IsHashes(current[r])
  /\ Len(current[1]) = Len(current[2])
  /\ Len(current[1]) > 0
  /\ rounds \in Nat

-----------------------------------------------------------------------------
(***************************************************************************)
(* The tree over the hashes s.  A digest of level n stands for 2 ^ n of    *)
(* them, the last one of a level for those that are left; and is the hash  *)
(* of the two digests below it, or of one when the level below ends there. *)
(***************************************************************************)
Covered(n) ==
  LET leaves[k \in 0 .. n] == IF k = 0 THEN 1 ELSE 2 * leaves[k - 1]
  IN  leaves[n]

Width(n, leaves) == (leaves + Covered(n) - 1) \div Covered(n)

Tree(s) ==
  LET level[n \in 0 .. Len(s)] ==
        [i \in 1 .. Width(n, Len(s)) |->
           IF n = 0 THEN s[i]
           ELSE IF 2 * i <= Width(n - 1, Len(s))
                THEN Hash(<< level[n - 1][2 * i - 1], level[n - 1][2 * i] >>)
                ELSE Hash(<< level[n - 1][2 * i - 1] >>)]
  IN  level

(***************************************************************************)
(* The loop computes the tree level by level: after n rounds it holds the  *)
(* digests of level n, and merkle_root, the function, agrees with it.      *)
(***************************************************************************)
LoopBuildsTree ==
  /\ \A r \in Run :
       rounds <= Len(hashes[r]) /\ current[r] = Tree(hashes[r])[rounds]
  /\ Done => \A r \in Run : current[r][1] = merkle_root(hashes[r])

(***************************************************************************)
(* The invariant of the loop: the levels never get empty and are those of  *)
(* the tree (hash.rs:81-86).                                               *)
(***************************************************************************)
LoopInv ==
  /\ LoopTypeOK
  /\ LoopBuildsTree

(***************************************************************************)
(* A Merkle root and a length, which is what a DigestBlock keeps of a      *)
(* chain (block.rs:327-329), determine the hashes of all its blocks: the   *)
(* odd digest hashed alone at the end of a level loses nothing.            *)
(***************************************************************************)
RootBindsHashes ==
  Done /\ current[1][1] = current[2][1] => hashes[1] = hashes[2]

(***************************************************************************)
(* The loop that tests its length only after a round ends for every chain  *)
(* that is not empty, the chain of one block included (hash.rs:81-86).     *)
(***************************************************************************)
LoopEnds == <> Done
=============================================================================
