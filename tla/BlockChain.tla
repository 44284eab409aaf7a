----------------------------- MODULE BlockChain -----------------------------
(***************************************************************************)
(* One BlockChain<DataBlock> of src/src/chain.rs in the hands of a caller: *)
(* it is created with a genesis block, or decoded from bytes with no block *)
(* at all, then blocks are offered to add, and the blocks of a chain are   *)
(* reachable for writing through iter_mut.                                 *)
(*                                                                         *)
(* writes and published are history variables: writes counts the writes    *)
(* through iter_mut, published is the copy of a verified chain that        *)
(* somebody else kept.                                                     *)
(***************************************************************************)
EXTENDS Chains

CONSTANTS
  Limits,      \* the limits a caller creates a chain with
  Data,        \* what a data block carries
  DigestIds,   \* the digest ids a caller passes
  Indices,     \* the indices a caller passes
  WriteBound   \* bound of the writes through iter_mut

ASSUME LimitsAssumption == Limits \subseteq Limit
ASSUME WriteBoundAssumption == WriteBound \in Nat
ASSUME IdsAssumption == DigestIds \subseteq Nat /\ Indices \subseteq Nat

VARIABLES blocks, limit, writes, published

vars == << blocks, limit, writes, published >>

pristine == writes = 0

HashesOf(chain) == {chain[i].hash : i \in 1 .. Len(chain)}

(***************************************************************************)
(* BlockChain::new, or a decoded chain without blocks.                     *)
(***************************************************************************)
Init ==
  /\ limit \in Limits
  /\ \/ \E digest_id \in DigestIds, now \in Timestamp :
          blocks = << genesis_data(digest_id, now) >>
     \/ blocks = << >>
  /\ writes = 0
  /\ published = << >>

(***************************************************************************)
(* The blocks a caller offers: made by create, with the hash of any block  *)
(* of the chain as prev_hash, or with a hash field that was never computed *)
(* (the fields of a DataBlock are public).                                 *)
(***************************************************************************)
Offered ==
  LET prevs   == {ZERO_HASH} \cup HashesOf(blocks)
      created == {create_data(p, d, id, x, now) : p \in prevs, d \in Data,
                    id \in DigestIds, x \in Indices, now \in Timestamp}
  IN  created \cup {[b EXCEPT !.hash = ZERO_HASH] : b \in created}

Add(b) ==
  /\ accepts(blocks, limit, b)
  /\ blocks' = Append(blocks, b)
  /\ UNCHANGED << limit, writes, published >>

AddRefused ==
  /\ {b \in Offered : ~ accepts(blocks, limit, b)} # {}
  /\ UNCHANGED vars

(***************************************************************************)
(* A write through iter_mut into block i: any of its fields, its hash      *)
(* recomputed or not, with links and hashes that the writer knows from the *)
(* chain or from the copy.                                                 *)
(***************************************************************************)
Overwrite(i, b) ==
  /\ writes < WriteBound
  /\ blocks' = [blocks EXCEPT ![i] = b]
  /\ writes' = writes + 1
  /\ UNCHANGED << limit, published >>

Written(i) ==
  Rewritten(blocks[i], {ZERO_HASH} \cup HashesOf(blocks) \cup HashesOf(published),
            Data, DigestIds, Indices)

(***************************************************************************)
(* A copy of the chain is verified and kept.                               *)
(***************************************************************************)
Publish ==
  /\ published = << >>
  /\ chain_verify(blocks, limit.time_gap)
  /\ published' = blocks
  /\ UNCHANGED << blocks, limit, writes >>

Next ==
  \/ \E b \in Offered : Add(b)
  \/ AddRefused
  \/ \E i \in 1 .. Len(blocks) : \E b \in Written(i) : Overwrite(i, b)
  \/ Publish

Spec == Init /\ [][Next]_vars

TypeOK ==
  /\ IsChain(blocks)
  /\ limit \in Limit
  /\ writes \in 0 .. WriteBound
  /\ IsChain(published)

-----------------------------------------------------------------------------
(***************************************************************************)
(* A chain that only add has extended is linked: every block after the     *)
(* first carries its own hash, the hash of its predecessor and a timestamp *)
(* in the window.  So verify (chain.rs:68) accepts what add (chain.rs:326) *)
(* built, even though add starts an empty chain with an unverified block   *)
(* and the clock may step back between two calls.                          *)
(***************************************************************************)
AddKeepsLinked == pristine => Linked(blocks, limit.time_gap)

(***************************************************************************)
(* Any two blocks after the first are at most time_gap apart, and none is  *)
(* older than the first: with time_start + time_gap wrapping around        *)
(* (block.rs:61) the window may become empty but never wider.              *)
(***************************************************************************)
WindowBound ==
  pristine =>
    \A i, j \in 1 .. Len(blocks) :
      /\ blocks[i].timestamp <= blocks[j].timestamp + limit.time_gap
      /\ blocks[i].timestamp >= blocks[1].timestamp

(***************************************************************************)
(* add never grows a chain past max_len; the first block is not counted,   *)
(* so a chain with max_len 0 still has one.                                *)
(***************************************************************************)
LengthBound == Len(blocks) > 1 => Len(blocks) <= limit.max_len

(***************************************************************************)
(* What is always true of the chain, tampered with or not: its blocks are  *)
(* well formed, and add counts them right.                                 *)
(***************************************************************************)
Bounded ==
  /\ TypeOK
  /\ LengthBound

(***************************************************************************)
(* Whoever kept a copy of a verified chain needs only the hash of its last *)
(* block to recognise it: whatever was written into the blocks since, if   *)
(* the chain still verifies and still has that hash at that place, then no *)
(* block has changed, except for the fields of the first block, which      *)
(* verify skips (chain.rs:81).                                             *)
(***************************************************************************)
TamperEvident ==
  LET n == Len(published)
  IN  /\ n > 1
      /\ Len(blocks) >= n
      /\ chain_verify(blocks, limit.time_gap)
      /\ blocks[n].hash = published[n].hash
      => /\ blocks[1].hash = published[1].hash
         /\ \A i \in 2 .. n : blocks[i] = published[i]

(***************************************************************************)
(* On a chain whose indices count up from the first block's, as             *)
(* ChainExecutor::add_block assigns them (executor.rs:98), index_select     *)
(* with a range that meets the chain returns exactly the blocks whose index *)
(* is in the range, in order (chain.rs:486).                                *)
(***************************************************************************)
Ordered == \A i \in 1 .. Len(blocks) : blocks[i].index = blocks[1].index + i - 1

BlocksOf(s) == {s[i] : i \in 1 .. Len(s)}

SelectOrdered ==
  chain_verify(blocks, limit.time_gap) /\ Ordered =>
    \A start, end \in 0 .. last_block_ref(blocks).index + 1 :
      LET selected == index_select(blocks, limit.time_gap, start, end)
          segment  == selected.segment
      IN  /\ start <= end
          /\ start <= last_block_ref(blocks).index
          /\ end >= blocks[1].index
          => /\ selected.outcome = "ok"
             /\ BlocksOf(segment) = {b \in BlocksOf(blocks) : b.index \in start .. end}
             /\ \A i \in 1 .. Len(segment) : segment[i].index = segment[1].index + i - 1
=============================================================================
