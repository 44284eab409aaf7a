------------------------------- MODULE Chains -------------------------------
(***************************************************************************)
(* What src/src/chain.rs computes on a chain without changing it.          *)
(* A chain is the sequence of its blocks and its limit, a record           *)
(* [max_len, time_gap]; local index i of the code is index i + 1 here.     *)
(***************************************************************************)
EXTENDS Blocks, Sequences

IsChain(blocks) ==
  /\ blocks \in Seq({blocks[i] : i \in DOMAIN blocks})
  /\ \A i \in DOMAIN blocks : IsBlock(blocks[i])

Limit == [max_len : Nat, time_gap : Timestamp]

last_block_ref(blocks) == blocks[Len(blocks)]

origin(blocks) == blocks[1].timestamp

BlockHashes(blocks) == [i \in 1 .. Len(blocks) |-> blocks[i].hash]

(***************************************************************************)
(* Chain::verify.  Every block but the first is verified against the hash  *)
(* of its predecessor; a chain of fewer than two blocks is refused.        *)
(***************************************************************************)
Linked(blocks, gap) ==
  \A i \in 2 .. Len(blocks) :
    verify(blocks[i], blocks[i - 1].hash, origin(blocks), gap)

chain_verify(blocks, gap) == Len(blocks) > 1 /\ Linked(blocks, gap)

(***************************************************************************)
(* Mutants: the length test of Keeper::is_full; a block verified against   *)
(* the hash of the first block; a range without its last index.            *)
(***************************************************************************)
is_full_when_past(blocks, limit) == Len(blocks) > limit.max_len

block_verify_on_first(blocks, limit, b) ==
  verify(b, blocks[1].hash, origin(blocks), limit.time_gap)

segment_len_exclusive(min_index, max_index) == max_index - min_index

is_full(blocks, limit) == Len(blocks) >= limit.max_len

block_verify(blocks, limit, b) ==
  verify(b, last_block_ref(blocks).hash, origin(blocks), limit.time_gap)

(***************************************************************************)
(* BlockChain::add returns Ok and pushes the block exactly when:           *)
(***************************************************************************)
accepts(blocks, limit, b) ==
  \/ blocks = << >> /\ b.prev_hash = ZERO_HASH
  \/ blocks # << >> /\ ~ is_full(blocks, limit) /\ block_verify(blocks, limit, b)

(***************************************************************************)
(* BlockChain::index_select((start, end)), ChainRef::from_chain_by_index:  *)
(* the offset and length are computed from the indices of the first and    *)
(* the last block alone.  The result is an error, a subtraction that       *)
(* underflows (a panic, or a wrapped length), a length that reaches past   *)
(* the last block, or the segment.                                         *)
(***************************************************************************)
segment_len(min_index, max_index) == max_index - min_index + 1

SelectResult(outcome, segment) == [outcome |-> outcome, segment |-> segment]

index_select(blocks, gap, start, end) ==
  LET first == blocks[1].index
      last  == last_block_ref(blocks).index
      min_index == IF first >= start THEN first ELSE start
      max_index == IF last <= end THEN last ELSE end
      offset    == min_index - first
      len       == segment_len(min_index, max_index)
  IN  CASE ~ chain_verify(blocks, gap) -> SelectResult("err", << >>)
        [] chain_verify(blocks, gap) /\ start > end -> SelectResult("err", << >>)
        [] OTHER ->
             IF max_index < min_index THEN SelectResult("underflow", << >>)
             ELSE IF offset + len > Len(blocks) THEN SelectResult("past_end", << >>)
             ELSE SelectResult("ok", SubSeq(blocks, offset + 1, offset + len))
=============================================================================
