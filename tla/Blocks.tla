------------------------------- MODULE Blocks -------------------------------
(***************************************************************************)
(* The blocks of src/src/block.rs: the Block trait and its two             *)
(* implementations, DataBlock (a datum of a side chain) and DigestBlock (a *)
(* whole side chain, digested into the main chain).                        *)
(*                                                                         *)
(* SHA-256 is the symbol Hash: what a hash tells apart is the tuple of     *)
(* fields fed to it.  A block is a record                                  *)
(*   hash, timestamp, prev_hash, digest_id, index   as in the code,        *)
(*   body   data_hash and data_uuid of a DataBlock as one value,           *)
(*          [merkle_root, length] of a DigestBlock;                        *)
(* DigestBlock::index() is its digest_id, so both fields hold that number. *)
(***************************************************************************)
EXTENDS Naturals, Merkle

CONSTANTS
  ZERO_HASH,    \* [0u8; 32]
  TimeSpace     \* how many timestamps the type u64 has, 2^64 in the code

ASSUME TimeSpaceAssumption == TimeSpace \in Nat \ {0}

Timestamp == 0 .. TimeSpace - 1

(***************************************************************************)
(* Mutant of hash_block: the hash forgets what the block carries.          *)
(***************************************************************************)
hash_block_without_body(b) ==
  Hash([timestamp |-> b.timestamp, prev_hash |-> b.prev_hash,
        digest_id |-> b.digest_id, index |-> b.index])

(***************************************************************************)
(* The hash covers every field but the hash itself.                        *)
(***************************************************************************)
hash_block(b) ==
  Hash([timestamp |-> b.timestamp, prev_hash |-> b.prev_hash, body |-> b.body,
        digest_id |-> b.digest_id, index |-> b.index])

(***************************************************************************)
(* Block::create: the arguments, the wall clock now, and the hash of it    *)
(* all, first for a DataBlock and then for a DigestBlock.                  *)
(***************************************************************************)
private_new(prev_hash, body, digest_id, index, now) ==
  LET b == [hash |-> ZERO_HASH, timestamp |-> now, prev_hash |-> prev_hash,
            body |-> body, digest_id |-> digest_id, index |-> index]
  IN  [b EXCEPT !.hash = hash_block(b)]

create_data(prev_hash, data, digest_id, index, now) ==
  private_new(prev_hash, data, digest_id, index, now)

create_digest(prev_hash, root, length, digest_id, now) ==
  private_new(prev_hash, [merkle_root |-> root, length |-> length],
              digest_id, digest_id, now)

genesis_data(digest_id, now) ==
  create_data(ZERO_HASH, ZERO_HASH, digest_id, 0, now)

genesis_digest(digest_id, now) ==
  create_digest(ZERO_HASH, ZERO_HASH, 1, digest_id, now)

(***************************************************************************)
(* Block::verify and its parts.  time_start + time_gap is a u64 addition:  *)
(* it wraps in a build without overflow checks (with them it panics, and   *)
(* no block is accepted either).                                           *)
(***************************************************************************)
hash_verify(b) == b.hash = hash_block(b)

TimeEnd(time_start, time_gap) ==
  IF time_start + time_gap < TimeSpace
  THEN time_start + time_gap
  ELSE time_start + time_gap - TimeSpace

(***************************************************************************)
(* Mutant of time_verify: the lower bound of the window is not tested.     *)
(***************************************************************************)
time_verify_upper_only(b, time_start, time_gap) ==
  b.timestamp <= TimeEnd(time_start, time_gap)

time_verify(b, time_start, time_gap) ==
  /\ b.timestamp >= time_start
  /\ b.timestamp <= TimeEnd(time_start, time_gap)

verify(b, pre_hash, time_start, time_gap) ==
  /\ hash_verify(b)
  /\ time_verify(b, time_start, time_gap)
  /\ b.prev_hash = pre_hash

(***************************************************************************)
(* What a &mut DataBlock (chain.rs:384) can leave in a block: every field  *)
(* is public.  One write puts another value into one field other than the  *)
(* hash, and leaves the hash or recomputes it, or it puts a known hash     *)
(* into the hash field; several writes in a row change any set of fields.  *)
(***************************************************************************)
Rewritten(b, hashes, data, ids, indices) ==
  LET edited == {[b EXCEPT !.body = d] : d \in data}
                  \cup {[b EXCEPT !.prev_hash = h] : h \in hashes}
                  \cup {[b EXCEPT !.timestamp = t] : t \in Timestamp}
                  \cup {[b EXCEPT !.digest_id = id] : id \in ids}
                  \cup {[b EXCEPT !.index = x] : x \in indices}
  IN  edited \cup {[c EXCEPT !.hash = hash_block(c)] : c \in edited}
             \cup {[b EXCEPT !.hash = h] : h \in hashes}

(***************************************************************************)
(* What every block value is.  Hashes are symbols and have no set.         *)
(***************************************************************************)
IsBlock(b) ==
  /\ b = [hash |-> b.hash, timestamp |-> b.timestamp, prev_hash |-> b.prev_hash,
          body |-> b.body, digest_id |-> b.digest_id, index |-> b.index]
  /\ b.timestamp \in Timestamp
  /\ b.digest_id \in Nat
  /\ b.index \in Nat
=============================================================================
