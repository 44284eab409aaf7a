---------------------------- MODULE ChainExecutor ----------------------------
(***************************************************************************)
(* ChainExecutor (src/src/executor.rs) over a ChainKeeper                  *)
(* (src/src/keeper.rs): the main chain of digest blocks, the side chains   *)
(* under their digest ids, and chain_buf; and the caller, who builds a     *)
(* chain of data blocks, may write into its blocks, and gives it to        *)
(* add_chain.                                                              *)
(*                                                                         *)
(* add_block and add_chain take &mut self, and add_chain holds the write   *)
(* lock of the keeper from its first to its last access: each is one step. *)
(* The wall clock is read anew by every created block and may step back.   *)
(***************************************************************************)
EXTENDS Chains

CONSTANTS
  MainLimit,   \* the limit given to ChainExecutor::new
  SideLimit,   \* the limit of the chains the caller builds
  Data,        \* what data blocks carry
  DigestIds,   \* the digest ids the caller gives to its chains
  Indices,     \* the indices it may write into a block
  WriteBound   \* bound of the writes through iter_mut

ASSUME ExecutorLimitsAssumption == MainLimit \in Limit /\ SideLimit \in Limit
ASSUME DigestIdsAssumption == DigestIds \subseteq Nat /\ Indices \subseteq Nat
ASSUME WriteBoundAssumption == WriteBound \in Nat

VARIABLES
  main,        \* the blocks of keeper.main
  sides,       \* keeper.sides: digest id -> the blocks of a chain
  chain_buf,   \* the blocks of chain_buf
  returned,    \* << >>, or the block the last add_block returned
  draft,       \* the caller's chain; << >> when it has none, or an empty one
  writes       \* how often the caller has written through iter_mut

ledger == << main, sides >>
vars == << main, sides, chain_buf, returned, draft, writes >>

(***************************************************************************)
(* ChainExecutor::new.                                                     *)
(***************************************************************************)
Init ==
  /\ \E now, later \in Timestamp :
       /\ main = << genesis_digest(1, now) >>
       /\ chain_buf = << genesis_data(1, later) >>
  /\ sides = << >>
  /\ returned = << >>
  /\ draft = << >>
  /\ writes = 0

-----------------------------------------------------------------------------
(***************************************************************************)
(* The caller: BlockChain::new, BlockChain::add, and iter_mut, which lets  *)
(* it write into every field of every block (Rewritten).                   *)
(***************************************************************************)
NewDraft(digest_id, now) ==
  /\ draft = << >>
  /\ draft' = << genesis_data(digest_id, now) >>
  /\ UNCHANGED << ledger, chain_buf, returned, writes >>

ExtendDraft(d, now) ==
  /\ draft # << >>
  /\ LET last == last_block_ref(draft)
         b == create_data(last.hash, d, last.digest_id, last.index + 1, now)
     IN  /\ accepts(draft, SideLimit, b)
         /\ draft' = Append(draft, b)
  /\ UNCHANGED << ledger, chain_buf, returned, writes >>

OverwriteDraft(i, b) ==
  /\ writes < WriteBound
  /\ draft' = [draft EXCEPT ![i] = b]
  /\ writes' = writes + 1
  /\ UNCHANGED << ledger, chain_buf, returned >>

Written(i) ==
  Rewritten(draft[i], {ZERO_HASH} \cup {draft[j].hash : j \in 1 .. Len(draft)},
            Data, DigestIds, Indices)

-----------------------------------------------------------------------------
(***************************************************************************)
(* Executor::add_block: a block that follows the last block of chain_buf.  *)
(* It is returned; chain_buf is left as it is.                             *)
(***************************************************************************)
AddBlock(d, now) ==
  /\ LET pre == last_block_ref(chain_buf)
     IN  returned' = << create_data(pre.hash, d, pre.digest_id + 1,
                                    pre.index + 1, now) >>
  /\ UNCHANGED << ledger, chain_buf, draft, writes >>

(***************************************************************************)
(* Keeper::is_full, and Main::add_block: the block is verified, then given *)
(* to BlockChain::add, which has its own test of the length.               *)
(***************************************************************************)
keeper_full == Len(main) > MainLimit.max_len

(***************************************************************************)
(* Mutant of main_accepts: a block is pushed without being verified.       *)
(***************************************************************************)
main_accepts_unverified(block) == ~ is_full(main, MainLimit)

main_accepts(block) ==
  /\ verify(block, last_block_ref(main).hash, origin(main), MainLimit.time_gap)
  /\ accepts(main, MainLimit, block)

next_digest_id == last_block_ref(main).index + 1

digest_of(chain) ==
  [merkle_root |-> merkle_root(BlockHashes(chain)), length |-> Len(chain)]

digest_block(chain, now) ==
  create_digest(last_block_ref(main).hash, digest_of(chain).merkle_root,
                digest_of(chain).length, next_digest_id, now)

(***************************************************************************)
(* Executor::add_chain, which consumes the caller's chain.  It returns Err *)
(* before it has changed anything, ...                                     *)
(***************************************************************************)
AddChainRefused(now) ==
  /\ \/ keeper_full
     \/ draft = << >>
     \/ draft # << >> /\ ~ main_accepts(digest_block(draft, now))
  /\ draft' = << >>
  /\ UNCHANGED << ledger, chain_buf, returned, writes >>

(***************************************************************************)
(* ... or it has put the digest block into the main chain when             *)
(* Sides::add_chain refuses the chain, ...                                 *)
(***************************************************************************)
AddChainDigestOnly(now) ==
  /\ ~ keeper_full
  /\ draft # << >>
  /\ main_accepts(digest_block(draft, now))
  /\ ~ chain_verify(draft, SideLimit.time_gap)
  /\ main' = Append(main, digest_block(draft, now))
  /\ draft' = << >>
  /\ UNCHANGED << sides, chain_buf, returned, writes >>

(***************************************************************************)
(* ... or it returns Ok.                                                   *)
(***************************************************************************)
insert(map, key, value) ==
  [k \in DOMAIN map \cup {key} |-> IF k = key THEN value ELSE map[k]]

(***************************************************************************)
(* Mutants: the chain is not verified; the chain is stored under the id of *)
(* the digest block before; insert_alone above forgets the other chains.   *)
(***************************************************************************)
AddChainUnverified(now) ==
  /\ ~ keeper_full
  /\ draft # << >>
  /\ main_accepts(digest_block(draft, now))
  /\ main' = Append(main, digest_block(draft, now))
  /\ sides' = insert(sides, next_digest_id, draft)
  /\ draft' = << >>
  /\ UNCHANGED << chain_buf, returned, writes >>

AddChainUnderLast(now) ==
  /\ ~ keeper_full
  /\ draft # << >>
  /\ main_accepts(digest_block(draft, now))
  /\ chain_verify(draft, SideLimit.time_gap)
  /\ main' = Append(main, digest_block(draft, now))
  /\ sides' = insert(sides, last_block_ref(main).index, draft)
  /\ draft' = << >>
  /\ UNCHANGED << chain_buf, returned, writes >>

AddChain(now) ==
  /\ ~ keeper_full
  /\ draft # << >>
  /\ main_accepts(digest_block(draft, now))
  /\ chain_verify(draft, SideLimit.time_gap)
  /\ main' = Append(main, digest_block(draft, now))
  /\ sides' = insert(sides, next_digest_id, draft)
  /\ draft' = << >>
  /\ UNCHANGED << chain_buf, returned, writes >>

Next ==
  \/ \E digest_id \in DigestIds, now \in Timestamp : NewDraft(digest_id, now)
  \/ \E d \in Data, now \in Timestamp : ExtendDraft(d, now) \/ AddBlock(d, now)
  \/ \E i \in 1 .. Len(draft) : \E b \in Written(i) : OverwriteDraft(i, b)
  \/ \E now \in Timestamp :
       AddChainRefused(now) \/ AddChainDigestOnly(now) \/ AddChain(now)

Spec == Init /\ [][Next]_vars

TypeOK ==
  /\ IsChain(main) /\ Len(main) > 0
  /\ sides = [id \in DOMAIN sides |-> sides[id]]
  /\ \A id \in DOMAIN sides : id \in Nat /\ IsChain(sides[id])
  /\ IsChain(chain_buf) /\ Len(chain_buf) > 0
  /\ IsChain(returned)
  /\ IsChain(draft)
  /\ writes \in 0 .. WriteBound

-----------------------------------------------------------------------------
(***************************************************************************)
(* The main chain is numbered from 1 without gaps, as keeper.rs:81-84      *)
(* wants, and linked, so that Chain::verify accepts it as soon as it has   *)
(* two blocks; whatever chains were added, refused or half added, and      *)
(* however the clock moved.                                                *)
(***************************************************************************)
MainIndexed == \A i \in 1 .. Len(main) : main[i].index = i /\ main[i].digest_id = i

MainLinked == Linked(main, MainLimit.time_gap)

(***************************************************************************)
(* A side chain is found under the id of the digest block that holds its   *)
(* Merkle root and its length, and it verifies (executor.rs:117-158).      *)
(***************************************************************************)
SidesDigested ==
  \A id \in DOMAIN sides :
    /\ \E i \in 1 .. Len(main) :
         main[i].digest_id = id /\ main[i].body = digest_of(sides[id])
    /\ chain_verify(sides[id], SideLimit.time_gap)

(***************************************************************************)
(* The main chain only grows at its end, by one block, and a side chain is *)
(* never replaced or dropped, although HashMap::insert (chain.rs:771)      *)
(* would overwrite one.                                                    *)
(***************************************************************************)
AppendOnly ==
  [][/\ Len(main') \in {Len(main), Len(main) + 1}
     /\ \A i \in 1 .. Len(main) : main'[i] = main[i]
     /\ \A id \in DOMAIN sides : id \in DOMAIN sides' /\ sides'[id] = sides[id]]_ledger

(***************************************************************************)
(* The keeper's test of its length (keeper.rs:58) lets one more chain in   *)
(* than the main chain has room for; the main chain's own test             *)
(* (chain.rs:341) still stops it at max_len.                               *)
(***************************************************************************)
MainLengthBound == Len(main) > 1 => Len(main) <= MainLimit.max_len

(***************************************************************************)
(* The main chain always is what the keeper promises: numbered, linked,    *)
(* and within its limit (keeper.rs:81-84).                                 *)
(***************************************************************************)
MainInv ==
  /\ TypeOK
  /\ MainIndexed
  /\ MainLinked
  /\ MainLengthBound

(***************************************************************************)
(* The executor implements the abstract keeper: a digest block is a        *)
(* commitment, and the side chains are the store.                          *)
(***************************************************************************)
Abstract == INSTANCE Ledger WITH
  Commitment  <- digest_of,
  commitments <- [i \in 1 .. Len(main) |-> main[i].body],
  store       <- sides

LedgerSpec == Abstract!Spec
=============================================================================
