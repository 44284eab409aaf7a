------------------------ MODULE ChainExecutor_proofs ------------------------
(***************************************************************************)
(* What holds of ChainExecutor for every hash function, limit, clock and   *)
(* chain a caller may build; and that it implements the abstract Ledger.   *)
(***************************************************************************)
EXTENDS ChainExecutor, Chains_proofs

(***************************************************************************)
(* The two ways add_chain appends to the main chain, as one fact.          *)
(***************************************************************************)
LEMMA MainGrows ==
  ASSUME TypeOK, NEW now \in Timestamp,
         main_accepts(digest_block(draft, now)),
         main' = Append(main, digest_block(draft, now))
  PROVE  /\ IsBlock(digest_block(draft, now))
         /\ IsChain(main') /\ Len(main') = Len(main) + 1
         /\ \A i \in 1 .. Len(main) : main'[i] = main[i]
         /\ main'[Len(main) + 1] = digest_block(draft, now)
         /\ digest_block(draft, now).index = next_digest_id
         /\ digest_block(draft, now).digest_id = next_digest_id
         /\ digest_block(draft, now).body = digest_of(draft)
<1>1. next_digest_id \in Nat
  BY ChainFacts DEF TypeOK, next_digest_id, last_block_ref
<1>2. /\ IsBlock(digest_block(draft, now))
      /\ digest_block(draft, now).index = next_digest_id
      /\ digest_block(draft, now).digest_id = next_digest_id
      /\ digest_block(draft, now).body
           = [merkle_root |-> digest_of(draft).merkle_root,
              length |-> digest_of(draft).length]
  BY <1>1, CreateDigestFacts DEF digest_block
<1>3. digest_block(draft, now).body = digest_of(draft)
  BY <1>2 DEF digest_of
<1> QED
  BY <1>2, <1>3, AppendFacts DEF TypeOK

(***************************************************************************)
(* The main chain keeps its genesis block.                                 *)
(***************************************************************************)
LEMMA MainNotEmpty ==
  ASSUME TypeOK
  PROVE  Len(main) \in Nat /\ Len(main) > 0 /\ Len(main) + 1 > 0
<1>1. Len(main) \in Nat /\ Len(main) > 0
  BY ChainFacts DEF TypeOK
<1> QED
  BY <1>1

-----------------------------------------------------------------------------
(***************************************************************************)
(* Type correctness: the main chain always has its genesis block, so the   *)
(* unwrap of executor.rs:137 never fails; the side chains are chains.      *)
(***************************************************************************)
THEOREM TypeCorrect == Spec => []TypeOK
<1>1. Init => TypeOK
  <2> SUFFICES ASSUME Init PROVE TypeOK
    OBVIOUS
  <2>1. PICK now \in Timestamp, later \in Timestamp :
          main = << genesis_digest(1, now) >> /\ chain_buf = << genesis_data(1, later) >>
    BY DEF Init
  <2>2. IsBlock(genesis_digest(1, now)) /\ IsBlock(genesis_data(1, later))
    BY CreateFacts, CreateDigestFacts DEF genesis_digest, genesis_data
  <2>3. IsChain(main) /\ Len(main) > 0 /\ IsChain(chain_buf) /\ Len(chain_buf) > 0
    BY <2>1, <2>2, SingletonFacts
  <2>4. IsChain(<< >>)
    BY DEF IsChain
  <2>5. /\ writes \in 0 .. WriteBound
        /\ sides = [id \in DOMAIN sides |-> sides[id]]
        /\ \A id \in DOMAIN sides : id \in Nat /\ IsChain(sides[id])
    BY WriteBoundAssumption DEF Init
  <2> QED
    BY <2>3, <2>4, <2>5 DEF Init, TypeOK
<1>2. TypeOK /\ [Next]_vars => TypeOK'
  <2> SUFFICES ASSUME TypeOK, [Next]_vars PROVE TypeOK'
    OBVIOUS
  <2>1. ASSUME NEW digest_id \in DigestIds, NEW now \in Timestamp,
               NewDraft(digest_id, now)
        PROVE  TypeOK'
    <3>1. IsBlock(genesis_data(digest_id, now))
      BY CreateFacts, DigestIdsAssumption DEF genesis_data
    <3> QED
      BY <2>1, <3>1, SingletonFacts DEF NewDraft, TypeOK, ledger
  <2>2. ASSUME NEW d \in Data, NEW now \in Timestamp, ExtendDraft(d, now)
        PROVE  TypeOK'
    <3> DEFINE last == last_block_ref(draft)
               b == create_data(last.hash, d, last.digest_id, last.index + 1, now)
    <3>1. last.digest_id \in Nat /\ last.index + 1 \in Nat
      <4>1. draft # << >>
        BY <2>2 DEF ExtendDraft
      <4>2. Len(draft) \in 1 .. Len(draft)
        BY <4>1 DEF TypeOK, IsChain
      <4> QED
        BY <4>2, ChainFacts DEF TypeOK, last_block_ref
    <3>2. IsBlock(b)
      <4> HIDE DEF last
      <4> QED
        BY <3>1, CreateFacts
    <3>3. draft' = Append(draft, b)
      BY <2>2 DEF ExtendDraft
    <3>4. IsChain(draft')
      <4> HIDE DEF b
      <4> QED
        BY <3>2, <3>3, AppendFacts DEF TypeOK
    <3> QED
      BY <2>2, <3>4 DEF ExtendDraft, TypeOK, ledger
  <2>3. ASSUME NEW i \in 1 .. Len(draft), NEW b \in Written(i), OverwriteDraft(i, b)
        PROVE  TypeOK'
    <3>1. /\ IsBlock(draft[i])
          /\ DigestIds \in SUBSET Nat /\ Indices \in SUBSET Nat
      BY ChainFacts, DigestIdsAssumption DEF TypeOK
    <3>2. IsBlock(b)
      BY <3>1, RewrittenFacts DEF Written
    <3>3. IsChain(draft')
      BY <2>3, <3>2, OverwriteFacts DEF OverwriteDraft, TypeOK
    <3>4. writes' \in 0 .. WriteBound
      BY <2>3, WriteBoundAssumption DEF OverwriteDraft, TypeOK
    <3> QED
      BY <2>3, <3>3, <3>4 DEF OverwriteDraft, TypeOK, ledger
  <2>4. ASSUME NEW d \in Data, NEW now \in Timestamp, AddBlock(d, now)
        PROVE  TypeOK'
    <3> DEFINE pre == last_block_ref(chain_buf)
               b == create_data(pre.hash, d, pre.digest_id + 1, pre.index + 1, now)
    <3>1. pre.digest_id + 1 \in Nat /\ pre.index + 1 \in Nat
      BY ChainFacts DEF TypeOK, last_block_ref
    <3>2. IsBlock(b)
      <4> HIDE DEF pre
      <4> QED
        BY <3>1, CreateFacts
    <3>3. returned' = << b >>
      BY <2>4 DEF AddBlock
    <3>4. IsChain(returned')
      <4> HIDE DEF b
      <4> QED
        BY <3>2, <3>3, SingletonFacts
    <3> QED
      BY <2>4, <3>4 DEF AddBlock, TypeOK, ledger
  <2>5. IsChain(<< >>)
    BY DEF IsChain
  <2>6. ASSUME NEW now \in Timestamp, AddChainRefused(now)
        PROVE  TypeOK'
    BY <2>5, <2>6 DEF AddChainRefused, TypeOK, ledger
  <2>7. ASSUME NEW now \in Timestamp, AddChainDigestOnly(now)
        PROVE  TypeOK'
    <3>1. IsChain(main') /\ Len(main') > 0
      BY <2>7, MainGrows, MainNotEmpty DEF AddChainDigestOnly
    <3> QED
      BY <2>5, <2>7, <3>1 DEF AddChainDigestOnly, TypeOK
  <2>8. ASSUME NEW now \in Timestamp, AddChain(now)
        PROVE  TypeOK'
    <3>1. IsChain(main') /\ Len(main') > 0
      BY <2>8, MainGrows, MainNotEmpty DEF AddChain
    <3>2. next_digest_id \in Nat
      BY ChainFacts DEF TypeOK, next_digest_id, last_block_ref
    <3>3. sides' = insert(sides, next_digest_id, draft)
      BY <2>8 DEF AddChain
    <3>4. /\ sides' = [id \in DOMAIN sides' |-> sides'[id]]
          /\ \A id \in DOMAIN sides' : id \in Nat /\ IsChain(sides'[id])
      BY <3>2, <3>3 DEF insert, TypeOK
    <3> QED
      BY <2>5, <2>8, <3>1, <3>4 DEF AddChain, TypeOK
  <2>9. CASE UNCHANGED vars
    BY <2>9 DEF vars, ledger, TypeOK
  <2> QED
    BY <2>1, <2>2, <2>3, <2>4, <2>6, <2>7, <2>8, <2>9 DEF Next
<1> QED
  BY <1>1, <1>2, PTL DEF Spec

-----------------------------------------------------------------------------
(***************************************************************************)
(* All that a step can do to the main chain: nothing, or append the digest *)
(* block of the caller's chain after Main::add_block has accepted it.      *)
(***************************************************************************)
Digests(now) ==
  /\ main_accepts(digest_block(draft, now))
  /\ main' = Append(main, digest_block(draft, now))

(***************************************************************************)
(* Every step leaves the main chain alone or Digests.                      *)
(***************************************************************************)
LEMMA MainStep ==
  ASSUME [Next]_vars
  PROVE  main' = main \/ \E now \in Timestamp : Digests(now)
<1>1. CASE UNCHANGED vars
  BY <1>1 DEF vars, ledger
<1>2. CASE \E now \in Timestamp : AddChainDigestOnly(now) \/ AddChain(now)
  BY <1>2 DEF AddChainDigestOnly, AddChain, Digests
<1>3. CASE /\ ~ UNCHANGED vars
           /\ ~ \E now \in Timestamp : AddChainDigestOnly(now) \/ AddChain(now)
  BY <1>3 DEF Next, NewDraft, ExtendDraft, OverwriteDraft, AddBlock,
              AddChainRefused, ledger
<1> QED
  BY <1>1, <1>2, <1>3

(***************************************************************************)
(* All that a step can do to the side chains: nothing, or insert the       *)
(* caller's chain, verified, under the id of the digest block it appends.  *)
(***************************************************************************)
LEMMA SidesStep ==
  ASSUME [Next]_vars
  PROVE  \/ sides' = sides
         \/ /\ \E now \in Timestamp : Digests(now)
            /\ chain_verify(draft, SideLimit.time_gap)
            /\ sides' = insert(sides, next_digest_id, draft)
<1>1. CASE UNCHANGED vars
  BY <1>1 DEF vars, ledger
<1>2. CASE \E now \in Timestamp : AddChain(now)
  BY <1>2 DEF AddChain, Digests
<1>3. CASE ~ UNCHANGED vars /\ ~ \E now \in Timestamp : AddChain(now)
  BY <1>3 DEF Next, NewDraft, ExtendDraft, OverwriteDraft, AddBlock,
              AddChainRefused, AddChainDigestOnly, ledger
<1> QED
  BY <1>1, <1>2, <1>3

-----------------------------------------------------------------------------
(***************************************************************************)
(* The digest blocks are numbered without gaps, whatever add_chain refused *)
(* or left half done.                                                      *)
(***************************************************************************)
LEMMA IndexedStep ==
  ASSUME TypeOK, MainIndexed, [Next]_vars
  PROVE  MainIndexed'
<1>1. CASE main' = main
  BY <1>1 DEF MainIndexed
<1>2. ASSUME NEW now \in Timestamp, Digests(now)
      PROVE  MainIndexed'
  <2> DEFINE n == Len(main)
             b == digest_block(draft, now)
  <2>1. n \in Nat /\ n > 0
    BY MainNotEmpty
  <2>2. next_digest_id = n + 1
    BY <2>1 DEF MainIndexed, next_digest_id, last_block_ref
  <2>3. /\ Len(main') = n + 1
        /\ \A i \in 1 .. n : main'[i] = main[i]
        /\ main'[n + 1] = b
        /\ b.index = n + 1 /\ b.digest_id = n + 1
    BY <1>2, <2>2, MainGrows DEF Digests
  <2>4. \A i \in 1 .. n : main[i].index = i /\ main[i].digest_id = i
    BY DEF MainIndexed
  <2>5. \A i \in 1 .. (n + 1) : main'[i].index = i /\ main'[i].digest_id = i
    <3> HIDE DEF n, b
    <3> QED
      BY <2>1, <2>3, <2>4
  <2> QED
    BY <2>3, <2>5 DEF MainIndexed
<1> QED
  BY <1>1, <1>2, MainStep

(***************************************************************************)
(* The digest blocks are always numbered 1, 2, ... without gaps.           *)
(***************************************************************************)
THEOREM MainIndexedAlways == Spec => []MainIndexed
<1>1. Init => MainIndexed
  BY DEF Init, MainIndexed, genesis_digest, create_digest, private_new
<1>2. TypeOK /\ MainIndexed /\ [Next]_vars => MainIndexed'
  BY IndexedStep
<1> QED
  BY <1>1, <1>2, TypeCorrect, PTL DEF Spec

(***************************************************************************)
(* The main chain is linked, so Chain::verify accepts it as soon as it has *)
(* two blocks.                                                             *)
(***************************************************************************)
THEOREM MainLinkedAlways == Spec => []MainLinked
<1>1. Init => MainLinked
  BY DEF Init, MainLinked, Linked
<1>2. TypeOK /\ MainLinked /\ [Next]_vars => MainLinked'
  <2> SUFFICES ASSUME TypeOK, MainLinked, [Next]_vars PROVE MainLinked'
    OBVIOUS
  <2>1. CASE main' = main
    BY <2>1 DEF MainLinked
  <2>2. ASSUME NEW now \in Timestamp, Digests(now)
        PROVE  MainLinked'
    <3>1. IsBlock(digest_block(draft, now))
      BY <2>2, MainGrows DEF Digests
    <3>2. accepts(main, MainLimit, digest_block(draft, now))
      BY <2>2 DEF Digests, main_accepts
    <3>3. Linked(Append(main, digest_block(draft, now)), MainLimit.time_gap)
      BY <3>1, <3>2, AppendLinked DEF TypeOK, MainLinked
    <3> QED
      BY <2>2, <3>3 DEF Digests, MainLinked
  <2> QED
    BY <2>1, <2>2, MainStep
<1> QED
  BY <1>1, <1>2, TypeCorrect, PTL DEF Spec

(***************************************************************************)
(* Although Keeper::is_full lets one chain too many in, BlockChain::add    *)
(* keeps the main chain within max_len.                                    *)
(***************************************************************************)
THEOREM MainLengthAlways == Spec => []MainLengthBound
<1>1. Init => MainLengthBound
  BY DEF Init, MainLengthBound
<1>2. TypeOK /\ MainLengthBound /\ [Next]_vars => MainLengthBound'
  <2> SUFFICES ASSUME TypeOK, MainLengthBound, [Next]_vars PROVE MainLengthBound'
    OBVIOUS
  <2>1. CASE main' = main
    BY <2>1 DEF MainLengthBound
  <2>2. ASSUME NEW now \in Timestamp, Digests(now)
        PROVE  MainLengthBound'
    <3> DEFINE n == Len(main)
    <3>1. n \in Nat /\ n > 0 /\ Len(main') = n + 1
      BY <2>2, MainNotEmpty, MainGrows DEF Digests
    <3>2. MainLimit.max_len \in Nat
      BY ExecutorLimitsAssumption DEF Limit
    <3>3. main # << >>
      BY <3>1
    <3>4. ~ (n >= MainLimit.max_len)
      BY <2>2, <3>3 DEF Digests, main_accepts, accepts, is_full
    <3>5. n + 1 <= MainLimit.max_len
      <4> HIDE DEF n
      <4> QED
        BY <3>1, <3>2, <3>4
    <3> QED
      BY <3>1, <3>5 DEF MainLengthBound
  <2> QED
    BY <2>1, <2>2, MainStep
<1> QED
  BY <1>1, <1>2, TypeCorrect, PTL DEF Spec

-----------------------------------------------------------------------------
(***************************************************************************)
(* The invariant that the main chain and the sides keep together.  Neither *)
(* part is inductive alone: that the next digest id is not in the sides    *)
(* yet follows from the numbering of the main chain.                       *)
(***************************************************************************)
LedgerInv == TypeOK /\ MainIndexed /\ SidesDigested

(***************************************************************************)
(* The id that add_chain computes (executor.rs:143) is the place the       *)
(* digest block will have, and no side chain is there yet.                 *)
(***************************************************************************)
LEMMA NextIdIsFresh ==
  ASSUME LedgerInv
  PROVE  next_digest_id = Len(main) + 1 /\ next_digest_id \notin DOMAIN sides
<1>1. Len(main) \in Nat /\ Len(main) > 0
  BY MainNotEmpty DEF LedgerInv
<1>2. next_digest_id = Len(main) + 1
  BY <1>1 DEF LedgerInv, MainIndexed, next_digest_id, last_block_ref
<1>3. \A id \in DOMAIN sides : id \in 1 .. Len(main)
  BY DEF LedgerInv, MainIndexed, SidesDigested
<1> QED
  BY <1>1, <1>2, <1>3

(***************************************************************************)
(* A side chain verifies and is found under the id of the digest block     *)
(* that holds its Merkle root and length, for ever.                        *)
(***************************************************************************)
LEMMA DigestedStep ==
  ASSUME LedgerInv, [Next]_vars
  PROVE  SidesDigested'
<1> DEFINE Digested(id, chain, blocks) ==
             \E i \in 1 .. Len(blocks) :
               blocks[i].digest_id = id /\ blocks[i].body = digest_of(chain)
<1>1. \A id \in DOMAIN sides : Digested(id, sides[id], main')
  <2>1. CASE main' = main
    BY <2>1 DEF LedgerInv, SidesDigested
  <2>2. ASSUME NEW now \in Timestamp, Digests(now)
        PROVE  \A id \in DOMAIN sides : Digested(id, sides[id], main')
    <3>1. /\ Len(main) \in Nat /\ Len(main') = Len(main) + 1
          /\ \A i \in 1 .. Len(main) : main'[i] = main[i]
      BY <2>2, MainGrows, MainNotEmpty DEF Digests, LedgerInv
    <3>2. \A i \in 1 .. Len(main) : i \in 1 .. Len(main')
      BY <3>1
    <3> QED
      BY <3>1, <3>2 DEF LedgerInv, SidesDigested
  <2> QED
    BY <2>1, <2>2, MainStep
<1>2. CASE sides' = sides
  BY <1>1, <1>2 DEF LedgerInv, SidesDigested
<1>3. ASSUME NEW now \in Timestamp, Digests(now),
             chain_verify(draft, SideLimit.time_gap),
             sides' = insert(sides, next_digest_id, draft)
      PROVE  SidesDigested'
  <2> DEFINE key == next_digest_id
  <2>1. /\ DOMAIN sides' = DOMAIN sides \cup {key}
        /\ sides'[key] = draft
        /\ \A k \in DOMAIN sides : sides'[k] = sides[k]
    BY <1>3, NextIdIsFresh DEF insert
  <2>2. Digested(key, draft, main')
    <3>1. /\ Len(main) \in Nat /\ Len(main') = Len(main) + 1
          /\ main'[Len(main) + 1].digest_id = key
          /\ main'[Len(main) + 1].body = digest_of(draft)
      BY <1>3, MainGrows, MainNotEmpty DEF Digests, LedgerInv
    <3>2. Len(main) + 1 \in 1 .. Len(main')
      BY <3>1
    <3> QED
      BY <3>1, <3>2
  <2>3. \A id \in DOMAIN sides' :
          Digested(id, sides'[id], main') /\ chain_verify(sides'[id], SideLimit.time_gap)
    BY <1>1, <1>3, <2>1, <2>2 DEF LedgerInv, SidesDigested
  <2> QED
    BY <2>3 DEF SidesDigested
<1> QED
  BY <1>2, <1>3, SidesStep

(***************************************************************************)
(* The inductive invariant holds in every reachable state.                 *)
(***************************************************************************)
THEOREM LedgerInvAlways == Spec => []LedgerInv
<1>1. Init => SidesDigested
  BY DEF Init, SidesDigested
<1>2. LedgerInv /\ [Next]_vars => SidesDigested'
  BY DigestedStep
<1>3. TypeOK /\ MainIndexed /\ SidesDigested <=> LedgerInv
  BY DEF LedgerInv
<1> QED
  BY <1>1, <1>2, <1>3, TypeCorrect, MainIndexedAlways, PTL DEF Spec

(***************************************************************************)
(* Every stored side chain verifies and has its digest in the main chain.  *)
(***************************************************************************)
THEOREM SidesDigestedAlways == Spec => []SidesDigested
<1>1. LedgerInv => SidesDigested
  BY DEF LedgerInv
<1> QED
  BY <1>1, LedgerInvAlways, PTL

-----------------------------------------------------------------------------
(***************************************************************************)
(* No step rewrites the main chain, and none replaces or drops a side      *)
(* chain: HashMap::insert never meets a key it holds.                      *)
(***************************************************************************)
LEMMA AppendStep ==
  ASSUME LedgerInv, [Next]_vars
  PROVE  /\ Len(main') \in {Len(main), Len(main) + 1}
         /\ \A i \in 1 .. Len(main) : main'[i] = main[i]
         /\ \A id \in DOMAIN sides : id \in DOMAIN sides' /\ sides'[id] = sides[id]
<1>1. /\ Len(main') \in {Len(main), Len(main) + 1}
      /\ \A i \in 1 .. Len(main) : main'[i] = main[i]
  BY MainStep, MainGrows DEF LedgerInv, Digests
<1>2. \A id \in DOMAIN sides : id \in DOMAIN sides' /\ sides'[id] = sides[id]
  BY SidesStep, NextIdIsFresh DEF insert
<1> QED
  BY <1>1, <1>2

(***************************************************************************)
(* The same of every step of every behaviour.                              *)
(***************************************************************************)
THEOREM AppendOnlyAlways == Spec => AppendOnly
<1>1. LedgerInv /\ [Next]_vars =>
        [/\ Len(main') \in {Len(main), Len(main) + 1}
         /\ \A i \in 1 .. Len(main) : main'[i] = main[i]
         /\ \A id \in DOMAIN sides : id \in DOMAIN sides' /\ sides'[id] = sides[id]]_ledger
  BY AppendStep
<1> QED
  BY <1>1, LedgerInvAlways, PTL DEF Spec, AppendOnly

-----------------------------------------------------------------------------
(***************************************************************************)
(* The executor implements the Ledger: add_chain that returns Ok is a      *)
(* Record, add_chain that fails in Sides::add_chain is a Commit, and all   *)
(* else is a stutter.  First: a digest block is published at its own id.   *)
(***************************************************************************)
LEMMA DigestPublishes ==
  ASSUME LedgerInv, NEW now \in Timestamp, Digests(now)
  PROVE  /\ Abstract!Publishes
         /\ Len([i \in 1 .. Len(main') |-> main'[i].body]) = next_digest_id
         /\ main'[next_digest_id].body = digest_of(draft)
         /\ next_digest_id \in 1 .. Len(main')
<1> DEFINE n == Len(main)
<1>1. /\ n \in Nat
      /\ Len(main') = n + 1
      /\ \A i \in 1 .. n : main'[i] = main[i]
      /\ main'[n + 1].body = digest_of(draft)
  BY MainGrows, MainNotEmpty DEF LedgerInv, Digests
<1>2. next_digest_id = n + 1
  BY NextIdIsFresh
<1> DEFINE before == [i \in 1 .. Len(main) |-> main[i].body]
           after  == [i \in 1 .. Len(main') |-> main'[i].body]
<1>3. /\ Len(before) = n /\ Len(after) = n + 1
      /\ \A i \in 1 .. n : after[i] = before[i]
  <2> HIDE DEF n
  <2> SUFFICES ASSUME n = Len(main)
               PROVE  /\ Len(before) = n /\ Len(after) = n + 1
                      /\ \A i \in 1 .. n : after[i] = before[i]
    BY DEF n
  <2>1. Len(before) = n
    BY <1>1
  <2>2. Len(after) = n + 1
    BY <1>1
  <2>3. \A i \in 1 .. n : i \in 1 .. (n + 1)
    BY <1>1
  <2> QED
    BY <1>1, <2>1, <2>2, <2>3
<1>4. Abstract!Publishes
  BY <1>3 DEF Abstract!Publishes
<1>5. n + 1 \in 1 .. (n + 1)
  BY <1>1
<1> QED
  BY <1>1, <1>2, <1>3, <1>4, <1>5

(***************************************************************************)
(* Every behaviour of the executor is one of the Ledger.                   *)
(***************************************************************************)
THEOREM ImplementsLedger == Spec => LedgerSpec
<1>1. Init => Abstract!Init
  <2> SUFFICES ASSUME Init PROVE Abstract!Init
    OBVIOUS
  <2>1. Len(main) = 1 /\ sides = << >>
    BY DEF Init
  <2>2. Len([i \in 1 .. Len(main) |-> main[i].body]) = 1
    BY <2>1
  <2> QED
    BY <2>1, <2>2 DEF Abstract!Init
<1>2. LedgerInv /\ [Next]_vars => [Abstract!Next]_(Abstract!vars)
  <2> SUFFICES ASSUME LedgerInv, [Next]_vars
               PROVE  [Abstract!Next]_(Abstract!vars)
    OBVIOUS
  <2>1. CASE main' = main /\ sides' = sides
    BY <2>1 DEF Abstract!vars
  <2>2. ASSUME NEW now \in Timestamp, Digests(now), sides' = sides
        PROVE  Abstract!Commit
    BY <2>2, DigestPublishes DEF Abstract!Commit
  <2>3. ASSUME NEW now \in Timestamp, Digests(now),
               sides' = insert(sides, next_digest_id, draft)
        PROVE  Abstract!Record
    <3> DEFINE id == next_digest_id
    <3>1. /\ DOMAIN sides' = DOMAIN sides \cup {id}
          /\ id \notin DOMAIN sides
          /\ sides'[id] = draft
          /\ \A k \in DOMAIN sides : sides'[k] = sides[k]
      BY <2>3, NextIdIsFresh DEF insert
    <3>2. [i \in 1 .. Len(main') |-> main'[i].body][id] = digest_of(sides'[id])
      BY <2>3, <3>1, DigestPublishes
    <3>3. Abstract!Publishes /\ Len([i \in 1 .. Len(main') |-> main'[i].body]) = id
      BY <2>3, DigestPublishes
    <3> HIDE DEF id
    <3> QED
      BY <3>1, <3>2, <3>3 DEF Abstract!Record, Abstract!Stores
  <2>4. \/ main' = main /\ sides' = sides
        \/ \E now \in Timestamp : Digests(now) /\ sides' = sides
        \/ \E now \in Timestamp :
             Digests(now) /\ sides' = insert(sides, next_digest_id, draft)
    BY MainStep, SidesStep
  <2> QED
    BY <2>1, <2>2, <2>3, <2>4 DEF Abstract!Next
<1> QED
  BY <1>1, <1>2, LedgerInvAlways, PTL DEF Spec, LedgerSpec, Abstract!Spec

(***************************************************************************)
(* The main chain is numbered, linked and within its limit.                *)
(***************************************************************************)
THEOREM MainInvAlways == Spec => []MainInv
BY TypeCorrect, MainIndexedAlways, MainLinkedAlways, MainLengthAlways, PTL
DEF MainInv

-----------------------------------------------------------------------------
(***************************************************************************)
(* What the digests are for.  Two chains are the same behind their first   *)
(* block, of which chain_verify does not compute the hash (chain.rs:81).   *)
(***************************************************************************)
SameChain(c, s) ==
  /\ Len(c) = Len(s)
  /\ c[1].hash = s[1].hash
  /\ \A j \in 2 .. Len(s) : c[j] = s[j]

(***************************************************************************)
(* A digest determines the chain: its root fixes every block hash, and     *)
(* the hash of a verified block fixes the block.                           *)
(***************************************************************************)
LEMMA DigestBindsChain ==
  ASSUME HashInjective,
         NEW c, NEW s, IsChain(c), IsChain(s), NEW gap,
         chain_verify(c, gap), chain_verify(s, gap),
         digest_of(c) = digest_of(s)
  PROVE  SameChain(c, s)
<1> DEFINE a == BlockHashes(c)
           b == BlockHashes(s)
           n == Len(s)
<1>1. n \in Nat /\ n > 1 /\ Len(c) = n /\ merkle_root(a) = merkle_root(b)
  <2>1. merkle_root(a) = merkle_root(b) /\ Len(c) = Len(s)
    BY DEF digest_of
  <2> QED
    BY <2>1, ChainFacts DEF chain_verify
<1>2. /\ a = [i \in 1 .. n |-> a[i]] /\ b = [i \in 1 .. n |-> b[i]]
      /\ \A i \in 1 .. n : a[i] = c[i].hash /\ b[i] = s[i].hash
  BY <1>1 DEF BlockHashes
<1> HIDE DEF a, b, n
<1>3. IsHashes(a) /\ Len(a) = n /\ IsHashes(b) /\ Len(b) = n
  BY <1>1, <1>2, FunctionIsHashes
<1>4. a = b
  BY <1>1, <1>3, RootBindsSequence
<1>5. \A i \in 1 .. n : c[i].hash = s[i].hash
  BY <1>2, <1>4
<1>6. ASSUME NEW j \in 2 .. n PROVE c[j] = s[j]
  <2>1. j \in 1 .. n
    OBVIOUS
  <2>2. IsBlock(c[j]) /\ IsBlock(s[j])
    BY <1>1, <2>1, ChainFacts DEF n
  <2>3. hash_verify(c[j]) /\ hash_verify(s[j])
    BY <1>1, <1>6 DEF chain_verify, Linked, verify, n
  <2> QED
    BY <1>5, <2>1, <2>2, <2>3, HashBindsBlock
<1>7. 1 \in 1 .. n
  BY <1>1
<1> QED
  BY <1>1, <1>5, <1>6, <1>7 DEF SameChain, n

(***************************************************************************)
(* Whoever kept the length of the main chain and the hash of its last      *)
(* block can recognise every side chain: if a main chain m links up to     *)
(* that hash, its block of a stored id has that id, and any chain that     *)
(* verifies and has the digest in that block is the stored one.            *)
(***************************************************************************)
HistoryBound ==
  \A m : /\ IsChain(m)
         /\ Linked(m, MainLimit.time_gap)
         /\ Len(m) = Len(main)
         /\ last_block_ref(m).hash = last_block_ref(main).hash
         => \A id \in DOMAIN sides :
              /\ id \in 2 .. Len(m)
              /\ m[id].digest_id = id
              /\ \A c : /\ IsChain(c)
                        /\ chain_verify(c, SideLimit.time_gap)
                        /\ digest_of(c) = m[id].body
                        => SameChain(c, sides[id])

(***************************************************************************)
(* The first block of the main chain stays the genesis block, which        *)
(* digests no chain: its length is 1, and chain_verify wants 2 blocks.     *)
(***************************************************************************)
GenesisFirst == main[1].body = [merkle_root |-> ZERO_HASH, length |-> 1]

LEMMA GenesisAlways == Spec => []GenesisFirst
<1>1. Init => GenesisFirst
  <2> SUFFICES ASSUME Init PROVE GenesisFirst
    OBVIOUS
  <2>1. PICK now \in Timestamp : main = << genesis_digest(1, now) >>
    BY DEF Init
  <2>2. genesis_digest(1, now).body = [merkle_root |-> ZERO_HASH, length |-> 1]
    BY CreateDigestFacts DEF genesis_digest
  <2> QED
    BY <2>1, <2>2 DEF GenesisFirst
<1>2. LedgerInv /\ GenesisFirst /\ [Next]_vars => GenesisFirst'
  <2> SUFFICES ASSUME LedgerInv, GenesisFirst, [Next]_vars PROVE GenesisFirst'
    OBVIOUS
  <2>1. main'[1] = main[1]
    BY AppendStep, MainNotEmpty DEF LedgerInv
  <2> QED
    BY <2>1 DEF GenesisFirst
<1> QED
  BY <1>1, <1>2, LedgerInvAlways, PTL DEF Spec

(***************************************************************************)
(* For a hash without collisions the history is tamper evident as a whole: *)
(* one hash vouches for all side chains, whatever chains were added.       *)
(***************************************************************************)
THEOREM HistoryBoundAlways ==
  ASSUME HashInjective
  PROVE  Spec => []HistoryBound
<1>1. LedgerInv /\ MainLinked /\ GenesisFirst => HistoryBound
  <2> SUFFICES ASSUME LedgerInv, MainLinked, GenesisFirst,
                      NEW m, IsChain(m), Linked(m, MainLimit.time_gap),
                      Len(m) = Len(main),
                      last_block_ref(m).hash = last_block_ref(main).hash,
                      NEW id \in DOMAIN sides
               PROVE  /\ id \in 2 .. Len(m)
                      /\ m[id].digest_id = id
                      /\ \A c : /\ IsChain(c)
                                /\ chain_verify(c, SideLimit.time_gap)
                                /\ digest_of(c) = m[id].body
                                => SameChain(c, sides[id])
    BY DEF HistoryBound
  <2> DEFINE n == Len(main)
             s == sides[id]
  <2>1. n \in Nat /\ IsChain(main) /\ IsChain(s)
    BY MainNotEmpty DEF LedgerInv, TypeOK
  <2>2. /\ id \in 1 .. n /\ main[id].digest_id = id
        /\ main[id].body = digest_of(s) /\ chain_verify(s, SideLimit.time_gap)
    BY DEF LedgerInv, MainIndexed, SidesDigested
  <2>3. id # 1
    <3>1. main[id].body.length = Len(s) /\ Len(s) > 1 /\ Len(s) \in Nat
      BY <2>1, <2>2, ChainFacts DEF digest_of, chain_verify
    <3>2. main[1].body.length = 1
      BY DEF GenesisFirst
    <3> QED
      BY <3>1, <3>2
  <2>4. id \in 2 .. n /\ n > 1
    BY <2>1, <2>2, <2>3
  <2>5. m[id] = main[id]
    <3>1. m[n].hash = main[n].hash
      BY DEF last_block_ref
    <3>2. \A i \in 2 .. n : m[i] = main[i]
      <4> HIDE DEF n
      <4>1. n <= Len(m) /\ n <= Len(main)
        BY <2>1 DEF n
      <4> QED
        BY <2>1, <2>4, <3>1, <4>1, HashBindsChain DEF MainLinked
    <3> QED
      BY <2>4, <3>2
  <2>6. ASSUME NEW c, IsChain(c), chain_verify(c, SideLimit.time_gap),
               digest_of(c) = m[id].body
        PROVE  SameChain(c, s)
    BY <2>1, <2>2, <2>5, <2>6, DigestBindsChain
  <2> QED
    BY <2>2, <2>4, <2>5, <2>6
<1> QED
  BY <1>1, LedgerInvAlways, MainLinkedAlways, GenesisAlways, PTL
=============================================================================
