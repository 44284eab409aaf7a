--------------------------- MODULE BlockChain_proofs -------------------------
(***************************************************************************)
(* What holds of BlockChain for every hash function, limit, clock and set  *)
(* of offered blocks; and of the loop that hashes the blocks of a chain    *)
(* into the root of its tree, MerkleLoop.                                  *)
(***************************************************************************)
EXTENDS BlockChain, MerkleLoop, Chains_proofs, SequenceTheorems

(***************************************************************************)
(* Whatever a caller offers is a block.                                    *)
(***************************************************************************)
LEMMA OfferedFacts ==
  ASSUME NEW b \in Offered
  PROVE  IsBlock(b)
<1> DEFINE prevs == {ZERO_HASH} \cup HashesOf(blocks)
           created == {create_data(p, d, id, x, now) : p \in prevs, d \in Data,
                         id \in DigestIds, x \in Indices, now \in Timestamp}
<1>1. PICK c \in created : b = c \/ b = [c EXCEPT !.hash = ZERO_HASH]
  BY DEF Offered
<1>2. PICK p \in prevs, d \in Data, id \in DigestIds, x \in Indices, now \in Timestamp :
        c = create_data(p, d, id, x, now)
  OBVIOUS
<1>3. IsBlock(c)
  BY <1>2, CreateFacts, IdsAssumption
<1> QED
  BY <1>1, <1>3 DEF IsBlock

(***************************************************************************)
(* Whatever is written into a block of a chain, it stays a block.          *)
(***************************************************************************)
LEMMA WrittenFacts ==
  ASSUME TypeOK, NEW i \in 1 .. Len(blocks), NEW b \in Written(i)
  PROVE  IsBlock(b)
<1>1. IsBlock(blocks[i]) /\ DigestIds \in SUBSET Nat /\ Indices \in SUBSET Nat
  BY ChainFacts, IdsAssumption DEF TypeOK
<1> QED
  BY <1>1, RewrittenFacts DEF Written

-----------------------------------------------------------------------------
(***************************************************************************)
(* Type correctness: whatever is offered, decoded or overwritten, a chain  *)
(* stays a sequence of blocks (chain.rs:275).                              *)
(***************************************************************************)
THEOREM TypeCorrect == Spec => []TypeOK
<1>1. Init => TypeOK
  <2> SUFFICES ASSUME Init PROVE TypeOK
    OBVIOUS
  <2>1. IsChain(<< >>)
    BY DEF IsChain
  <2>2. ASSUME NEW digest_id \in DigestIds, NEW now \in Timestamp
        PROVE  IsChain(<< genesis_data(digest_id, now) >>)
    <3>1. IsBlock(genesis_data(digest_id, now))
      BY CreateFacts, IdsAssumption DEF genesis_data
    <3> QED
      BY <3>1 DEF IsChain
  <2>3. limit \in Limit /\ writes \in 0 .. WriteBound
    BY LimitsAssumption, WriteBoundAssumption DEF Init
  <2> QED
    BY <2>1, <2>2, <2>3 DEF Init, TypeOK
<1>2. TypeOK /\ [Next]_vars => TypeOK'
  <2> SUFFICES ASSUME TypeOK, [Next]_vars PROVE TypeOK'
    OBVIOUS
  <2>1. ASSUME NEW b \in Offered, Add(b) PROVE TypeOK'
    BY <2>1, OfferedFacts, AppendFacts DEF TypeOK, Add
  <2>2. ASSUME NEW i \in 1 .. Len(blocks), NEW b \in Written(i), Overwrite(i, b)
        PROVE  TypeOK'
    <3>1. IsChain(blocks')
      BY <2>2, WrittenFacts, OverwriteFacts DEF Overwrite, TypeOK
    <3>2. writes' \in 0 .. WriteBound
      BY <2>2, WriteBoundAssumption DEF Overwrite, TypeOK
    <3> QED
      BY <2>2, <3>1, <3>2 DEF TypeOK, Overwrite
  <2>3. CASE Publish
    BY <2>3 DEF TypeOK, Publish
  <2>4. CASE UNCHANGED vars
    BY <2>4 DEF TypeOK, vars
  <2> QED
    BY <2>1, <2>2, <2>3, <2>4 DEF Next, AddRefused
<1> QED
  BY <1>1, <1>2, PTL DEF Spec

-----------------------------------------------------------------------------
(***************************************************************************)
(* What add has built verifies (AddKeepsLinked).                           *)
(***************************************************************************)
THEOREM LinkedAlways == Spec => []AddKeepsLinked
<1>1. Init => AddKeepsLinked
  <2> SUFFICES ASSUME Init PROVE Linked(blocks, limit.time_gap)
    BY DEF AddKeepsLinked
  <2>1. Len(blocks) \in {0, 1}
    BY DEF Init
  <2> QED
    BY <2>1 DEF Linked
<1>2. TypeOK /\ AddKeepsLinked /\ [Next]_vars => AddKeepsLinked'
  <2> SUFFICES ASSUME TypeOK, AddKeepsLinked, [Next]_vars PROVE AddKeepsLinked'
    OBVIOUS
  <2>1. ASSUME NEW b \in Offered, Add(b) PROVE AddKeepsLinked'
    BY <2>1, AppendLinked, OfferedFacts DEF TypeOK, AddKeepsLinked, Add, pristine
  <2>2. ASSUME NEW i \in 1 .. Len(blocks), NEW b \in Written(i), Overwrite(i, b)
        PROVE  AddKeepsLinked'
    <3>1. writes' # 0
      BY <2>2 DEF Overwrite, TypeOK
    <3> QED
      BY <3>1 DEF AddKeepsLinked, pristine
  <2>3. CASE Publish
    BY <2>3 DEF AddKeepsLinked, Publish, pristine
  <2>4. CASE UNCHANGED vars
    BY <2>4 DEF AddKeepsLinked, vars, pristine
  <2> QED
    BY <2>1, <2>2, <2>3, <2>4 DEF Next, AddRefused
<1> QED
  BY <1>1, <1>2, TypeCorrect, PTL DEF Spec

(***************************************************************************)
(* The window of a linked chain bounds the distance of any two blocks, for *)
(* every time_gap, the ones that overflow u64 included (WindowBound).      *)
(***************************************************************************)
THEOREM WindowAlways == Spec => []WindowBound
<1>1. TypeOK /\ AddKeepsLinked => WindowBound
  <2> SUFFICES ASSUME TypeOK, AddKeepsLinked, pristine,
                      NEW i \in 1 .. Len(blocks), NEW j \in 1 .. Len(blocks)
               PROVE  /\ blocks[i].timestamp <= blocks[j].timestamp + limit.time_gap
                      /\ blocks[i].timestamp >= blocks[1].timestamp
    BY DEF WindowBound
  <2> DEFINE ts(k) == blocks[k].timestamp
  <2>1. /\ Len(blocks) \in Nat
        /\ \A k \in 1 .. Len(blocks) : ts(k) \in Nat /\ ts(k) < TimeSpace
        /\ limit.time_gap \in Nat /\ limit.time_gap < TimeSpace
        /\ TimeSpace \in Nat
    BY ChainFacts, TimeSpaceAssumption DEF TypeOK, Limit, Timestamp
  <2>2. ASSUME NEW k \in 1 .. Len(blocks)
        PROVE  ts(1) <= ts(k) /\ ts(k) <= ts(1) + limit.time_gap
    <3>1. CASE k = 1
      BY <2>1, <3>1
    <3>2. CASE k # 1
      <4>1. /\ ts(k) >= ts(1)
            /\ ts(k) <= TimeEnd(ts(1), limit.time_gap)
        BY <2>1, <3>2 DEF AddKeepsLinked, Linked, verify, time_verify, origin
      <4>2. 1 \in 1 .. Len(blocks)
        BY <2>1
      <4> QED
        BY <2>1, <4>1, <4>2 DEF TimeEnd
    <3> QED
      BY <3>1, <3>2
  <2> HIDE DEF ts
  <2>3. /\ ts(i) <= ts(1) + limit.time_gap /\ ts(1) <= ts(j) /\ ts(1) <= ts(i)
        /\ ts(i) \in Nat /\ ts(j) \in Nat /\ ts(1) \in Nat
    BY <2>1, <2>2
  <2>4. ts(i) <= ts(j) + limit.time_gap /\ ts(i) >= ts(1)
    BY <2>1, <2>3
  <2> QED
    BY <2>4 DEF ts
<1> QED
  BY <1>1, TypeCorrect, LinkedAlways, PTL

(***************************************************************************)
(* No chain grows past its limit, tampered with or not (LengthBound).      *)
(***************************************************************************)
THEOREM LengthAlways == Spec => []LengthBound
<1>1. Init => LengthBound
  <2> SUFFICES ASSUME Init PROVE LengthBound
    OBVIOUS
  <2> DEFINE n == Len(blocks)
  <2>1. n \in {0, 1}
    BY DEF Init
  <2>2. ~ (n > 1)
    <3> HIDE DEF n
    <3> QED
      BY <2>1
  <2> QED
    BY <2>2 DEF LengthBound
<1>2. TypeOK /\ LengthBound /\ [Next]_vars => LengthBound'
  <2> SUFFICES ASSUME TypeOK, LengthBound, [Next]_vars PROVE LengthBound'
    OBVIOUS
  <2>1. ASSUME NEW b \in Offered, Add(b) PROVE LengthBound'
    <3>1. Len(blocks') = Len(blocks) + 1 /\ Len(blocks) \in Nat
      BY <2>1, AppendFacts, ChainFacts, OfferedFacts DEF TypeOK, Add
    <3>2. blocks # << >> => Len(blocks) < limit.max_len
      BY <2>1, <3>1 DEF Add, accepts, is_full, TypeOK, Limit
    <3> QED
      BY <2>1, <3>1, <3>2 DEF LengthBound, Add, TypeOK, Limit
  <2>2. ASSUME NEW i \in 1 .. Len(blocks), NEW b \in Written(i), Overwrite(i, b)
        PROVE  LengthBound'
    <3>1. Len(blocks') = Len(blocks)
      BY <2>2 DEF Overwrite, TypeOK, IsChain
    <3> QED
      BY <2>2, <3>1 DEF LengthBound, Overwrite
  <2>3. CASE Publish
    BY <2>3 DEF LengthBound, Publish
  <2>4. CASE UNCHANGED vars
    BY <2>4 DEF LengthBound, vars
  <2> QED
    BY <2>1, <2>2, <2>3, <2>4 DEF Next, AddRefused
<1> QED
  BY <1>1, <1>2, TypeCorrect, PTL DEF Spec

(***************************************************************************)
(* A chain is well formed and within its limit, whatever was offered.      *)
(***************************************************************************)
THEOREM BoundedAlways == Spec => []Bounded
BY TypeCorrect, LengthAlways, PTL DEF Bounded
-----------------------------------------------------------------------------
(***************************************************************************)
(* What TamperEvident lacks to be inductive: the copy that was kept is     *)
(* linked, in the window of the chain.                                     *)
(***************************************************************************)
PublishedLinked == Linked(published, limit.time_gap)

(***************************************************************************)
(* What was published is linked: the part of the invariant that a digest   *)
(* counts on.                                                              *)
(***************************************************************************)
LEMMA PublishedLinkedAlways == Spec => []PublishedLinked
<1>1. Init => PublishedLinked
  <2> SUFFICES ASSUME Init PROVE Linked(<< >>, limit.time_gap)
    BY DEF Init, PublishedLinked
  <2> QED
    BY DEF Linked
<1>2. PublishedLinked /\ [Next]_vars => PublishedLinked'
  <2> SUFFICES ASSUME PublishedLinked, [Next]_vars PROVE PublishedLinked'
    OBVIOUS
  <2>1. CASE Publish
    BY <2>1 DEF Publish, PublishedLinked, chain_verify
  <2>2. CASE published' = published /\ limit' = limit
    BY <2>2 DEF PublishedLinked
  <2> QED
    BY <2>1, <2>2 DEF Next, Add, AddRefused, Overwrite, vars
<1> QED
  BY <1>1, <1>2, PTL DEF Spec

(***************************************************************************)
(* Tampering shows, for chains of every length and any number of writes:   *)
(* if SHA-256 has no collisions, a chain that verifies and carries the     *)
(* published last hash has the published blocks (chain.rs:68, 384).        *)
(***************************************************************************)
THEOREM TamperEvidentAlways ==
  ASSUME HashInjective
  PROVE  Spec => []TamperEvident
<1>1. TypeOK /\ PublishedLinked => TamperEvident
  <2> DEFINE n == Len(published)
  <2> SUFFICES ASSUME TypeOK, PublishedLinked, n > 1, Len(blocks) >= n,
                      chain_verify(blocks, limit.time_gap),
                      blocks[n].hash = published[n].hash
               PROVE  /\ blocks[1].hash = published[1].hash
                      /\ \A i \in 2 .. n : blocks[i] = published[i]
    BY DEF TamperEvident
  <2>1. n \in Nat /\ IsChain(blocks) /\ IsChain(published) /\ n <= Len(published)
    BY ChainFacts DEF TypeOK
  <2>2. Linked(blocks, limit.time_gap) /\ Linked(published, limit.time_gap)
    BY DEF chain_verify, PublishedLinked
  <2>3. n <= Len(blocks)
    BY <2>1, ChainFacts
  <2> QED
    <3> HIDE DEF n
    <3> QED
      BY <2>1, <2>2, <2>3, HashBindsChain
<1> QED
  BY <1>1, TypeCorrect, PublishedLinkedAlways, PTL
-----------------------------------------------------------------------------
(***************************************************************************)
(* On a chain with consecutive indices, a range that meets the chain ends  *)
(* in a segment of it: the positions a to z, whose blocks are those with   *)
(* an index in the range.                                                  *)
(***************************************************************************)
LEMMA SelectsSegment ==
  ASSUME NEW s, IsChain(s), NEW gap, chain_verify(s, gap),
         \A i \in 1 .. Len(s) : s[i].index = s[1].index + i - 1,
         NEW start \in Nat, NEW end \in Nat, start <= end,
         start <= last_block_ref(s).index, end >= s[1].index
  PROVE  \E a, z \in 1 .. Len(s) :
           /\ a <= z
           /\ index_select(s, gap, start, end) = SelectResult("ok", SubSeq(s, a, z))
           /\ \A k \in 1 .. Len(s) : s[k].index \in start .. end <=> k \in a .. z
<1> DEFINE n     == Len(s)
           first == s[1].index
           last  == last_block_ref(s).index
           low   == IF first >= start THEN first ELSE start
           high  == IF last <= end THEN last ELSE end
           a     == low - first + 1
           z     == low - first + segment_len(low, high)
<1>1. n \in Nat /\ n > 1
  BY ChainFacts DEF chain_verify
<1>2. first \in Nat /\ last = first + n - 1
  <2>1. 1 \in 1 .. n /\ n \in 1 .. n
    BY <1>1
  <2> QED
    BY <2>1, ChainFacts DEF last_block_ref
<1>3. /\ low \in Nat /\ high \in Nat /\ low <= high
      /\ first <= low /\ high <= first + n - 1
  <2> HIDE DEF first, n, last
  <2> QED
    BY <1>1, <1>2 DEF first, last
<1>4. z = high - first + 1
  <2> HIDE DEF first, low, high
  <2> QED
    BY <1>2, <1>3 DEF segment_len
<1>5. a \in 1 .. n /\ z \in 1 .. n /\ a <= z
  <2> HIDE DEF first, low, high, n
  <2> QED
    BY <1>1, <1>2, <1>3, <1>4
<1>6. index_select(s, gap, start, end) = SelectResult("ok", SubSeq(s, a, z))
  <2>1. ~ (start > end) /\ ~ (high < low) /\ ~ (z > n)
    <3> HIDE DEF low, high, z, n
    <3> QED
      BY <1>1, <1>3, <1>5
  <2>2. ~ ((low - first) + segment_len(low, high) > Len(s))
    BY <2>1
  <2> QED
    BY <2>1, <2>2 DEF index_select
<1>7. ASSUME NEW k \in 1 .. n
      PROVE  s[k].index \in start .. end <=> k \in a .. z
  <2>1. s[k].index = first + k - 1
    OBVIOUS
  <2>2. /\ low <= first + k - 1 <=> start <= first + k - 1
        /\ first + k - 1 <= high <=> first + k - 1 <= end
    <3> HIDE DEF first, last, n
    <3> QED
      BY <1>1, <1>2
  <2>3. k \in a .. z <=> low <= first + k - 1 /\ first + k - 1 <= high
    <3> HIDE DEF first, low, high, n, z
    <3> QED
      BY <1>1, <1>2, <1>3, <1>4
  <2> QED
    <3> HIDE DEF first, low, high, a, z, n
    <3> QED
      BY <1>1, <1>2, <2>1, <2>2, <2>3
<1> QED
  <2> HIDE DEF a, z
  <2> QED
    BY <1>5, <1>6, <1>7

(***************************************************************************)
(* Selections by index return the right blocks, in order, for chains and   *)
(* ranges of every length (chain.rs:486).                                  *)
(***************************************************************************)
THEOREM SelectOrderedAlways == Spec => []SelectOrdered
<1>1. TypeOK => SelectOrdered
  <2> SUFFICES ASSUME TypeOK, chain_verify(blocks, limit.time_gap), Ordered,
                      NEW start \in 0 .. last_block_ref(blocks).index + 1,
                      NEW end \in 0 .. last_block_ref(blocks).index + 1,
                      start <= end, start <= last_block_ref(blocks).index,
                      end >= blocks[1].index
               PROVE  LET selected == index_select(blocks, limit.time_gap, start, end)
                          segment  == selected.segment
                      IN  /\ selected.outcome = "ok"
                          /\ BlocksOf(segment)
                               = {b \in BlocksOf(blocks) : b.index \in start .. end}
                          /\ \A i \in 1 .. Len(segment) :
                               segment[i].index = segment[1].index + i - 1
    BY DEF SelectOrdered
  <2> DEFINE n == Len(blocks)
  <2>1. IsChain(blocks) /\ n \in Nat
    BY ChainFacts DEF TypeOK
  <2>2. start \in Nat /\ end \in Nat
    OBVIOUS
  <2>3. PICK a, z \in 1 .. n :
          /\ a <= z
          /\ index_select(blocks, limit.time_gap, start, end)
               = SelectResult("ok", SubSeq(blocks, a, z))
          /\ \A k \in 1 .. n : blocks[k].index \in start .. end <=> k \in a .. z
    BY <2>1, <2>2, SelectsSegment DEF Ordered
  <2> DEFINE segment == SubSeq(blocks, a, z)
             m == z - a + 1
  <2>4. m \in Nat /\ m >= 1
    BY <2>1, <2>3
  <2>5. Len(segment) = m /\ \A i \in 1 .. m : segment[i] = blocks[a + i - 1]
    <3>1. \A i \in a .. z : blocks[i] \in BlocksOf(blocks)
      BY <2>1, <2>3 DEF BlocksOf
    <3> QED
      BY <3>1, <2>1, <2>3, SubSeqProperties
  <2>6. \A i \in 1 .. m : a + i - 1 \in a .. z /\ a + i - 1 \in 1 .. n
    BY <2>1, <2>3
  <2>7. \A k \in a .. z : k - a + 1 \in 1 .. m /\ a + (k - a + 1) - 1 = k
    BY <2>1, <2>3
  <2> HIDE DEF segment, m, n
  <2>8. BlocksOf(segment) = {b \in BlocksOf(blocks) : b.index \in start .. end}
    <3>1. ASSUME NEW i \in 1 .. m
          PROVE  /\ segment[i] \in BlocksOf(blocks)
                 /\ segment[i].index \in start .. end
      BY <2>3, <2>5, <2>6 DEF BlocksOf, n
    <3>2. ASSUME NEW k \in 1 .. n, blocks[k].index \in start .. end
          PROVE  blocks[k] \in BlocksOf(segment)
      <4>1. k \in a .. z
        BY <2>3, <3>2
      <4>2. segment[k - a + 1] = blocks[k]
        BY <2>5, <2>7, <4>1
      <4> QED
        BY <2>5, <2>7, <4>1, <4>2 DEF BlocksOf
    <3> QED
      BY <2>5, <3>1, <3>2 DEF BlocksOf, n
  <2>9. ASSUME NEW i \in 1 .. m
        PROVE  segment[i].index = segment[1].index + i - 1
    <3> DEFINE first == blocks[1].index
    <3>1. 1 \in 1 .. m /\ 1 \in 1 .. n /\ first \in Nat
      BY <2>1, <2>3, <2>4, ChainFacts DEF n
    <3>2. /\ segment[i].index = first + (a + i - 1) - 1
          /\ segment[1].index = first + (a + 1 - 1) - 1
      BY <2>5, <2>6, <3>1 DEF Ordered, n
    <3> HIDE DEF first
    <3> QED
      BY <3>1, <3>2, <2>1, <2>3, <2>4
  <2> QED
    BY <2>3, <2>5, <2>8, <2>9 DEF SelectResult, segment
<1> QED
  BY <1>1, TypeCorrect, PTL

-----------------------------------------------------------------------------
(***************************************************************************)
(* merkle_root, a loop over a vector of hashes, on a state of its own.     *)
(***************************************************************************)
(***************************************************************************)
(* The two runs keep sequences of the same length, never empty: the loop   *)
(* of hash.rs:81 is entered with at least one hash and no round loses the  *)
(* last one.                                                               *)
(***************************************************************************)
THEOREM LoopTypeCorrect == LoopSpec => []LoopTypeOK
<1>1. LoopInit => LoopTypeOK
  <2> SUFFICES ASSUME LoopInit PROVE LoopTypeOK
    OBVIOUS
  <2>1. PICK n \in 1 .. MaxLen : hashes \in [Run -> [1 .. n -> Leaf]]
    BY DEF LoopInit
  <2>2. ASSUME NEW r \in Run
        PROVE  IsHashes(hashes[r]) /\ Len(hashes[r]) = n
    <3>1. hashes[r] = [i \in 1 .. n |-> hashes[r][i]]
      BY <2>1
    <3>2. n \in Nat
      BY MaxLenAssumption
    <3> QED
      BY <3>1, <3>2, FunctionIsHashes
  <2>3. \A r \in Run : IsHashes(hashes[r]) /\ Len(hashes[r]) = n
    BY <2>2
  <2>4. hashes \in [Run -> {hashes[r] : r \in Run}]
    BY <2>1
  <2> QED
    BY <2>3, <2>4 DEF LoopInit, LoopTypeOK, Run
<1>2. LoopTypeOK /\ [LoopNext]_loopVars => LoopTypeOK'
  <2> SUFFICES ASSUME LoopTypeOK, [LoopNext]_loopVars PROVE LoopTypeOK'
    OBVIOUS
  <2>1. CASE Round
    <3>1. current' = [r \in Run |-> hash_neighbor(current[r])]
      BY <2>1 DEF Round
    <3>2. \A r \in Run : IsHashes(current'[r])
                         /\ Len(current'[r]) = (Len(current[r]) + 1) \div 2
      BY <3>1, NeighborFacts DEF LoopTypeOK
    <3>3. Len(current'[1]) = Len(current'[2]) /\ Len(current'[1]) > 0
      <4> DEFINE k == Len(current[1])
      <4>1. k \in Nat /\ k > 0
        BY NeighborFacts DEF LoopTypeOK, Run
      <4>2. (k + 1) \div 2 > 0
        <5> HIDE DEF k
        <5> QED
          BY <4>1
      <4> QED
        BY <3>2, <4>2 DEF LoopTypeOK, Run
    <3>4. current' \in [Run -> {current'[r] : r \in Run}]
      BY <3>1
    <3>5. hashes' = hashes /\ rounds' \in Nat
      BY <2>1 DEF Round, LoopTypeOK
    <3>6. /\ hashes' \in [Run -> {hashes'[r] : r \in Run}]
          /\ \A r \in Run : IsHashes(hashes'[r])
      BY <3>5 DEF LoopTypeOK
    <3> QED
      BY <3>2, <3>3, <3>4, <3>5, <3>6 DEF LoopTypeOK
  <2>2. CASE UNCHANGED loopVars
    BY <2>2 DEF LoopTypeOK, loopVars
  <2> QED
    BY <2>1, <2>2 DEF LoopNext
<1> QED
  BY <1>1, <1>2, PTL DEF LoopSpec

(***************************************************************************)
(* How many leaves a digest of a level stands for: twice as many as one of *)
(* the level below.                                                        *)
(***************************************************************************)
IsCovered(f, n) == f = [k \in 0 .. n |-> IF k = 0 THEN 1 ELSE 2 * f[k - 1]]

LEMMA CoveredExists ==
  ASSUME NEW n \in Nat
  PROVE  \E f : IsCovered(f, n)
<1> DEFINE G == {m \in Nat : \E f : IsCovered(f, m)}
<1>1. 0 \in G
  <2> DEFINE h == [k \in 0 .. 0 |-> 1]
  <2>1. h = [k \in 0 .. 0 |-> IF k = 0 THEN 1 ELSE 2 * h[k - 1]]
    OBVIOUS
  <2> HIDE DEF h
  <2>2. IsCovered(h, 0)
    BY <2>1 DEF IsCovered
  <2> QED
    BY <2>2
<1>2. ASSUME NEW m \in Nat, m \in G PROVE m + 1 \in G
  <2>1. PICK f : IsCovered(f, m)
    BY <1>2
  <2> DEFINE h == [k \in 0 .. m + 1 |-> IF k <= m THEN f[k] ELSE 2 * f[k - 1]]
  <2>2. ASSUME NEW k \in 0 .. m + 1
        PROVE  h[k] = IF k = 0 THEN 1 ELSE 2 * h[k - 1]
    <3>1. h[k] = IF k = 0 THEN 1 ELSE 2 * f[k - 1]
      BY <2>1 DEF IsCovered
    <3>2. k # 0 => k - 1 \in 0 .. m + 1 /\ k - 1 <= m
      OBVIOUS
    <3>3. k # 0 => h[k - 1] = f[k - 1]
      BY <3>2
    <3> HIDE DEF h
    <3> QED
      BY <3>1, <3>3
  <2>3. h = [k \in 0 .. m + 1 |-> h[k]]
    OBVIOUS
  <2> HIDE DEF h
  <2>4. IsCovered(h, m + 1)
    BY <2>2, <2>3 DEF IsCovered
  <2> QED
    BY <2>4
<1>3. n \in G
  <2> HIDE DEF G
  <2> QED
    BY <1>1, <1>2, UpInduction
<1> QED
  BY <1>3

LEMMA CoveredAgree ==
  ASSUME NEW n \in Nat, NEW m \in Nat, n <= m,
         NEW f, NEW g, IsCovered(f, n), IsCovered(g, m)
  PROVE  f[n] = g[n] /\ f[n] \in Nat /\ f[n] > 0
<1> DEFINE Good(k) == f[k] = g[k] /\ f[k] \in Nat /\ f[k] > 0
           G == {k \in Nat : k <= n => Good(k)}
<1>1. 0 \in G
  BY DEF IsCovered
<1>2. ASSUME NEW k \in Nat, k \in G PROVE k + 1 \in G
  <2> SUFFICES ASSUME k + 1 <= n PROVE Good(k + 1)
    OBVIOUS
  <2>1. /\ k + 1 \in 0 .. n /\ k + 1 \in 0 .. m /\ k + 1 # 0
        /\ (k + 1) - 1 = k /\ k <= n
    OBVIOUS
  <2>2. f[k + 1] = 2 * f[k] /\ g[k + 1] = 2 * g[k]
    BY <2>1 DEF IsCovered
  <2> QED
    BY <1>2, <2>1, <2>2
<1>3. n \in G
  <2> HIDE DEF G
  <2> QED
    BY <1>1, <1>2, UpInduction
<1> QED
  BY <1>3

LEMMA CoveredFacts ==
  ASSUME NEW n \in Nat
  PROVE  /\ Covered(0) = 1
         /\ Covered(n) \in Nat /\ Covered(n) > 0
         /\ Covered(n + 1) = 2 * Covered(n)
<1>1. ASSUME NEW m \in Nat
      PROVE  \E f : IsCovered(f, m) /\ Covered(m) = f[m]
  <2> DEFINE f == CHOOSE f : IsCovered(f, m)
  <2>1. IsCovered(f, m)
    BY CoveredExists, Zenon
  <2>2. Covered(m) = f[m]
    BY DEF Covered, IsCovered
  <2> HIDE DEF f
  <2> QED
    BY <2>1, <2>2
<1>2. Covered(0) = 1
  <2>1. PICK f : IsCovered(f, 0) /\ Covered(0) = f[0]
    BY <1>1
  <2> QED
    BY <2>1 DEF IsCovered
<1>3. PICK f : IsCovered(f, n) /\ Covered(n) = f[n]
  BY <1>1
<1>4. PICK g : IsCovered(g, n + 1) /\ Covered(n + 1) = g[n + 1]
  BY <1>1
<1>5. f[n] = g[n] /\ f[n] \in Nat /\ f[n] > 0
  BY <1>3, <1>4, CoveredAgree
<1>6. g[n + 1] = 2 * g[n]
  <2>1. n + 1 \in 0 .. n + 1 /\ n + 1 # 0 /\ (n + 1) - 1 = n
    OBVIOUS
  <2> QED
    BY <1>4, <2>1 DEF IsCovered
<1> QED
  BY <1>2, <1>3, <1>4, <1>5, <1>6

(***************************************************************************)
(* A level has half the digests of the level below, rounded up.            *)
(***************************************************************************)
LEMMA CeilingHalved ==
  ASSUME NEW p \in Nat, p > 0, NEW a \in Nat
  PROVE  /\ (a + p - 1) \div p \in Nat
         /\ ((a + p - 1) \div p + 1) \div 2 = (a + 2 * p - 1) \div (2 * p)
  OBVIOUS

LEMMA WidthFacts ==
  ASSUME NEW n \in Nat, NEW leaves \in Nat
  PROVE  /\ Width(0, leaves) = leaves
         /\ Width(n, leaves) \in Nat
         /\ Width(n + 1, leaves) = (Width(n, leaves) + 1) \div 2
<1>1. /\ Covered(0) = 1 /\ Covered(n) \in Nat /\ Covered(n) > 0
      /\ Covered(n + 1) = 2 * Covered(n)
  BY CoveredFacts
<1>2. Width(0, leaves) = leaves
  BY <1>1 DEF Width
<1> DEFINE p == Covered(n)
<1>3. Width(n, leaves) = (leaves + p - 1) \div p
  BY DEF Width
<1>4. Width(n + 1, leaves) = (leaves + 2 * p - 1) \div (2 * p)
  BY <1>1 DEF Width
<1>5. p \in Nat /\ p > 0
  BY <1>1
<1> HIDE DEF p
<1> QED
  BY <1>2, <1>3, <1>4, <1>5, CeilingHalved

(***************************************************************************)
(* A level of the tree is what a round makes of the level below.           *)
(***************************************************************************)
LevelOf(s, f, n) ==
  [i \in 1 .. Width(n, Len(s)) |->
     IF n = 0 THEN s[i]
     ELSE IF 2 * i <= Width(n - 1, Len(s))
          THEN Hash(<< f[n - 1][2 * i - 1], f[n - 1][2 * i] >>)
          ELSE Hash(<< f[n - 1][2 * i - 1] >>)]

IsTree(s, f, k) == f = [n \in 0 .. k |-> LevelOf(s, f, n)]

LEMMA TreeExists ==
  ASSUME NEW s, NEW k \in Nat
  PROVE  \E f : IsTree(s, f, k)
<1> DEFINE G == {m \in Nat : \E f : IsTree(s, f, m)}
<1>1. 0 \in G
  <2> DEFINE h == [n \in 0 .. 0 |-> LevelOf(s, s, 0)]
  <2>1. h[0] = LevelOf(s, h, 0)
    BY DEF LevelOf
  <2>2. h = [n \in 0 .. 0 |-> h[n]]
    OBVIOUS
  <2> HIDE DEF h
  <2>3. IsTree(s, h, 0)
    BY <2>1, <2>2 DEF IsTree
  <2> QED
    BY <2>3
<1>2. ASSUME NEW m \in Nat, m \in G PROVE m + 1 \in G
  <2>1. PICK f : IsTree(s, f, m)
    BY <1>2
  <2> DEFINE h == [n \in 0 .. m + 1 |-> IF n <= m THEN f[n] ELSE LevelOf(s, f, n)]
  <2>2. ASSUME NEW n \in 0 .. m + 1 PROVE h[n] = LevelOf(s, h, n)
    <3>1. h[n] = LevelOf(s, f, n)
      BY <2>1 DEF IsTree
    <3>2. n # 0 => n - 1 \in 0 .. m + 1 /\ n - 1 <= m
      OBVIOUS
    <3>3. n # 0 => h[n - 1] = f[n - 1]
      BY <3>2
    <3> HIDE DEF h
    <3>4. LevelOf(s, f, n) = LevelOf(s, h, n)
      BY <3>3 DEF LevelOf
    <3> QED
      BY <3>1, <3>4
  <2>3. h = [n \in 0 .. m + 1 |-> h[n]]
    OBVIOUS
  <2> HIDE DEF h
  <2>4. IsTree(s, h, m + 1)
    BY <2>2, <2>3 DEF IsTree
  <2> QED
    BY <2>4
<1>3. k \in G
  <2> HIDE DEF G
  <2> QED
    BY <1>1, <1>2, UpInduction
<1> QED
  BY <1>3

LEMMA TreeFacts ==
  ASSUME NEW s, IsHashes(s), NEW n \in Nat, n + 1 <= Len(s)
  PROVE  /\ Tree(s)[0] = s
         /\ Tree(s)[n + 1] = hash_neighbor(Tree(s)[n])
<1> DEFINE m == Len(s)
           f == CHOOSE f : IsTree(s, f, m)
           v == f[n]
<1>1. m \in Nat
  BY NeighborFacts
<1>2. IsTree(s, f, m)
  BY <1>1, TreeExists, Zenon
<1>3. Tree(s) = f
  BY DEF Tree, IsTree, LevelOf
<1> HIDE DEF f
<1>4. \A k \in 0 .. m : f[k] = LevelOf(s, f, k)
  BY <1>2 DEF IsTree
<1>5. f[0] = s
  <2>1. Width(0, m) = m
    BY <1>1, WidthFacts
  <2>2. f[0] = LevelOf(s, f, 0)
    BY <1>1, <1>4
  <2>3. f[0] = [i \in 1 .. m |-> s[i]]
    BY <2>1, <2>2 DEF LevelOf
  <2> QED
    BY <2>3 DEF IsHashes
<1>6. /\ n \in 0 .. m /\ n + 1 \in 0 .. m /\ n + 1 # 0 /\ (n + 1) - 1 = n
      /\ Width(n, m) \in Nat /\ Width(n + 1, m) = (Width(n, m) + 1) \div 2
  <2>1. n + 1 <= m
    OBVIOUS
  <2> HIDE DEF m
  <2>2. /\ n \in 0 .. m /\ n + 1 \in 0 .. m /\ n + 1 # 0 /\ (n + 1) - 1 = n
    BY ONLY <1>1, <2>1
  <2> QED
    BY <1>1, <2>2, WidthFacts
<1>7. Len(v) = Width(n, m)
  <2>1. v = LevelOf(s, f, n)
    BY <1>4, <1>6
  <2>2. v = [i \in 1 .. Width(n, m) |-> v[i]]
    BY <2>1 DEF LevelOf
  <2> HIDE DEF m, v
  <2> QED
    BY <1>6, <2>2, FunctionIsHashes
<1>8. f[n + 1] = [i \in 1 .. Width(n + 1, m) |->
                    IF 2 * i <= Width(n, m)
                    THEN Hash(<< v[2 * i - 1], v[2 * i] >>)
                    ELSE Hash(<< v[2 * i - 1] >>)]
  BY <1>4, <1>6 DEF LevelOf
<1> HIDE DEF v
<1>9. f[n + 1] = hash_neighbor(v)
  BY <1>6, <1>7, <1>8 DEF hash_neighbor
<1> QED
  BY <1>3, <1>5, <1>9 DEF v

(***************************************************************************)
(* The inductive invariant: a run holds the level of the tree that belongs *)
(* to its rounds, and what the rounds of merkle_root come to.              *)
(***************************************************************************)
OnLevel(s, v, n) ==
  /\ IsHashes(s) /\ Len(s) > 0
  /\ n \in 0 .. Len(s)
  /\ v = Tree(s)[n]
  /\ n > 0 => \A f : IsRounds(s, f, Len(s)) => v = f[n - 1]

LEMMA NextLevel ==
  ASSUME NEW s, NEW v, NEW n, OnLevel(s, v, n), ~ (n > 0 /\ Len(v) = 1)
  PROVE  OnLevel(s, hash_neighbor(v), n + 1)
<1> DEFINE m == Len(s)
<1>1. m \in Nat /\ m > 0 /\ n \in 0 .. m
  BY NeighborFacts DEF OnLevel
<1>2. n + 1 <= m
  <2>1. CASE n = 0
    BY <1>1, <2>1
  <2>2. CASE n # 0
    <3>1. PICK f : IsRounds(s, f, m)
      BY <1>1, RoundsExist
    <3>2. v = f[n - 1] /\ n - 1 \in 0 .. m
      BY <1>1, <2>2, <3>1 DEF OnLevel
    <3>3. Len(v) \in Nat /\ Len(v) > 0 /\ Len(v) + (n - 1) < m
      BY <1>1, <2>2, <3>1, <3>2, RoundsFacts DEF OnLevel
    <3>4. Len(v) # 1
      BY <1>1, <2>2
    <3> HIDE DEF m
    <3> QED
      BY ONLY <1>1, <3>3, <3>4
  <2> QED
    BY <2>1, <2>2
<1>3. hash_neighbor(v) = Tree(s)[n + 1]
  BY <1>1, <1>2, TreeFacts DEF OnLevel
<1>4. ASSUME NEW f, IsRounds(s, f, m)
      PROVE  hash_neighbor(v) = f[(n + 1) - 1]
  <2>1. f[n] = RoundOf(s, f, n) /\ (n + 1) - 1 = n
    BY <1>1, <1>4 DEF IsRounds
  <2>2. CASE n = 0
    BY <1>1, <1>2, <2>1, <2>2, TreeFacts DEF OnLevel, RoundOf
  <2>3. CASE n # 0
    <3>1. v = f[n - 1] /\ Len(v) # 1
      BY <1>1, <1>4, <2>3 DEF OnLevel
    <3> QED
      BY <2>1, <2>3, <3>1 DEF RoundOf
  <2> QED
    BY <2>2, <2>3
<1> QED
  BY <1>1, <1>2, <1>3, <1>4 DEF OnLevel

LEMMA LastLevel ==
  ASSUME NEW s, NEW v, NEW n, OnLevel(s, v, n), n > 0, Len(v) = 1
  PROVE  v[1] = merkle_root(s)
<1> DEFINE m == Len(s)
<1>1. m \in Nat /\ n \in 0 .. m /\ n - 1 \in 0 .. m
  BY NeighborFacts DEF OnLevel
<1>2. PICK f : IsRounds(s, f, m) /\ merkle_root(s) = f[m][1]
  BY RootUnfolds DEF OnLevel
<1>3. v = f[n - 1]
  BY <1>2 DEF OnLevel
<1>4. f[m] = f[n - 1]
  BY <1>1, <1>2, <1>3, RoundsStay
<1> QED
  BY <1>2, <1>3, <1>4

LEMMA LevelsAlways ==
  LoopSpec => [](LoopTypeOK /\ \A r \in Run : OnLevel(hashes[r], current[r], rounds))
<1> DEFINE J == \A r \in Run : OnLevel(hashes[r], current[r], rounds)
<1>1. LoopInit /\ LoopTypeOK => J
  <2> SUFFICES ASSUME LoopInit, LoopTypeOK, NEW r \in Run
               PROVE  OnLevel(hashes[r], current[r], rounds)
    OBVIOUS
  <2>1. /\ IsHashes(hashes[r]) /\ Len(hashes[r]) \in Nat /\ Len(hashes[r]) > 0
        /\ current[r] = hashes[r] /\ rounds = 0
    <3>1. current = hashes /\ rounds = 0 /\ IsHashes(hashes[r])
      BY DEF LoopInit, LoopTypeOK
    <3>2. Len(hashes[r]) > 0
      BY <3>1 DEF LoopTypeOK, Run
    <3> QED
      BY <3>1, <3>2, NeighborFacts
  <2>2. 0 + 1 <= Len(hashes[r])
    BY <2>1
  <2>3. Tree(hashes[r])[0] = hashes[r]
    BY <2>1, <2>2, TreeFacts
  <2> QED
    BY <2>1, <2>3 DEF OnLevel
<1>2. LoopTypeOK /\ J /\ [LoopNext]_loopVars => J'
  <2> SUFFICES ASSUME LoopTypeOK, J, [LoopNext]_loopVars, NEW r \in Run
               PROVE  OnLevel(hashes'[r], current'[r], rounds')
    OBVIOUS
  <2>1. CASE Round
    <3>1. /\ hashes'[r] = hashes[r] /\ current'[r] = hash_neighbor(current[r])
          /\ rounds' = rounds + 1
      BY <2>1 DEF Round
    <3>2. ~ (rounds > 0 /\ Len(current[r]) = 1)
      BY <2>1 DEF Round, Done, LoopTypeOK, Run
    <3>3. OnLevel(hashes[r], current[r], rounds)
      OBVIOUS
    <3> QED
      BY <3>1, <3>2, <3>3, NextLevel
  <2>2. CASE UNCHANGED loopVars
    BY <2>2 DEF loopVars
  <2> QED
    BY <2>1, <2>2 DEF LoopNext
<1> QED
  BY <1>1, <1>2, LoopTypeCorrect, PTL DEF LoopSpec

(***************************************************************************)
(* The loop computes the tree over the hashes of a chain of any length,    *)
(* level by level, and ends with the root that merkle_root, the function,  *)
(* gives (hash.rs:81-86).                                                  *)
(***************************************************************************)
THEOREM LoopInvAlways == LoopSpec => []LoopInv
<1> DEFINE J == \A r \in Run : OnLevel(hashes[r], current[r], rounds)
<1>1. LoopTypeOK /\ J => LoopInv
  <2> SUFFICES ASSUME LoopTypeOK, J PROVE LoopBuildsTree
    BY DEF LoopInv
  <2>1. ASSUME NEW r \in Run
        PROVE  /\ rounds <= Len(hashes[r])
               /\ current[r] = Tree(hashes[r])[rounds]
    <3>1. OnLevel(hashes[r], current[r], rounds)
      OBVIOUS
    <3> QED
      BY <3>1 DEF OnLevel
  <2>2. ASSUME Done, NEW r \in Run
        PROVE  current[r][1] = merkle_root(hashes[r])
    <3>1. OnLevel(hashes[r], current[r], rounds)
      OBVIOUS
    <3>2. rounds > 0 /\ Len(current[r]) = 1
      BY <2>2 DEF Done, LoopTypeOK, Run
    <3> QED
      BY <3>1, <3>2, LastLevel
  <2> QED
    BY <2>1, <2>2 DEF LoopBuildsTree
<1> QED
  BY <1>1, LevelsAlways, PTL

(***************************************************************************)
(* The inductive invariant: equal levels of the two trees have equal       *)
(* leaves.                                                                 *)
(***************************************************************************)
LevelsBind == current[1] = current[2] => hashes[1] = hashes[2]

(***************************************************************************)
(* If the hash has no collisions, equal roots of chains of equal length    *)
(* have equal block hashes.                                                *)
(***************************************************************************)
THEOREM RootBinds ==
  ASSUME HashInjective
  PROVE  LoopSpec => []RootBindsHashes
<1>1. LoopInit => LevelsBind
  BY DEF LoopInit, LevelsBind
<1>2. LoopTypeOK /\ LevelsBind /\ [LoopNext]_loopVars => LevelsBind'
  <2> SUFFICES ASSUME LoopTypeOK, LevelsBind, [LoopNext]_loopVars
      PROVE LevelsBind'
    OBVIOUS
  <2>1. CASE Round
    <3> SUFFICES ASSUME current'[1] = current'[2] PROVE hashes[1] = hashes[2]
      BY <2>1 DEF LevelsBind, Round
    <3>1. hash_neighbor(current[1]) = hash_neighbor(current[2])
      BY <2>1 DEF Round, Run
    <3>2. current[1] = current[2]
      BY <3>1, NeighborInjective DEF LoopTypeOK, Run
    <3> QED
      BY <3>2 DEF LevelsBind
  <2>2. CASE UNCHANGED loopVars
    BY <2>2 DEF LevelsBind, loopVars
  <2> QED
    BY <2>1, <2>2 DEF LoopNext
<1>3. LoopTypeOK /\ LevelsBind => RootBindsHashes
  <2> SUFFICES ASSUME LoopTypeOK, LevelsBind, Done, current[1][1] = current[2][1]
               PROVE  hashes[1] = hashes[2]
    BY DEF RootBindsHashes
  <2>1. /\ IsHashes(current[1]) /\ IsHashes(current[2])
        /\ Len(current[1]) = 1 /\ Len(current[2]) = 1
    BY DEF LoopTypeOK, Done, Run
  <2>2. current[1] = current[2]
    BY <2>1, HashesExtensional
  <2> QED
    BY <2>2 DEF LevelsBind
<1> QED
  BY <1>1, <1>2, <1>3, LoopTypeCorrect, PTL DEF LoopSpec
=============================================================================
