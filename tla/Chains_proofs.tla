---------------------------- MODULE Chains_proofs ----------------------------
(***************************************************************************)
(* Lemmas about hashes, blocks and chains, for the proofs of BlockChain    *)
(* and of ChainExecutor.                                                   *)
(***************************************************************************)
EXTENDS Chains, WellFoundedInduction, TLAPS

(***************************************************************************)
(* A sequence is a sequence over its own range, so IsChain needs no set of *)
(* hashes.                                                                 *)
(***************************************************************************)
LEMMA ChainOverBlocks ==
  ASSUME NEW S, NEW t \in Seq(S)
  PROVE  t \in Seq({t[j] : j \in DOMAIN t})
  OBVIOUS

(***************************************************************************)
(* What IsChain says, position by position.                                *)
(***************************************************************************)
LEMMA ChainFacts ==
  ASSUME NEW s, IsChain(s)
  PROVE  /\ Len(s) \in Nat
         /\ DOMAIN s = 1 .. Len(s)
         /\ \A i \in 1 .. Len(s) : IsBlock(s[i])
         /\ \A i \in 1 .. Len(s) :
              /\ s[i].timestamp \in Timestamp
              /\ s[i].digest_id \in Nat
              /\ s[i].index \in Nat
<1>1. Len(s) \in Nat /\ DOMAIN s = 1 .. Len(s) /\ \A i \in 1 .. Len(s) : IsBlock(s[i])
  BY DEF IsChain
<1>2. ASSUME NEW b, IsBlock(b)
      PROVE  b.timestamp \in Timestamp /\ b.digest_id \in Nat /\ b.index \in Nat
  BY <1>2 DEF IsBlock
<1> QED
  BY <1>1, <1>2

(***************************************************************************)
(* Whatever is written into the fields of a block, it stays a block.       *)
(***************************************************************************)
LEMMA RewrittenFacts ==
  ASSUME NEW b, IsBlock(b), NEW hs, NEW data, NEW ids \in SUBSET Nat,
         NEW indices \in SUBSET Nat, NEW r \in Rewritten(b, hs, data, ids, indices)
  PROVE  IsBlock(r)
<1> DEFINE edited == {[b EXCEPT !.body = d] : d \in data}
                       \cup {[b EXCEPT !.prev_hash = h] : h \in hs}
                       \cup {[b EXCEPT !.timestamp = t] : t \in Timestamp}
                       \cup {[b EXCEPT !.digest_id = id] : id \in ids}
                       \cup {[b EXCEPT !.index = x] : x \in indices}
<1>1. ASSUME NEW c \in edited
      PROVE  IsBlock(c)
  <2>1. CASE c \in {[b EXCEPT !.body = d] : d \in data}
    BY <2>1 DEF IsBlock
  <2>2. CASE c \in {[b EXCEPT !.prev_hash = h] : h \in hs}
    BY <2>2 DEF IsBlock
  <2>3. CASE c \in {[b EXCEPT !.timestamp = t] : t \in Timestamp}
    BY <2>3 DEF IsBlock
  <2>4. CASE c \in {[b EXCEPT !.digest_id = id] : id \in ids}
    BY <2>4 DEF IsBlock
  <2>5. CASE c \in {[b EXCEPT !.index = x] : x \in indices}
    BY <2>5 DEF IsBlock
  <2> QED
    BY <2>1, <2>2, <2>3, <2>4, <2>5
<1>2. ASSUME NEW c, IsBlock(c), NEW h
      PROVE  IsBlock([c EXCEPT !.hash = h])
  BY <1>2 DEF IsBlock
<1>3. \/ r \in edited
      \/ \E c \in edited : r = [c EXCEPT !.hash = hash_block(c)]
      \/ \E h \in hs : r = [b EXCEPT !.hash = h]
  BY DEF Rewritten
<1> QED
  <2> HIDE DEF edited
  <2> QED
    BY <1>1, <1>2, <1>3

(***************************************************************************)
(* Vec::push on the blocks of a chain.                                     *)
(***************************************************************************)
LEMMA AppendFacts ==
  ASSUME NEW s, IsChain(s), NEW b, IsBlock(b)
  PROVE  /\ IsChain(Append(s, b))
         /\ Len(Append(s, b)) = Len(s) + 1
         /\ \A i \in 1 .. Len(s) : Append(s, b)[i] = s[i]
         /\ Append(s, b)[Len(s) + 1] = b
<1> DEFINE S == {s[i] : i \in DOMAIN s}
           t == Append(s, b)
           T == {t[i] : i \in DOMAIN t}
<1>1. s \in Seq(S \cup {b})
  BY DEF IsChain
<1>2. /\ t \in Seq(S \cup {b})
      /\ Len(t) = Len(s) + 1
      /\ \A i \in 1 .. Len(s) : t[i] = s[i]
      /\ t[Len(s) + 1] = b
  BY <1>1
<1>3. Len(s) \in Nat /\ DOMAIN s = 1 .. Len(s) /\ DOMAIN t = 1 .. Len(s) + 1
  BY <1>1, <1>2
<1>4. t \in Seq(T)
  BY <1>2
<1>5. \A i \in DOMAIN t : IsBlock(t[i])
  BY <1>2, <1>3, ChainFacts
<1> QED
  BY <1>2, <1>4, <1>5 DEF IsChain

(***************************************************************************)
(* create fills in every field, whatever its arguments.                    *)
(***************************************************************************)
LEMMA CreateFacts ==
  ASSUME NEW p, NEW d, NEW id \in Nat, NEW x \in Nat, NEW now \in Timestamp
  PROVE  /\ IsBlock(create_data(p, d, id, x, now))
         /\ hash_verify(create_data(p, d, id, x, now))
         /\ create_data(p, d, id, x, now).prev_hash = p
         /\ create_data(p, d, id, x, now).timestamp = now
  BY DEF create_data, private_new, IsBlock, hash_verify, hash_block

(***************************************************************************)
(* A digest block has its id for index (block.rs:381), and digests one     *)
(* chain.                                                                  *)
(***************************************************************************)
LEMMA CreateDigestFacts ==
  ASSUME NEW p, NEW root, NEW length, NEW id \in Nat, NEW now \in Timestamp
  PROVE  /\ IsBlock(create_digest(p, root, length, id, now))
         /\ create_digest(p, root, length, id, now).index = id
         /\ create_digest(p, root, length, id, now).digest_id = id
         /\ create_digest(p, root, length, id, now).body
              = [merkle_root |-> root, length |-> length]
  BY DEF create_digest, private_new, IsBlock

(***************************************************************************)
(* A chain of one block.                                                   *)
(***************************************************************************)
LEMMA SingletonFacts ==
  ASSUME NEW b, IsBlock(b)
  PROVE  IsChain(<< b >>) /\ Len(<< b >>) = 1 /\ << b >>[1] = b
  BY DEF IsChain

(***************************************************************************)
(* A write through iter_mut leaves a chain of blocks, of the same length.  *)
(***************************************************************************)
LEMMA OverwriteFacts ==
  ASSUME NEW s, IsChain(s), NEW i \in 1 .. Len(s), NEW b, IsBlock(b)
  PROVE  /\ IsChain([s EXCEPT ![i] = b])
         /\ Len([s EXCEPT ![i] = b]) = Len(s)
<1> DEFINE S == {s[j] : j \in DOMAIN s}
           t == [s EXCEPT ![i] = b]
           T == {t[j] : j \in DOMAIN t}
<1>1. s \in Seq(S \cup {b}) /\ i \in DOMAIN s
  BY DEF IsChain
<1>2. t \in Seq(S \cup {b}) /\ Len(t) = Len(s)
  BY <1>1
<1>3. t \in Seq(T)
  <2> HIDE DEF t
  <2> QED
    BY <1>2, ChainOverBlocks
<1>4. \A j \in DOMAIN t : IsBlock(t[j])
  BY <1>1, <1>2, ChainFacts
<1> QED
  BY <1>2, <1>3, <1>4 DEF IsChain

(***************************************************************************)
(* The first block of a chain never changes while nobody writes into it,   *)
(* so the window every later block was verified against is still the       *)
(* window of the chain: appending an accepted block keeps it linked.       *)
(***************************************************************************)
LEMMA AppendLinked ==
  ASSUME NEW s, IsChain(s), NEW lim, NEW b, IsBlock(b),
         Linked(s, lim.time_gap), accepts(s, lim, b)
  PROVE  Linked(Append(s, b), lim.time_gap)
<1> DEFINE t == Append(s, b)
<1>1. /\ Len(s) \in Nat
      /\ Len(t) = Len(s) + 1
      /\ \A i \in 1 .. Len(s) : t[i] = s[i]
      /\ t[Len(s) + 1] = b
  BY AppendFacts, ChainFacts
<1>2. CASE Len(s) = 0
  BY <1>1, <1>2 DEF Linked
<1>3. CASE Len(s) > 0
  <2>1. verify(b, s[Len(s)].hash, s[1].timestamp, lim.time_gap)
    BY <1>3 DEF accepts, block_verify, last_block_ref, origin
  <2>2. ASSUME NEW i \in 2 .. Len(t)
        PROVE  verify(t[i], t[i - 1].hash, origin(t), lim.time_gap)
    <3>1. CASE i = Len(t)
      BY <1>1, <1>3, <2>1, <3>1 DEF origin
    <3>2. CASE i # Len(t)
      BY <1>1, <1>3, <3>2 DEF origin, Linked
    <3> QED
      BY <3>1, <3>2
  <2> QED
    BY <2>2 DEF Linked
<1> QED
  BY <1>1, <1>2, <1>3
-----------------------------------------------------------------------------
(***************************************************************************)
(* The least-number principle, for a set of natural numbers.               *)
(***************************************************************************)
LEMMA LessPairs == \A x, y \in Nat : x < y => << x, y >> \in OpToRel(<, Nat)
  BY DEF OpToRel

LEMMA LeastNumber ==
  ASSUME NEW T, T \subseteq Nat, T # {}
  PROVE  \E x \in T : \A y \in T : x <= y
<1> DEFINE R == OpToRel(<, Nat)
<1>1. IsWellFoundedOn(R, Nat)
  BY NatLessThanWellFounded
<1>2. PICK x \in T : \A y \in T : ~ (<< y, x >> \in R)
  <2> HIDE DEF R
  <2> QED
    BY <1>1, WFMin
<1>3. \A y \in T : ~ (y < x)
  BY <1>2, LessPairs
<1> QED
  BY <1>3

(***************************************************************************)
(* A set with 0 and every successor has all natural numbers.               *)
(***************************************************************************)
LEMMA UpInduction ==
  ASSUME NEW G, 0 \in G, \A n \in Nat : n \in G => n + 1 \in G
  PROVE  \A n \in Nat : n \in G
<1> DEFINE T == Nat \ G
<1>1. ASSUME T # {} PROVE FALSE
  <2>1. PICK n \in T : \A m \in T : n <= m
    <3> T \subseteq Nat
      OBVIOUS
    <3> HIDE DEF T
    <3> QED
      BY <1>1, LeastNumber
  <2>2. n # 0 /\ n - 1 \in Nat /\ ~ (n <= n - 1)
    OBVIOUS
  <2>3. n - 1 \in G
    BY <2>1, <2>2
  <2> QED
    BY <2>2, <2>3
<1> QED
  BY <1>1

(***************************************************************************)
(* What is assumed of SHA-256, only where a lemma or a theorem says so.    *)
(***************************************************************************)
HashInjective == \A x, y : Hash(x) = Hash(y) => x = y

-----------------------------------------------------------------------------
(***************************************************************************)
(* Hashes and Merkle roots (hash.rs).                                      *)
(***************************************************************************)
(***************************************************************************)
(* A function on 1 .. n is a sequence of hashes.                           *)
(***************************************************************************)
LEMMA FunctionIsHashes ==
  ASSUME NEW n \in Nat, NEW s, s = [i \in 1 .. n |-> s[i]]
  PROVE  IsHashes(s) /\ Len(s) = n
  BY DEF IsHashes

(***************************************************************************)
(* Two sequences of hashes with the same hash everywhere are equal.        *)
(***************************************************************************)
LEMMA HashesExtensional ==
  ASSUME NEW s, NEW t, IsHashes(s), IsHashes(t), Len(s) = Len(t),
         \A i \in 1 .. Len(s) : s[i] = t[i]
  PROVE  s = t
  BY DEF IsHashes

(***************************************************************************)
(* A round of n hashes leaves (n + 1) \div 2 of them.                      *)
(***************************************************************************)
LEMMA NeighborFacts ==
  ASSUME NEW s, IsHashes(s)
  PROVE  /\ IsHashes(hash_neighbor(s))
         /\ Len(s) \in Nat
         /\ Len(hash_neighbor(s)) = (Len(s) + 1) \div 2
<1> DEFINE n == (Len(s) + 1) \div 2
           t == hash_neighbor(s)
<1>1. Len(s) \in Nat
  BY DEF IsHashes
<1>2. n \in Nat
  <2> DEFINE k == Len(s)
  <2>1. k \in Nat => (k + 1) \div 2 \in Nat
    <3> HIDE DEF k
    <3> QED
      OBVIOUS
  <2> QED
    BY <1>1, <2>1
<1>3. t = [i \in 1 .. n |-> t[i]]
  BY DEF hash_neighbor
<1> HIDE DEF t, n
<1>4. IsHashes(t) /\ Len(t) = n
  BY <1>2, <1>3, FunctionIsHashes
<1> QED
  BY <1>1, <1>4 DEF t, n

(***************************************************************************)
(* A round loses nothing: equal rounds come from equal hashes.  Position j *)
(* is the right child of digest j \div 2 when j is even and the left or    *)
(* only child of digest (j + 1) \div 2 when it is odd.                     *)
(***************************************************************************)
LEMMA NeighborInjective ==
  ASSUME HashInjective,
         NEW s, NEW t, IsHashes(s), IsHashes(t), Len(s) = Len(t),
         hash_neighbor(s) = hash_neighbor(t)
  PROVE  s = t
<1> DEFINE n == Len(s)
<1>1. n \in Nat /\ Len(t) = n
  BY NeighborFacts
<1>2. ASSUME NEW i \in 1 .. (n + 1) \div 2
      PROVE  /\ 2 * i <= n => s[2 * i - 1] = t[2 * i - 1] /\ s[2 * i] = t[2 * i]
             /\ ~ (2 * i <= n) => s[2 * i - 1] = t[2 * i - 1]
  <2>1. hash_neighbor(s)[i] = hash_neighbor(t)[i]
    OBVIOUS
  <2>2. CASE 2 * i <= n
    <3>1. Hash(<< s[2 * i - 1], s[2 * i] >>) = Hash(<< t[2 * i - 1], t[2 * i] >>)
      BY <1>1, <2>1, <2>2 DEF hash_neighbor
    <3>2. << s[2 * i - 1], s[2 * i] >> = << t[2 * i - 1], t[2 * i] >>
      BY <3>1 DEF HashInjective
    <3> QED
      BY <2>2, <3>2
  <2>3. CASE ~ (2 * i <= n)
    <3>1. Hash(<< s[2 * i - 1] >>) = Hash(<< t[2 * i - 1] >>)
      BY <1>1, <2>1, <2>3 DEF hash_neighbor
    <3>2. << s[2 * i - 1] >> = << t[2 * i - 1] >>
      BY <3>1 DEF HashInjective
    <3> QED
      BY <2>3, <3>2
  <2> QED
    BY <2>2, <2>3
<1>3. ASSUME NEW j \in 1 .. n
      PROVE  s[j] = t[j]
  <2> HIDE DEF n
  <2>1. PICK i \in 1 .. (n + 1) \div 2 : j = 2 * i \/ j = 2 * i - 1
    <3>1. (j + 1) \div 2 \in 1 .. (n + 1) \div 2
      BY <1>1
    <3>2. j = 2 * ((j + 1) \div 2) \/ j = 2 * ((j + 1) \div 2) - 1
      BY <1>1
    <3> QED
      BY <3>1, <3>2
  <2>2. CASE j = 2 * i
    BY <1>1, <1>2, <2>2
  <2>3. CASE j = 2 * i - 1
    BY <1>1, <1>2, <2>3
  <2> QED
    BY <2>1, <2>2, <2>3
<1> QED
  BY <1>1, <1>3, HashesExtensional

(***************************************************************************)
(* The recursion of merkle_root, of which there is always a solution.      *)
(***************************************************************************)
RoundOf(s, f, n) ==
  IF n = 0 THEN hash_neighbor(s)
  ELSE IF Len(f[n - 1]) = 1 THEN f[n - 1] ELSE hash_neighbor(f[n - 1])

IsRounds(s, f, k) == f = [n \in 0 .. k |-> RoundOf(s, f, n)]

LEMMA OneMoreRound ==
  ASSUME NEW s, NEW k \in Nat, NEW f, IsRounds(s, f, k)
  PROVE  \E g : IsRounds(s, g, k + 1)
<1> DEFINE h == [n \in 0 .. k + 1 |-> IF n <= k THEN f[n] ELSE RoundOf(s, f, n)]
<1>1. ASSUME NEW n \in 0 .. k + 1 PROVE h[n] = RoundOf(s, h, n)
  <2>1. h[n] = RoundOf(s, f, n)
    BY DEF IsRounds
  <2>2. n # 0 => n - 1 \in 0 .. k /\ n - 1 \in 0 .. k + 1 /\ n - 1 <= k
    OBVIOUS
  <2>3. n # 0 => h[n - 1] = f[n - 1]
    BY <2>2
  <2> HIDE DEF h
  <2> QED
    BY <2>1, <2>3 DEF RoundOf
<1>2. h = [n \in 0 .. k + 1 |-> h[n]]
  OBVIOUS
<1> HIDE DEF h
<1>3. IsRounds(s, h, k + 1)
  BY <1>1, <1>2 DEF IsRounds
<1> QED
  BY <1>3

LEMMA RoundsExist ==
  ASSUME NEW s, NEW k \in Nat
  PROVE  \E f : IsRounds(s, f, k)
<1> DEFINE G == {n \in Nat : \E f : IsRounds(s, f, n)}
<1>1. 0 \in G
  <2> DEFINE h == [n \in 0 .. 0 |-> hash_neighbor(s)]
  <2>1. \A n \in 0 .. 0 : h[n] = RoundOf(s, h, n)
    BY DEF RoundOf
  <2>2. h = [n \in 0 .. 0 |-> h[n]]
    OBVIOUS
  <2> HIDE DEF h
  <2>3. IsRounds(s, h, 0)
    BY <2>1, <2>2 DEF IsRounds
  <2> QED
    BY <2>3
<1>2. \A n \in Nat : n \in G => n + 1 \in G
  BY OneMoreRound
<1> HIDE DEF G
<1>3. k \in G
  BY <1>1, <1>2, UpInduction
<1> QED
  BY <1>3 DEF G

LEMMA RootUnfolds ==
  ASSUME NEW s, IsHashes(s)
  PROVE  \E f : IsRounds(s, f, Len(s)) /\ merkle_root(s) = f[Len(s)][1]
<1> DEFINE g == CHOOSE f : IsRounds(s, f, Len(s))
<1>1. Len(s) \in Nat
  BY NeighborFacts
<1>2. IsRounds(s, g, Len(s))
  BY <1>1, RoundsExist, Zenon
<1>3. merkle_root(s) = g[Len(s)][1]
  BY DEF merkle_root, IsRounds, RoundOf
<1> HIDE DEF g
<1> QED
  BY <1>2, <1>3

(***************************************************************************)
(* The rounds get shorter until one digest is left, which Len(s) rounds    *)
(* are enough for.                                                         *)
(***************************************************************************)
LEMMA RoundShortens ==
  ASSUME NEW s, IsHashes(s), Len(s) > 0
  PROVE  /\ Len(hash_neighbor(s)) \in Nat
         /\ Len(hash_neighbor(s)) > 0
         /\ (Len(hash_neighbor(s)) = 1 \/ Len(hash_neighbor(s)) < Len(s))
<1> DEFINE k == Len(s)
           l == Len(hash_neighbor(s))
<1>1. k \in Nat /\ k > 0 /\ l = (k + 1) \div 2
  BY NeighborFacts
<1> HIDE DEF k, l
<1>2. l \in Nat /\ l > 0 /\ (l = 1 \/ l < k)
  BY ONLY <1>1
<1> QED
  BY <1>2 DEF k, l

LEMMA RoundsFacts ==
  ASSUME NEW s, IsHashes(s), Len(s) > 0, NEW f, IsRounds(s, f, Len(s))
  PROVE  /\ \A n \in 0 .. Len(s) :
              /\ IsHashes(f[n]) /\ Len(f[n]) \in Nat /\ Len(f[n]) > 0
              /\ (Len(f[n]) = 1 \/ Len(f[n]) + n < Len(s))
         /\ Len(f[Len(s)]) = 1
<1> DEFINE m == Len(s)
           Short(n) == Len(f[n]) = 1 \/ Len(f[n]) + n < m
           Good(n) == IsHashes(f[n]) /\ Len(f[n]) \in Nat /\ Len(f[n]) > 0 /\ Short(n)
           G == {n \in Nat : n <= m => Good(n)}
<1>1. m \in Nat /\ m > 0
  BY NeighborFacts
<1>2. \A n \in 0 .. m : f[n] = RoundOf(s, f, n)
  BY DEF IsRounds
<1>3. Good(0)
  <2>1. f[0] = hash_neighbor(s)
    BY <1>1, <1>2 DEF RoundOf
  <2>2. IsHashes(f[0]) /\ Len(f[0]) \in Nat /\ Len(f[0]) > 0
    BY <2>1, NeighborFacts, RoundShortens
  <2>3. Len(f[0]) = 1 \/ Len(f[0]) < m
    BY <2>1, RoundShortens
  <2>4. Short(0)
    <3> HIDE DEF m
    <3> QED
      BY ONLY <2>2, <2>3 DEF Short
  <2> QED
    BY <2>2, <2>4
<1> HIDE DEF m
<1>4. ASSUME NEW n \in Nat, n <= m => Good(n), n + 1 <= m PROVE Good(n + 1)
  <2>1. n \in 0 .. m /\ n + 1 \in 0 .. m /\ (n + 1) - 1 = n /\ n + 1 # 0 /\ n <= m
    BY <1>1, <1>4
  <2>2. Good(n)
    BY <1>4, <2>1
  <2>3. f[n + 1] = IF Len(f[n]) = 1 THEN f[n] ELSE hash_neighbor(f[n])
    BY <1>2, <2>1 DEF RoundOf
  <2>4. CASE Len(f[n]) = 1
    BY <2>2, <2>3, <2>4
  <2>5. CASE Len(f[n]) # 1
    <3>1. f[n + 1] = hash_neighbor(f[n])
      BY <2>3, <2>5
    <3>2. /\ IsHashes(f[n + 1]) /\ Len(f[n + 1]) \in Nat /\ Len(f[n + 1]) > 0
          /\ (Len(f[n + 1]) = 1 \/ Len(f[n + 1]) < Len(f[n]))
      BY <2>2, <3>1, NeighborFacts, RoundShortens
    <3>3. Len(f[n]) + n < m /\ Len(f[n]) \in Nat
      BY <2>2, <2>5
    <3>4. Len(f[n + 1]) = 1 \/ Len(f[n + 1]) + (n + 1) < m
      <4> DEFINE a == Len(f[n])
                 b == Len(f[n + 1])
      <4>1. /\ a \in Nat /\ b \in Nat /\ a + n < m /\ (b = 1 \/ b < a)
            /\ n \in Nat /\ m \in Nat
        BY <1>1, <3>2, <3>3
      <4> HIDE DEF a, b
      <4>2. b = 1 \/ b + (n + 1) < m
        BY ONLY <4>1
      <4> QED
        BY ONLY <4>2 DEF b
    <3> QED
      BY <3>2, <3>4
  <2> QED
    BY <2>4, <2>5
<1> HIDE DEF Good
<1>5. \A n \in Nat : n \in G
  <2>1. 0 \in G
    BY <1>3
  <2>2. \A n \in Nat : n \in G => n + 1 \in G
    <3> TAKE n \in Nat
    <3> HAVE n \in G
    <3>1. n + 1 <= m => Good(n + 1)
      BY <1>4
    <3> QED
      BY <3>1
  <2> HIDE DEF G
  <2> QED
    BY <2>1, <2>2, UpInduction
<1>6. \A n \in 0 .. m : Good(n)
  BY <1>1, <1>5
<1>7. Good(m)
  BY <1>1, <1>6
<1> USE DEF Good
<1>8. Len(f[m]) = 1
  BY ONLY <1>1, <1>7 DEF Good, Short
<1> QED
  BY <1>6, <1>8 DEF m

(***************************************************************************)
(* Once one digest is left the rounds change nothing.                      *)
(***************************************************************************)
LEMMA RoundsStay ==
  ASSUME NEW s, NEW m \in Nat, NEW f, IsRounds(s, f, m),
         NEW k \in 0 .. m, Len(f[k]) = 1
  PROVE  f[m] = f[k]
<1> DEFINE G == {j \in Nat : k + j <= m => f[k + j] = f[k]}
<1>1. 0 \in G
  <2>1. k + 0 = k
    OBVIOUS
  <2> QED
    BY <2>1
<1>2. ASSUME NEW j \in Nat, j \in G PROVE j + 1 \in G
  <2> SUFFICES ASSUME k + (j + 1) <= m PROVE f[k + (j + 1)] = f[k]
    OBVIOUS
  <2> DEFINE n == k + (j + 1)
  <2>1. n \in 0 .. m /\ n # 0 /\ n - 1 = k + j /\ k + j <= m
    OBVIOUS
  <2>2. f[k + j] = f[k]
    BY <1>2, <2>1
  <2> HIDE DEF n
  <2>3. f[n] = RoundOf(s, f, n)
    BY <2>1 DEF IsRounds
  <2>4. f[n] = f[k]
    BY <2>1, <2>2, <2>3 DEF RoundOf
  <2> QED
    BY <2>4 DEF n
<1>3. m - k \in G
  <2>1. m - k \in Nat
    OBVIOUS
  <2> HIDE DEF G
  <2> QED
    BY <1>1, <1>2, <2>1, UpInduction
<1>4. k + (m - k) = m
  OBVIOUS
<1> QED
  BY <1>3, <1>4

(***************************************************************************)
(* If the hash has no collisions, a root and a length determine the hashes *)
(* below the root, in every number.                                        *)
(***************************************************************************)
LEMMA RootBindsSequence ==
  ASSUME HashInjective,
         NEW s, NEW t, IsHashes(s), IsHashes(t), Len(s) = Len(t), Len(s) > 0,
         merkle_root(s) = merkle_root(t)
  PROVE  s = t
<1> DEFINE m == Len(s)
<1>1. m \in Nat /\ Len(t) = m /\ m > 0
  BY NeighborFacts
<1>2. PICK f : IsRounds(s, f, m) /\ merkle_root(s) = f[m][1]
  BY RootUnfolds
<1>3. PICK g : IsRounds(t, g, m) /\ merkle_root(t) = g[m][1]
  BY <1>1, RootUnfolds
<1>4. /\ \A n \in 0 .. m : IsHashes(f[n]) /\ f[n] = RoundOf(s, f, n)
      /\ \A n \in 0 .. m : IsHashes(g[n]) /\ g[n] = RoundOf(t, g, n)
      /\ Len(f[m]) = 1 /\ Len(g[m]) = 1
  <2>1. /\ \A n \in 0 .. m : f[n] = RoundOf(s, f, n)
        /\ \A n \in 0 .. m : g[n] = RoundOf(t, g, n)
    BY <1>2, <1>3 DEF IsRounds
  <2>2. (\A n \in 0 .. m : IsHashes(f[n])) /\ Len(f[m]) = 1
    BY <1>2, RoundsFacts
  <2>3. (\A n \in 0 .. m : IsHashes(g[n])) /\ Len(g[m]) = 1
    <3>1. IsRounds(t, g, Len(t)) /\ Len(t) > 0
      BY <1>1, <1>3
    <3>2. (\A n \in 0 .. Len(t) : IsHashes(g[n])) /\ Len(g[Len(t)]) = 1
      BY <3>1, RoundsFacts
    <3> QED
      BY <1>1, <3>2
  <2> QED
    BY <2>1, <2>2, <2>3
<1> HIDE DEF m
<1> DEFINE Good(n) == Len(f[n]) = Len(g[n]) /\ (f[n] = g[n] => s = t)
           G == {n \in Nat : n <= m => Good(n)}
<1>5. 0 \in G
  <2>1. f[0] = hash_neighbor(s) /\ g[0] = hash_neighbor(t)
    BY <1>1, <1>4 DEF RoundOf
  <2>2. Len(f[0]) = Len(g[0])
    BY <1>1, <2>1, NeighborFacts DEF m
  <2>3. f[0] = g[0] => s = t
    BY <2>1, NeighborInjective
  <2> QED
    BY <2>2, <2>3
<1>6. ASSUME NEW n \in Nat, n \in G PROVE n + 1 \in G
  <2> SUFFICES ASSUME n + 1 <= m PROVE Good(n + 1)
    OBVIOUS
  <2>1. Good(n) /\ n \in 0 .. m /\ n + 1 \in 0 .. m /\ (n + 1) - 1 = n /\ n + 1 # 0
    BY <1>1, <1>6
  <2>2. /\ f[n + 1] = IF Len(f[n]) = 1 THEN f[n] ELSE hash_neighbor(f[n])
        /\ g[n + 1] = IF Len(g[n]) = 1 THEN g[n] ELSE hash_neighbor(g[n])
    BY <1>4, <2>1 DEF RoundOf
  <2>3. IsHashes(f[n]) /\ IsHashes(g[n])
    BY <1>4, <2>1
  <2>4. CASE Len(f[n]) = 1
    BY <2>1, <2>2, <2>4
  <2>5. CASE Len(f[n]) # 1
    <3>1. f[n + 1] = hash_neighbor(f[n]) /\ g[n + 1] = hash_neighbor(g[n])
      BY <2>1, <2>2, <2>5
    <3>2. Len(f[n + 1]) = Len(g[n + 1])
      BY <2>1, <2>3, <3>1, NeighborFacts
    <3>3. f[n + 1] = g[n + 1] => f[n] = g[n]
      BY <2>1, <2>3, <3>1, NeighborInjective
    <3> QED
      BY <2>1, <3>2, <3>3
  <2> QED
    BY <2>4, <2>5
<1>7. m \in G
  <2> HIDE DEF G
  <2> QED
    BY <1>1, <1>5, <1>6, UpInduction
<1>8. f[m] = g[m]
  <2>1. m \in 0 .. m
    BY <1>1
  <2>2. f[m][1] = g[m][1]
    BY <1>2, <1>3
  <2> QED
    BY <1>4, <2>1, <2>2, HashesExtensional
<1> QED
  BY <1>1, <1>7, <1>8

-----------------------------------------------------------------------------
(***************************************************************************)
(* Two verified blocks with one hash are the same block (block.rs:68).     *)
(***************************************************************************)
LEMMA HashBindsBlock ==
  ASSUME HashInjective,
         NEW b, NEW c, IsBlock(b), IsBlock(c), hash_verify(b), hash_verify(c),
         b.hash = c.hash
  PROVE  b = c
<1>1. [timestamp |-> b.timestamp, prev_hash |-> b.prev_hash, body |-> b.body,
       digest_id |-> b.digest_id, index |-> b.index]
      = [timestamp |-> c.timestamp, prev_hash |-> c.prev_hash, body |-> c.body,
         digest_id |-> c.digest_id, index |-> c.index]
  BY DEF HashInjective, hash_verify, hash_block
<1>2. /\ b.timestamp = c.timestamp /\ b.prev_hash = c.prev_hash /\ b.body = c.body
      /\ b.digest_id = c.digest_id /\ b.index = c.index
  BY <1>1
<1> QED
  BY <1>2 DEF IsBlock

(***************************************************************************)
(* The hash of a block fixes all blocks before it, up to the first, of     *)
(* which it fixes the hash: if two linked chains differed behind it, the   *)
(* last place at which they do would carry two hashes.                     *)
(***************************************************************************)
LEMMA HashBindsChain ==
  ASSUME HashInjective,
         NEW s, NEW t, IsChain(s), IsChain(t),
         NEW gap, NEW gap2, Linked(s, gap), Linked(t, gap2),
         NEW n \in Nat, n > 1, n <= Len(s), n <= Len(t),
         s[n].hash = t[n].hash
  PROVE  /\ s[1].hash = t[1].hash
         /\ \A i \in 2 .. n : s[i] = t[i]
<1>1. ASSUME NEW i \in 2 .. n
      PROVE  /\ IsBlock(s[i]) /\ hash_verify(s[i]) /\ s[i].prev_hash = s[i - 1].hash
             /\ IsBlock(t[i]) /\ hash_verify(t[i]) /\ t[i].prev_hash = t[i - 1].hash
  <2>1. /\ i \in 2 .. Len(s) /\ i \in 2 .. Len(t)
        /\ i \in 1 .. Len(s) /\ i \in 1 .. Len(t)
    BY ChainFacts
  <2> QED
    BY <2>1, ChainFacts DEF Linked, verify
<1>2. ASSUME NEW i \in 2 .. n, s[i].hash = t[i].hash
      PROVE  s[i] = t[i]
  BY <1>1, <1>2, HashBindsBlock
<1>3. ASSUME NEW i \in 2 .. n, s[i] = t[i]
      PROVE  s[i - 1].hash = t[i - 1].hash
  BY <1>1, <1>3
<1> DEFINE Same(i) == s[i] = t[i]
           T == {k \in 0 .. n - 2 : ~ Same(n - k)}
<1>4. T = {}
  <2> SUFFICES ASSUME T # {} PROVE FALSE
    OBVIOUS
  <2>1. T \subseteq Nat
    OBVIOUS
  <2>2. PICK k \in T : \A j \in T : k <= j
    <3> HIDE DEF T
    <3> QED
      BY <2>1, LeastNumber
  <2>3. k \in 0 .. n - 2 /\ ~ Same(n - k)
    OBVIOUS
  <2>4. CASE k = 0
    <3>1. n \in 2 .. n /\ n - k = n
      BY <2>4
    <3> QED
      BY <2>3, <3>1, <1>2
  <2>5. CASE k # 0
    <3> DEFINE i == n - (k - 1)
    <3>1. k - 1 \in 0 .. n - 2 /\ ~ (k <= k - 1)
      BY <2>3, <2>5
    <3>2. k - 1 \notin T
      BY <2>2, <3>1
    <3>3. i \in 2 .. n /\ i - 1 = n - k /\ n - k \in 2 .. n
      BY <2>3, <2>5
    <3>4. Same(i)
      BY <3>1, <3>2
    <3>5. s[i - 1].hash = t[i - 1].hash
      <4> HIDE DEF i
      <4> QED
        BY <1>3, <3>3, <3>4
    <3>6. s[n - k].hash = t[n - k].hash
      BY <3>3, <3>5
    <3> QED
      BY <1>2, <2>3, <3>3, <3>6
  <2> QED
    BY <2>4, <2>5
<1>5. ASSUME NEW i \in 2 .. n
      PROVE  s[i] = t[i]
  <2>1. n - i \in 0 .. n - 2 /\ n - (n - i) = i
    OBVIOUS
  <2>2. n - i \notin T
    BY <1>4
  <2> QED
    BY <2>1, <2>2
<1>6. s[1].hash = t[1].hash
  <2>1. 2 \in 2 .. n /\ 2 - 1 = 1
    OBVIOUS
  <2> QED
    BY <1>3, <1>5, <2>1
<1> QED
  BY <1>5, <1>6
=============================================================================
