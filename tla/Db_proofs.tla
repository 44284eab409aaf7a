------------------------------ MODULE Db_proofs -------------------------------
(***************************************************************************)
(* What holds of both halves of db.rs for any chains, sizes, files and     *)
(* calls. Bundle: what its buffer, its file and its description hold, by   *)
(* the lemmas about Serializer that come first. MetaStore: the order of a  *)
(* file and its meta data, the list in memory, and that it implements      *)
(* Catalogue.                                                              *)
(***************************************************************************)
EXTENDS Bundle, MetaStore, FiniteSetTheorems, TLAPS

(***************************************************************************)
(* Induction on sets of natural numbers, up and down.                      *)
(***************************************************************************)
LEMMA LessPairs == \A x, y \in Nat : x < y => << x, y >> \in OpToRel(<, Nat)
  BY DEF OpToRel

(***************************************************************************)
(* The least-number principle.                                             *)
(***************************************************************************)
LEMMA LeastNumber ==
  ASSUME NEW T, T \subseteq Nat, T # {}
  PROVE  \E x \in T : \A y \in T : x <= y
<1> DEFINE R == OpToRel(<, Nat)
<1>1. IsWellFoundedOn(R, Nat)
  BY NatLessThanWellFounded
<1>2. PICK x \in T : \A y \in T : ~ (<< y, x >> \in R)
  <2> HIDE DEF R
  <2> QED
    BY <1>1, WFMin
<1>3. \A y \in T : ~ (y < x)
  BY <1>2, LessPairs
<1> QED
  BY <1>3

(***************************************************************************)
(* A set with 0 and every successor has all natural numbers.               *)
(***************************************************************************)
LEMMA UpInduction ==
  ASSUME NEW G, 0 \in G, \A n \in Nat : n \in G => n + 1 \in G
  PROVE  \A n \in Nat : n \in G
<1> DEFINE T == Nat \ G
<1>1. ASSUME T # {} PROVE FALSE
  <2>1. PICK n \in T : \A m \in T : n <= m
    <3> T \subseteq Nat
      OBVIOUS
    <3> HIDE DEF T
    <3> QED
      BY <1>1, LeastNumber
  <2>2. n # 0 /\ n - 1 \in Nat /\ ~ (n <= n - 1)
    OBVIOUS
  <2>3. n - 1 \in G
    BY <2>1, <2>2
  <2> QED
    BY <2>2, <2>3
<1> QED
  BY <1>1

(***************************************************************************)
(* A set with every p <= n above which it has everything has all of them.  *)
(***************************************************************************)
LEMMA DownInduction ==
  ASSUME NEW n \in Nat, NEW G,
         \A p \in 1 .. n : (\A q \in p + 1 .. n : q \in G) => p \in G
  PROVE  \A p \in 1 .. n : p \in G
<1> DEFINE K == {k \in Nat : \A p \in 1 .. n : n - k < p => p \in G}
<1>1. 0 \in K
  OBVIOUS
<1>2. ASSUME NEW k \in Nat, k \in K PROVE k + 1 \in K
  <2> SUFFICES ASSUME NEW p \in 1 .. n, n - (k + 1) < p PROVE p \in G
    OBVIOUS
  <2>1. \A q \in p + 1 .. n : q \in 1 .. n /\ n - k < q
    OBVIOUS
  <2> QED
    BY <1>2, <2>1
<1>3. n \in K
  <2> HIDE DEF K
  <2> QED
    BY <1>1, <1>2, UpInduction
<1> QED
  BY <1>3

-----------------------------------------------------------------------------
Loadable == Chains \cup {Bad}

(***************************************************************************)
(* What an entry is.                                                       *)
(***************************************************************************)
LEMMA EntryFacts ==
  ASSUME NEW c \in Chains
  PROVE  /\ Size[c] \in Nat /\ Size[c] > 0
         /\ Entry(c) \in Seq(Cells) /\ Len(Entry(c)) = Size[c] + 1
         /\ \A i \in 1 .. Size[c] + 1 : Entry(c)[i] = << c, i - 1 >>
<1>1. Size[c] \in Nat /\ Size[c] > 0
  BY SizeAssumption
<1> DEFINE n == Size[c] + 1
<1>2. \A i \in 1 .. n : << c, i - 1 >> \in Cells
  BY <1>1 DEF Cells
<1>3. n \in Nat /\ Entry(c) = [i \in 1 .. n |-> << c, i - 1 >>]
  BY <1>1 DEF Entry
<1> HIDE DEF n
<1>4. Entry(c) \in Seq(Cells) /\ Len(Entry(c)) = n
  BY <1>2, <1>3
<1> QED
  BY <1>1, <1>3, <1>4 DEF n

(***************************************************************************)
(* A whole entry, cell by cell; there is at most one at a position.        *)
(***************************************************************************)
LEMMA WholeMeans ==
  ASSUME NEW cells \in Seq(Cells), NEW p \in Nat \ {0}, NEW c \in Chains
  PROVE  Whole(cells, p, c) <=>
           /\ p + Size[c] <= Len(cells)
           /\ \A i \in 0 .. Size[c] : cells[p + i] = << c, i >>
<1> DEFINE m == Size[c]
           s == SubSeq(cells, p, p + m)
<1>1. m \in Nat /\ Entry(c) \in Seq(Cells) /\ Len(Entry(c)) = m + 1
  BY EntryFacts
<1>2. \A i \in 0 .. m : Entry(c)[i + 1] = << c, i >>
  <2> TAKE i \in 0 .. m
  <2>1. i + 1 \in 1 .. m + 1 /\ (i + 1) - 1 = i
    BY <1>1
  <2> QED
    BY <2>1, EntryFacts
<1> HIDE DEF m
<1>3. ASSUME p + m <= Len(cells)
      PROVE  /\ s \in Seq(Cells) /\ Len(s) = m + 1
             /\ \A i \in 0 .. m : s[i + 1] = cells[p + i]
  BY <1>1, <1>3
<1> HIDE DEF s
<1>4. ASSUME p + m <= Len(cells), \A i \in 0 .. m : cells[p + i] = << c, i >>
      PROVE  s = Entry(c)
  <2>1. \A i \in 1 .. m + 1 : s[i] = Entry(c)[i]
    <3> TAKE i \in 1 .. m + 1
    <3>1. i - 1 \in 0 .. m /\ (i - 1) + 1 = i
      BY <1>1
    <3> QED
      BY <1>2, <1>3, <1>4, <3>1
  <2> QED
    BY <1>1, <1>3, <1>4, <2>1
<1> QED
  BY <1>1, <1>2, <1>3, <1>4 DEF Whole, m, s

(***************************************************************************)
(* At one place of a file there is at most one entry: its first cell names *)
(* its chain.                                                              *)
(***************************************************************************)
LEMMA OneEntry ==
  ASSUME NEW cells \in Seq(Cells), NEW p \in Nat \ {0},
         NEW c \in Chains, Whole(cells, p, c),
         NEW d \in Chains, Whole(cells, p, d)
  PROVE  c = d
<1>1. 0 \in 0 .. Size[c] /\ 0 \in 0 .. Size[d]
  BY EntryFacts
<1>2. cells[p + 0] = << c, 0 >> /\ cells[p + 0] = << d, 0 >>
  BY <1>1, WholeMeans
<1> QED
  BY <1>2

(***************************************************************************)
(* One step of Decode, from position p.                                    *)
(***************************************************************************)
DecodeStep(cells, f, p) ==
  IF p > Len(cells) THEN << >>
  ELSE IF \E c \in Chains : Whole(cells, p, c)
    THEN LET c == CHOOSE x \in Chains : Whole(cells, p, x)
         IN  << c >> \o f[p + Size[c] + 1]
  ELSE << Bad >>

Decodes(cells, f) == f = [p \in 1 .. Len(cells) + 1 |-> DecodeStep(cells, f, p)]

(***************************************************************************)
(* Where a whole entry is, Decode takes it and goes on behind it.          *)
(***************************************************************************)
LEMMA StepOfEntry ==
  ASSUME NEW cells \in Seq(Cells), NEW p \in 1 .. Len(cells) + 1, NEW f,
         NEW c \in Chains, Whole(cells, p, c)
  PROVE  /\ DecodeStep(cells, f, p) = << c >> \o f[p + Size[c] + 1]
         /\ p <= Len(cells)
         /\ p + Size[c] + 1 \in p + 1 .. Len(cells) + 1
<1>1. p \in Nat \ {0} /\ Size[c] \in Nat /\ p + Size[c] <= Len(cells)
  BY EntryFacts DEF Whole
<1>2. (CHOOSE x \in Chains : Whole(cells, p, x)) = c
  BY <1>1, OneEntry
<1>3. DecodeStep(cells, f, p) =
        << CHOOSE x \in Chains : Whole(cells, p, x) >>
          \o f[p + Size[CHOOSE x \in Chains : Whole(cells, p, x)] + 1]
  <2>1. ~ (p > Len(cells))
    BY <1>1
  <2> QED
    BY <2>1, Zenon DEF DecodeStep
<1>4. DecodeStep(cells, f, p) = << c >> \o f[p + Size[c] + 1]
  BY <1>2, <1>3, Zenon
<1> QED
  BY <1>1, <1>4

(***************************************************************************)
(* A step of Decode depends only on what is decoded behind it.             *)
(***************************************************************************)
LEMMA StepLocal ==
  ASSUME NEW cells \in Seq(Cells), NEW p \in 1 .. Len(cells) + 1, NEW f, NEW g,
         \A q \in p + 1 .. Len(cells) + 1 : f[q] = g[q]
  PROVE  DecodeStep(cells, f, p) = DecodeStep(cells, g, p)
<1>1. ASSUME NEW c \in Chains, Whole(cells, p, c)
      PROVE  DecodeStep(cells, f, p) = DecodeStep(cells, g, p)
  <2> DEFINE q == p + Size[c] + 1
  <2>1. /\ DecodeStep(cells, f, p) = << c >> \o f[q]
        /\ DecodeStep(cells, g, p) = << c >> \o g[q]
        /\ q \in p + 1 .. Len(cells) + 1
    BY <1>1, StepOfEntry
  <2>2. f[q] = g[q]
    <3> HIDE DEF q
    <3> QED
      BY <2>1
  <2> QED
    BY <2>1, <2>2, Zenon
<1>2. CASE ~ \E c \in Chains : Whole(cells, p, c)
  BY <1>2, Zenon DEF DecodeStep
<1> QED
  BY <1>1, <1>2

(***************************************************************************)
(* The function that Decode defines by recursion exists: it is built from  *)
(* the end of the cells backwards.                                         *)
(***************************************************************************)
LEMMA DecodeExists ==
  ASSUME NEW cells \in Seq(Cells)
  PROVE  \E f : Decodes(cells, f)
<1> DEFINE n == Len(cells) + 1
           Part(p, f) == f = [q \in p .. n |-> DecodeStep(cells, f, q)]
           G == {p \in 1 .. n : \E f : Part(p, f)}
<1>1. n \in Nat /\ 1 \in 1 .. n
  OBVIOUS
<1>2. ASSUME NEW p \in 1 .. n, \A q \in p + 1 .. n : q \in G
      PROVE  p \in G
  <2>1. PICK g : p + 1 \in 1 .. n => Part(p + 1, g)
    <3>1. CASE p + 1 \in 1 .. n
      <4>1. p + 1 \in G
        <5>1. p + 1 \in p + 1 .. n
          BY <3>1
        <5> QED
          BY <1>2, <5>1, Zenon
      <4> QED
        BY <4>1
    <3> QED
      BY <3>1
  <2> DEFINE f == [q \in p .. n |-> IF q = p THEN DecodeStep(cells, g, p) ELSE g[q]]
  <2>2. ASSUME NEW q \in p .. n PROVE f[q] = DecodeStep(cells, f, q)
    <3>1. \A r \in q + 1 .. n : f[r] = g[r]
      BY <2>2
    <3>2. DecodeStep(cells, f, q) = DecodeStep(cells, g, q)
      <4> HIDE DEF f
      <4> QED
        BY <1>1, <2>2, <3>1, StepLocal
    <3>3. CASE q = p
      BY <3>2, <3>3
    <3>4. CASE q # p
      <4>1. p + 1 \in 1 .. n /\ q \in p + 1 .. n
        BY <2>2, <3>4
      <4>2. g[q] = DecodeStep(cells, g, q)
        BY <2>1, <4>1
      <4> QED
        BY <2>2, <3>2, <3>4, <4>2
    <3> QED
      BY <3>3, <3>4
  <2>3. Part(p, f)
    <3>1. f = [q \in p .. n |-> f[q]]
      OBVIOUS
    <3> HIDE DEF f
    <3> QED
      BY <2>2, <3>1
  <2> QED
    BY <2>3
<1>3. 1 \in G
  <2> HIDE DEF G, n
  <2> QED
    BY <1>1, <1>2, DownInduction
<1> QED
  BY <1>3 DEF Decodes

(***************************************************************************)
(* Decode returns what such a function says of the first cell.             *)
(***************************************************************************)
LEMMA DecodeUnfolds ==
  ASSUME NEW cells \in Seq(Cells)
  PROVE  \E f : Decodes(cells, f) /\ Decode(cells) = f[1]
<1>1. Decodes(cells, CHOOSE f : Decodes(cells, f))
  BY DecodeExists, Zenon
<1>2. Decode(cells) = (CHOOSE f : Decodes(cells, f))[1]
  BY DEF Decode, Decodes, DecodeStep
<1> QED
  BY <1>1, <1>2

(***************************************************************************)
(* One more element at the beginning.                                      *)
(***************************************************************************)
LEMMA Prepended ==
  ASSUME NEW T, NEW s \in Seq(T), NEW h, << h >> \in Seq(T)
  PROVE  /\ << h >> \o s \in Seq(T)
         /\ Len(<< h >> \o s) = Len(s) + 1
         /\ (<< h >> \o s)[1] = h
         /\ \A i \in 1 .. Len(s) : (<< h >> \o s)[i + 1] = s[i]
  OBVIOUS

(***************************************************************************)
(* A function on 1 .. n is a sequence.                                     *)
(***************************************************************************)
LEMMA FunctionIsSeq ==
  ASSUME NEW T, NEW n \in Nat, NEW r, r = [i \in 1 .. n |-> r[i]],
         \A i \in 1 .. n : r[i] \in T
  PROVE  r \in Seq(T) /\ Len(r) = n
  OBVIOUS

(***************************************************************************)
(* A sequence behind another one.                                          *)
(***************************************************************************)
LEMMA Joined ==
  ASSUME NEW T, NEW s \in Seq(T), NEW t \in Seq(T)
  PROVE  /\ s \o t \in Seq(T)
         /\ Len(s \o t) = Len(s) + Len(t)
         /\ \A i \in 1 .. Len(s) : (s \o t)[i] = s[i]
  OBVIOUS

(***************************************************************************)
(* Decode returns chains, and Bad.                                         *)
(***************************************************************************)
LEMMA DecodedTyped ==
  ASSUME NEW cells \in Seq(Cells), NEW f, Decodes(cells, f)
  PROVE  \A p \in 1 .. Len(cells) + 1 : f[p] \in Seq(Loadable)
<1> DEFINE n == Len(cells) + 1
           G == {p \in 1 .. n : f[p] \in Seq(Loadable)}
<1>1. n \in Nat
  OBVIOUS
<1>2. ASSUME NEW p \in 1 .. n, \A q \in p + 1 .. n : q \in G
      PROVE  p \in G
  <2>1. f[p] = DecodeStep(cells, f, p)
    BY DEF Decodes
  <2>2. ASSUME NEW c \in Chains, Whole(cells, p, c) PROVE p \in G
    <3>1. f[p] = << c >> \o f[p + Size[c] + 1] /\ p + Size[c] + 1 \in p + 1 .. n
      BY <2>1, <2>2, StepOfEntry
    <3> DEFINE q == p + Size[c] + 1
    <3>2. q \in G
      BY <1>2, <3>1, Zenon
    <3>3. f[q] \in Seq(Loadable)
      BY <3>2
    <3>4. << c >> \in Seq(Loadable)
      BY DEF Loadable
    <3>5. f[p] = << c >> \o f[q]
      BY <3>1
    <3>6. f[p] \in Seq(Loadable)
      <4> HIDE DEF q
      <4> QED
        BY <3>3, <3>4, <3>5, Prepended
    <3> QED
      BY <3>6
  <2>3. CASE ~ \E c \in Chains : Whole(cells, p, c)
    <3>1. f[p] \in {<< >>, << Bad >>}
      BY <2>1, <2>3 DEF DecodeStep
    <3>2. << >> \in Seq(Loadable) /\ << Bad >> \in Seq(Loadable)
      BY DEF Loadable
    <3>3. f[p] \in Seq(Loadable)
      BY <3>1, <3>2, Zenon
    <3> QED
      BY <3>3
  <2> QED
    BY <2>2, <2>3
<1>3. \A p \in 1 .. n : p \in G
  <2> HIDE DEF G, n
  <2> QED
    BY <1>1, <1>2, DownInduction
<1> QED
  BY <1>3

(***************************************************************************)
(* Decode returns a sequence of chains, and Bad.                           *)
(***************************************************************************)
LEMMA DecodeType ==
  ASSUME NEW cells \in Seq(Cells)
  PROVE  Decode(cells) \in Seq(Loadable)
<1>1. 1 \in 1 .. Len(cells) + 1
  OBVIOUS
<1> QED
  BY <1>1, DecodeUnfolds, DecodedTyped

(***************************************************************************)
(* What a load that meets an error returns of t, the file: its beginning,  *)
(* and perhaps one entry that is not whole.                                *)
(***************************************************************************)
PartOf(s, t) ==
  \E m \in Nat :
    /\ m <= Len(s) /\ m <= Len(t)
    /\ \A i \in 1 .. m : s[i] = t[i]
    /\ m = Len(s) \/ (m = Len(s) - 1 /\ s[Len(s)] = Bad)

(***************************************************************************)
(* A chain in front of both keeps the one part of the other.               *)
(***************************************************************************)
LEMMA PartPrepended ==
  ASSUME NEW s \in Seq(Loadable), NEW t \in Seq(Loadable), PartOf(s, t),
         NEW c \in Chains
  PROVE  PartOf(<< c >> \o s, << c >> \o t)
<1> DEFINE cs == << c >> \o s
           ct == << c >> \o t
<1>1. << c >> \in Seq(Loadable)
  BY DEF Loadable
<1>2. /\ Len(cs) = Len(s) + 1 /\ cs[1] = c
      /\ \A i \in 1 .. Len(s) : cs[i + 1] = s[i]
  BY <1>1, Prepended
<1>3. /\ Len(ct) = Len(t) + 1 /\ ct[1] = c
      /\ \A i \in 1 .. Len(t) : ct[i + 1] = t[i]
  BY <1>1, Prepended
<1>4. Len(s) \in Nat /\ Len(t) \in Nat
  OBVIOUS
<1> DEFINE a == Len(s)
           b == Len(t)
<1>5. PICK m \in Nat : /\ m <= a /\ m <= b
                       /\ \A i \in 1 .. m : s[i] = t[i]
                       /\ m = a \/ (m = a - 1 /\ s[a] = Bad)
  BY DEF PartOf
<1> HIDE DEF cs, ct, a, b
<1>6. ASSUME NEW i \in 1 .. m + 1 PROVE cs[i] = ct[i]
  <2>1. CASE i = 1
    BY <1>2, <1>3, <2>1
  <2>2. CASE i # 1
    <3>1. i - 1 \in 1 .. m /\ i - 1 \in 1 .. a /\ i - 1 \in 1 .. b
          /\ (i - 1) + 1 = i
      BY <1>4, <1>5, <2>2 DEF a, b
    <3>2. cs[(i - 1) + 1] = s[i - 1] /\ ct[(i - 1) + 1] = t[i - 1]
      BY <1>2, <1>3, <3>1 DEF a, b
    <3>3. s[i - 1] = t[i - 1]
      BY <1>5, <3>1
    <3> QED
      BY <3>1, <3>2, <3>3
  <2> QED
    BY <2>1, <2>2
<1>7. m = a - 1 /\ s[a] = Bad => m + 1 = (a + 1) - 1 /\ cs[a + 1] = Bad
  <2> SUFFICES ASSUME m = a - 1, s[a] = Bad
               PROVE  m + 1 = (a + 1) - 1 /\ cs[a + 1] = Bad
    OBVIOUS
  <2>1. a \in Nat /\ a \in 1 .. a
    BY <1>4 DEF a
  <2>2. cs[a + 1] = s[a]
    BY <1>2, <2>1 DEF a
  <2> QED
    BY <1>5, <2>1, <2>2
<1>8. Len(cs) = a + 1 /\ Len(ct) = b + 1 /\ a \in Nat /\ b \in Nat
  BY <1>2, <1>3, <1>4 DEF a, b
<1>9. /\ m + 1 \in Nat /\ m + 1 <= Len(cs) /\ m + 1 <= Len(ct)
      /\ m + 1 = Len(cs) \/ (m + 1 = Len(cs) - 1 /\ cs[Len(cs)] = Bad)
  BY <1>5, <1>7, <1>8
<1>10. PartOf(cs, ct)
  BY <1>6, <1>9 DEF PartOf
<1> QED
  BY <1>10 DEF cs, ct

(***************************************************************************)
(* Decoding the beginning of a file gives a part of what the file holds.   *)
(***************************************************************************)
LEMMA DecodePart ==
  ASSUME NEW cells \in Seq(Cells), NEW t \in 0 .. Len(cells)
  PROVE  PartOf(Decode(SubSeq(cells, 1, t)), Decode(cells))
<1> DEFINE s == SubSeq(cells, 1, t)
           n == Len(cells)
<1>1. /\ s \in Seq(Cells) /\ Len(s) = t /\ t \in Nat /\ n \in Nat /\ t <= n
      /\ \A i \in 1 .. t : s[i] = cells[i]
  OBVIOUS
<1> HIDE DEF s, n
<1>2. PICK f : Decodes(s, f) /\ Decode(s) = f[1]
  BY <1>1, DecodeUnfolds
<1>3. PICK g : Decodes(cells, g) /\ Decode(cells) = g[1]
  BY DecodeUnfolds
<1>4. /\ \A p \in 1 .. t + 1 : /\ f[p] \in Seq(Loadable)
                               /\ f[p] = DecodeStep(s, f, p)
      /\ \A p \in 1 .. n + 1 : /\ g[p] \in Seq(Loadable)
                               /\ g[p] = DecodeStep(cells, g, p)
  BY <1>1, <1>2, <1>3, DecodedTyped DEF Decodes, n
<1>5. ASSUME NEW p \in 1 .. t + 1, NEW c \in Chains, Whole(s, p, c)
      PROVE  Whole(cells, p, c)
  <2> DEFINE k == Size[c]
  <2>1. k \in Nat /\ p \in Nat \ {0}
    BY <1>1, EntryFacts
  <2>2. p + k <= t /\ \A i \in 0 .. k : s[p + i] = << c, i >>
    BY <1>1, <1>5, <2>1, WholeMeans
  <2>3. \A i \in 0 .. k : cells[p + i] = << c, i >>
    <3> HIDE DEF k
    <3> TAKE i \in 0 .. k
    <3>1. p + i \in 1 .. t
      BY <1>1, <2>1, <2>2
    <3> QED
      BY <1>1, <2>2, <3>1
  <2>4. p + k <= Len(cells)
    <3> HIDE DEF k
    <3> QED
      BY <1>1, <2>1, <2>2 DEF n
  <2> QED
    BY <2>1, <2>3, <2>4, WholeMeans
<1> DEFINE G == {p \in 1 .. t + 1 : PartOf(f[p], g[p])}
<1>6. ASSUME NEW p \in 1 .. t + 1, \A q \in p + 1 .. t + 1 : q \in G
      PROVE  p \in G
  <2>0. /\ p \in 1 .. n + 1
        /\ f[p] \in Seq(Loadable) /\ f[p] = DecodeStep(s, f, p)
        /\ g[p] \in Seq(Loadable) /\ g[p] = DecodeStep(cells, g, p)
    BY <1>1, <1>4
  <2>1. ASSUME NEW c \in Chains, Whole(s, p, c) PROVE p \in G
    <3> DEFINE q == p + Size[c] + 1
    <3>1. f[p] = << c >> \o f[q] /\ q \in p + 1 .. t + 1
      BY <1>1, <2>0, <2>1, StepOfEntry
    <3>2. g[p] = << c >> \o g[q]
      BY <1>5, <2>0, <2>1, StepOfEntry DEF n
    <3> HIDE DEF q
    <3>3. PartOf(f[q], g[q])
      BY <1>6, <3>1
    <3>4. f[q] \in Seq(Loadable) /\ g[q] \in Seq(Loadable)
      BY <1>1, <1>4, <3>1
    <3>5. PartOf(f[p], g[p])
      BY <3>1, <3>2, <3>3, <3>4, PartPrepended
    <3> QED
      BY <3>5
  <2>2. CASE ~ \E c \in Chains : Whole(s, p, c)
    <3>1. f[p] = << >> \/ f[p] = << Bad >>
      BY <2>0, <2>2 DEF DecodeStep
    <3>2. Len(g[p]) \in Nat
      BY <2>0
    <3>3. CASE f[p] = << >>
      <4>1. Len(f[p]) = 0
        BY <3>3
      <4>2. 0 \in Nat /\ 0 <= Len(f[p]) /\ 0 <= Len(g[p])
            /\ 0 = Len(f[p]) /\ \A i \in 1 .. 0 : f[p][i] = g[p][i]
        BY <3>2, <4>1
      <4>3. PartOf(f[p], g[p])
        BY <4>2 DEF PartOf
      <4> QED
        BY <4>3
    <3>4. CASE f[p] = << Bad >>
      <4>1. Len(f[p]) = 1 /\ f[p][Len(f[p])] = Bad
        BY <3>4
      <4>2. 0 \in Nat /\ 0 <= Len(f[p]) /\ 0 <= Len(g[p])
            /\ 0 = Len(f[p]) - 1 /\ \A i \in 1 .. 0 : f[p][i] = g[p][i]
        BY <3>2, <4>1
      <4>3. PartOf(f[p], g[p])
        BY <4>1, <4>2 DEF PartOf
      <4> QED
        BY <4>3
    <3> QED
      BY <3>1, <3>3, <3>4
  <2> QED
    BY <2>1, <2>2
<1>7. 1 \in G
  <2>1. t + 1 \in Nat /\ 1 \in 1 .. t + 1
    BY <1>1
  <2> HIDE DEF G
  <2> QED
    BY <1>6, <2>1, DownInduction
<1> QED
  BY <1>2, <1>3, <1>7 DEF s

(***************************************************************************)
(* The same in the words of LoadReturnsFile.                               *)
(***************************************************************************)
LEMMA PartMeans ==
  ASSUME NEW s \in Seq(Loadable), NEW t \in Seq(Loadable), PartOf(s, t)
  PROVE  \/ IsPrefix(s, t)
         \/ s # << >> /\ Last(s) = Bad /\ IsPrefix(Front(s), t)
<1> DEFINE a == Len(s)
<1>1. PICK m \in Nat : /\ m <= Len(s) /\ m <= Len(t)
                       /\ \A i \in 1 .. m : s[i] = t[i]
                       /\ m = Len(s) \/ (m = Len(s) - 1 /\ s[Len(s)] = Bad)
  BY DEF PartOf
<1>2. SubSeq(s, 1, m) = SubSeq(t, 1, m)
  BY <1>1
<1>3. CASE m = Len(s)
  BY <1>1, <1>2, <1>3 DEF IsPrefix
<1>4. CASE m = Len(s) - 1 /\ s[Len(s)] = Bad
  <2>1. Front(s) = SubSeq(s, 1, m) /\ Len(Front(s)) = m
    BY <1>1, <1>4 DEF Front
  <2>2. SubSeq(Front(s), 1, m) = SubSeq(t, 1, m)
    BY <1>1, <1>2, <2>1
  <2>3. IsPrefix(Front(s), t)
    BY <1>1, <2>1, <2>2 DEF IsPrefix
  <2>4. s # << >>
    BY <1>1, <1>4
  <2> QED
    BY <1>4, <2>3, <2>4 DEF Last
<1> QED
  BY <1>1, <1>3, <1>4
-----------------------------------------------------------------------------
(***************************************************************************)
(* Writing into a buffer, and making it larger.                            *)
(***************************************************************************)
LEMMA PutFacts ==
  ASSUME NEW b \in Seq(Cells), NEW at \in Nat, NEW cells \in Seq(Cells),
         at + Len(cells) <= Len(b)
  PROVE  /\ PutAt(b, at, cells) \in Seq(Cells)
         /\ Len(PutAt(b, at, cells)) = Len(b)
         /\ \A i \in 1 .. at : PutAt(b, at, cells)[i] = b[i]
         /\ \A i \in 1 .. Len(cells) : PutAt(b, at, cells)[at + i] = cells[i]
<1> DEFINE r == PutAt(b, at, cells)
           n == Len(b)
           m == Len(cells)
<1>1. n \in Nat /\ m \in Nat /\ at + m <= n
  OBVIOUS
<1>2. r = [i \in 1 .. n |-> IF i \in at + 1 .. at + m THEN cells[i - at] ELSE b[i]]
  BY DEF PutAt
<1>3. \A i \in 1 .. n : b[i] \in Cells
  OBVIOUS
<1>4. \A i \in 1 .. m : cells[i] \in Cells
  OBVIOUS
<1> HIDE DEF n, m, r
<1>5. \A i \in at + 1 .. at + m : i - at \in 1 .. m
  BY <1>1
<1>6. \A i \in 1 .. n : r[i] \in Cells
  BY <1>2, <1>3, <1>4, <1>5
<1>7. r \in Seq(Cells) /\ Len(r) = n
  <2>1. r = [i \in 1 .. n |-> r[i]]
    BY <1>2
  <2> QED
    BY ONLY <1>1, <1>6, <2>1, FunctionIsSeq
<1>8. \A i \in 1 .. at : i \in 1 .. n /\ i \notin at + 1 .. at + m
  BY <1>1
<1>9. \A i \in 1 .. at : r[i] = b[i]
  BY <1>2, <1>8
<1>10. \A i \in 1 .. m : at + i \in 1 .. n /\ at + i \in at + 1 .. at + m
                         /\ (at + i) - at = i
  BY <1>1
<1>11. \A i \in 1 .. m : r[at + i] = cells[i]
  BY <1>2, <1>10
<1> QED
  BY <1>7, <1>9, <1>11 DEF n, m, r

(***************************************************************************)
(* resize keeps what fits.                                                 *)
(***************************************************************************)
LEMMA ResizeFacts ==
  ASSUME NEW b \in Seq(Cells), NEW n \in Nat
  PROVE  /\ Resize(b, n) \in Seq(Cells) /\ Len(Resize(b, n)) = n
         /\ \A i \in 1 .. n : i <= Len(b) => Resize(b, n)[i] = b[i]
<1> DEFINE r == Resize(b, n)
<1>1. r = [i \in 1 .. n |-> IF i <= Len(b) THEN b[i] ELSE Zero]
  BY DEF Resize
<1> HIDE DEF r
<1>2. \A i \in 1 .. n : r[i] \in Cells
  <2> TAKE i \in 1 .. n
  <2>1. i <= Len(b) => b[i] \in Cells
    OBVIOUS
  <2> QED
    BY <1>1, <2>1 DEF Cells
<1> QED
  BY <1>1, <1>2 DEF r

(***************************************************************************)
(* The entry of c behind the first cells of a buffer or a file.            *)
(***************************************************************************)
Holds(cells, at, c) == \A i \in 1 .. Size[c] + 1 : cells[at + i] = << c, i - 1 >>

(***************************************************************************)
(* What encode_vec_into holds of its state.                                *)
(***************************************************************************)
Encoding == [buffer : Seq(Cells), offset : Nat, status : {"ok", "panic", "hang"}]

InBuffer(st) ==
  /\ st \in Encoding
  /\ Len(st.buffer) >= B
  /\ st.offset <= Len(st.buffer)

(***************************************************************************)
(* Writing one entry leaves the entries before it as they are.             *)
(***************************************************************************)
WithEntry(st, b, c) ==
  [st EXCEPT !.buffer = PutAt(b, st.offset, Entry(c)), !.offset = @ + Size[c] + 1]

(***************************************************************************)
(* What encode_vec_into leaves when it puts a chain into a buffer with     *)
(* room for it: the chain behind what was there.                           *)
(***************************************************************************)
LEMMA EntryPut ==
  ASSUME NEW st, InBuffer(st), NEW c \in Chains, NEW b \in Seq(Cells),
         Len(b) >= B, Fits(b, st.offset, c),
         \A i \in 1 .. st.offset : b[i] = st.buffer[i],
         NEW r, r = WithEntry(st, b, c)
  PROVE  /\ InBuffer(r) /\ r.status = st.status
         /\ r.offset = st.offset + Size[c] + 1
         /\ \A i \in 1 .. st.offset : r.buffer[i] = st.buffer[i]
         /\ Holds(r.buffer, st.offset, c)
<1> DEFINE at == st.offset
           m == Size[c] + 1
           e == Entry(c)
           p == PutAt(b, at, e)
<1>1. /\ at \in Nat /\ m \in Nat /\ Size[c] \in Nat
      /\ e \in Seq(Cells) /\ Len(e) = m
      /\ \A i \in 1 .. m : e[i] = << c, i - 1 >>
  BY EntryFacts DEF InBuffer, Encoding
<1>2. at + m <= Len(b)
  BY <1>1 DEF Fits
<1>3. at + m = st.offset + Size[c] + 1
  BY <1>1
<1>4. r = [buffer |-> p, offset |-> st.offset + Size[c] + 1, status |-> st.status]
  BY DEF WithEntry, InBuffer, Encoding
<1>5. p = PutAt(b, at, e)
  OBVIOUS
<1> HIDE DEF e, m, p
<1>6. r.buffer = p /\ r.offset = at + m /\ r.status = st.status
  BY <1>3, <1>4
<1>7. st.status \in {"ok", "panic", "hang"}
  BY DEF InBuffer, Encoding
<1> HIDE DEF at
<1>8. /\ p \in Seq(Cells) /\ Len(p) = Len(b)
      /\ \A i \in 1 .. at : p[i] = b[i]
      /\ \A i \in 1 .. m : p[at + i] = e[i]
  <2>1. e \in Seq(Cells) /\ at \in Nat /\ at + Len(e) <= Len(b) /\ Len(e) = m
    BY <1>1, <1>2
  <2>2. /\ PutAt(b, at, e) \in Seq(Cells)
        /\ Len(PutAt(b, at, e)) = Len(b)
        /\ \A i \in 1 .. at : PutAt(b, at, e)[i] = b[i]
        /\ \A i \in 1 .. Len(e) : PutAt(b, at, e)[at + i] = e[i]
    BY <2>1, PutFacts
  <2> QED
    BY ONLY <1>5, <2>1, <2>2
<1>9. InBuffer(r)
  <2>1. r \in Encoding
    BY <1>1, <1>3, <1>4, <1>7, <1>8 DEF Encoding
  <2> QED
    BY <1>1, <1>2, <1>6, <1>8, <2>1 DEF InBuffer
<1>10. \A i \in 1 .. at : r.buffer[i] = st.buffer[i]
  BY <1>6, <1>8 DEF at
<1>11. Holds(r.buffer, at, c)
  BY <1>1, <1>6, <1>8 DEF Holds, m
<1> QED
  BY <1>3, <1>6, <1>9, <1>10, <1>11 DEF at

(***************************************************************************)
(* One step of encode_vec_into.                                            *)
(***************************************************************************)
LEMMA EncodeNextFacts ==
  ASSUME NEW st, InBuffer(st), NEW c \in Chains
  PROVE  LET r == EncodeNext(st, c)
         IN  /\ InBuffer(r)
             /\ r.status = "ok" =>
                  /\ st.status = "ok"
                  /\ r.offset = st.offset + Size[c] + 1
                  /\ \A i \in 1 .. st.offset : r.buffer[i] = st.buffer[i]
                  /\ Holds(r.buffer, st.offset, c)
<1> DEFINE r == EncodeNext(st, c)
<1>0. r = EncodeNext(st, c)
  OBVIOUS
<1> DEFINE Goal == /\ InBuffer(r)
                   /\ r.status = "ok" =>
                        /\ st.status = "ok"
                        /\ r.offset = st.offset + Size[c] + 1
                        /\ \A i \in 1 .. st.offset : r.buffer[i] = st.buffer[i]
                        /\ Holds(r.buffer, st.offset, c)
<1> SUFFICES Goal
  OBVIOUS
<1> HIDE DEF r
<1> DEFINE grown == Resize(st.buffer, 2 * B)
<1>1. /\ st.buffer \in Seq(Cells) /\ st.offset \in Nat /\ Len(st.buffer) >= B
      /\ Len(st.buffer) \in Nat /\ B \in Nat /\ 2 * B \in Nat /\ 2 * B >= B
  BY BAssumption DEF InBuffer, Encoding
<1>2. /\ grown \in Seq(Cells) /\ Len(grown) = 2 * B
      /\ \A i \in 1 .. 2 * B : i <= Len(st.buffer) => grown[i] = st.buffer[i]
  <2> DEFINE n == 2 * B
  <2>1. grown = Resize(st.buffer, n) /\ n \in Nat
    BY <1>1
  <2> HIDE DEF grown, n
  <2>2. /\ grown \in Seq(Cells) /\ Len(grown) = n
        /\ \A i \in 1 .. n : i <= Len(st.buffer) => grown[i] = st.buffer[i]
    BY <1>1, <2>1, ResizeFacts
  <2> QED
    BY <2>2 DEF n
<1>3. CASE r = st /\ st.status # "ok"
  BY <1>3
<1>4. CASE r = [st EXCEPT !.status = "panic"] \/ r = [st EXCEPT !.status = "hang"]
  BY <1>4 DEF InBuffer, Encoding
<1>5. CASE r = WithEntry(st, st.buffer, c) /\ Fits(st.buffer, st.offset, c)
           /\ st.status = "ok"
  BY <1>1, <1>5, EntryPut
<1>6. CASE r = WithEntry(st, grown, c) /\ Fits(grown, st.offset, c)
           /\ st.status = "ok"
           /\ ~ (st.offset >= Len(st.buffer)) /\ ~ (st.offset >= 2 * B)
  <2> HIDE DEF grown
  <2>1. \A i \in 1 .. st.offset : grown[i] = st.buffer[i]
    BY <1>1, <1>2, <1>6
  <2>2. Len(grown) >= B
    BY <1>1, <1>2
  <2> QED
    BY <1>2, <1>6, <2>1, <2>2, EntryPut
<1>7. \/ r = st /\ st.status # "ok"
      \/ r = [st EXCEPT !.status = "panic"] \/ r = [st EXCEPT !.status = "hang"]
      \/ r = WithEntry(st, st.buffer, c) /\ Fits(st.buffer, st.offset, c)
         /\ st.status = "ok"
      \/ r = WithEntry(st, grown, c) /\ Fits(grown, st.offset, c)
         /\ st.status = "ok"
         /\ ~ (st.offset >= Len(st.buffer)) /\ ~ (st.offset >= 2 * B)
  <2> HIDE DEF grown
  <2> DEFINE o == st.offset
             l == Len(st.buffer)
  <2>1. CASE st.status # "ok"
    BY <2>1, <1>0, Zenon DEF EncodeNext
  <2>2. CASE st.status = "ok" /\ o >= l
    BY <2>2, <1>0, Zenon DEF EncodeNext
  <2>3. CASE st.status = "ok" /\ ~ (o >= l) /\ Fits(st.buffer, o, c)
    BY <2>3, <1>0, Zenon DEF EncodeNext, WithEntry
  <2>4. CASE st.status = "ok" /\ ~ (o >= l) /\ ~ Fits(st.buffer, o, c)
             /\ o >= 2 * B
    BY <2>4, <1>0, Zenon DEF EncodeNext
  <2>5. CASE st.status = "ok" /\ ~ (o >= l) /\ ~ Fits(st.buffer, o, c)
             /\ ~ (o >= 2 * B) /\ Fits(grown, o, c)
    BY <2>5, <1>0, Zenon DEF EncodeNext, WithEntry, grown
  <2>6. CASE st.status = "ok" /\ ~ (o >= l) /\ ~ Fits(st.buffer, o, c)
             /\ ~ (o >= 2 * B) /\ ~ Fits(grown, o, c)
    BY <2>6, <1>0, Zenon DEF EncodeNext, grown
  <2> QED
    BY <2>1, <2>2, <2>3, <2>4, <2>5, <2>6, Zenon
<1> QED
  BY <1>3, <1>4, <1>5, <1>6, <1>7

(***************************************************************************)
(* The function that EncodeVec defines by recursion exists.                *)
(***************************************************************************)
EncodeStep(b, cs, f, n) ==
  IF n = 0 THEN [buffer |-> b, offset |-> 0, status |-> "ok"]
  ELSE EncodeNext(f[n - 1], cs[n])

Encodes(b, cs, f) == f = [n \in 0 .. Len(cs) |-> EncodeStep(b, cs, f, n)]

(***************************************************************************)
(* Such a function exists for every vector.                                *)
(***************************************************************************)
LEMMA EncodeExists ==
  ASSUME NEW b, NEW cs \in Seq(Chains)
  PROVE  \E f : Encodes(b, cs, f)
<1> DEFINE Part(k, f) == f = [n \in 0 .. k |-> EncodeStep(b, cs, f, n)]
           G == {k \in Nat : \E f : Part(k, f)}
<1>1. 0 \in G
  <2> DEFINE f == [n \in 0 .. 0 |-> [buffer |-> b, offset |-> 0, status |-> "ok"]]
  <2>1. Part(0, f)
    BY DEF EncodeStep
  <2> QED
    BY <2>1
<1>2. ASSUME NEW k \in Nat, k \in G PROVE k + 1 \in G
  <2>1. PICK g : Part(k, g)
    BY <1>2
  <2> DEFINE f == [n \in 0 .. k + 1 |->
                     IF n <= k THEN g[n] ELSE EncodeStep(b, cs, g, n)]
  <2>2. \A n \in 0 .. k : f[n] = g[n]
    OBVIOUS
  <2>3. ASSUME NEW n \in 0 .. k + 1 PROVE f[n] = EncodeStep(b, cs, f, n)
    <3>1. n # 0 => n - 1 \in 0 .. k
      OBVIOUS
    <3>2. n # 0 => f[n - 1] = g[n - 1]
      BY <2>2, <3>1
    <3>3. EncodeStep(b, cs, f, n) = EncodeStep(b, cs, g, n)
      BY <3>2 DEF EncodeStep
    <3>4. n <= k => g[n] = EncodeStep(b, cs, g, n)
      BY <2>1
    <3> QED
      BY <3>3, <3>4
  <2>4. f = [n \in 0 .. k + 1 |-> f[n]]
    OBVIOUS
  <2>5. Part(k + 1, f)
    <3> HIDE DEF f
    <3> QED
      BY <2>3, <2>4
  <2> HIDE DEF f
  <2>6. \E h : Part(k + 1, h)
    BY <2>5
  <2> QED
    BY <2>6
<1>3. Len(cs) \in G
  <2>1. Len(cs) \in Nat
    OBVIOUS
  <2> HIDE DEF G
  <2> QED
    BY <1>1, <1>2, <2>1, UpInduction
<1> QED
  BY <1>3 DEF Encodes

(***************************************************************************)
(* EncodeVec returns what it says of the whole vector.                     *)
(***************************************************************************)
LEMMA EncodeUnfolds ==
  ASSUME NEW b, NEW cs \in Seq(Chains)
  PROVE  \E f : Encodes(b, cs, f) /\ EncodeVec(b, cs) = f[Len(cs)]
<1>1. Encodes(b, cs, CHOOSE f : Encodes(b, cs, f))
  BY EncodeExists, Zenon
<1>2. EncodeVec(b, cs) = (CHOOSE f : Encodes(b, cs, f))[Len(cs)]
  BY DEF EncodeVec, Encodes, EncodeStep
<1> QED
  BY <1>1, <1>2

(***************************************************************************)
(* The first n chains of cs lie one behind the other in the cells; chain k *)
(* ends at o[k].                                                           *)
(***************************************************************************)
Laid(cs, n, cells, o) ==
  /\ o[0] = 0
  /\ \A k \in 0 .. n : o[k] \in Nat /\ o[k] <= o[n]
  /\ o[n] <= Len(cells)
  /\ \A k \in 1 .. n : /\ o[k] = o[k - 1] + Size[cs[k]] + 1
                       /\ Holds(cells, o[k - 1], cs[k])

(***************************************************************************)
(* It stays so whatever comes behind it.                                   *)
(***************************************************************************)
LEMMA StaysLaid ==
  ASSUME NEW cs \in Seq(Chains), NEW n \in 0 .. Len(cs), NEW o, NEW cells,
  NEW new,
         Laid(cs, n, cells, o), o[n] <= Len(new),
         \A i \in 1 .. o[n] : new[i] = cells[i]
  PROVE  Laid(cs, n, new, o)
<1>1. ASSUME NEW k \in 1 .. n PROVE Holds(new, o[k - 1], cs[k])
  <2> DEFINE m == Size[cs[k]] + 1
             a == o[k - 1]
  <2>1. /\ k - 1 \in 0 .. n /\ k \in 0 .. n /\ cs[k] \in Chains
    OBVIOUS
  <2>2. m \in Nat /\ a \in Nat /\ o[n] \in Nat /\ a + m <= o[n]
    <3>1. Size[cs[k]] \in Nat
      BY <2>1, EntryFacts
    <3>2. a \in Nat /\ o[k] \in Nat /\ o[k] <= o[n] /\ o[n] \in Nat
          /\ o[k] = a + Size[cs[k]] + 1
      BY <2>1 DEF Laid
    <3> QED
      BY <3>1, <3>2
  <2>3. \A i \in 1 .. m : cells[a + i] = << cs[k], i - 1 >>
    BY DEF Laid, Holds
  <2> HIDE DEF m, a
  <2>4. \A i \in 1 .. m : a + i \in 1 .. o[n]
    BY <2>2
  <2>5. \A i \in 1 .. m : new[a + i] = << cs[k], i - 1 >>
    BY <2>3, <2>4
  <2> QED
    BY <2>5 DEF Holds, m, a
<1> QED
  BY <1>1 DEF Laid

(***************************************************************************)
(* What save_chains_to_bundle finds in the buffer when all is encoded.     *)
(***************************************************************************)
LEMMA EncodeFacts ==
  ASSUME NEW b \in Seq(Cells), Len(b) >= B, NEW cs \in Seq(Chains)
  PROVE  /\ InBuffer(EncodeVec(b, cs))
         /\ EncodeVec(b, cs).status = "ok" =>
              \E o : /\ Laid(cs, Len(cs), EncodeVec(b, cs).buffer, o)
                     /\ o[Len(cs)] = EncodeVec(b, cs).offset
<1> DEFINE m == Len(cs)
<1>1. m \in Nat /\ \A k \in 1 .. m : cs[k] \in Chains
  OBVIOUS
<1>2. PICK f : Encodes(b, cs, f) /\ EncodeVec(b, cs) = f[m]
  BY EncodeUnfolds
<1>3. \A n \in 0 .. m : f[n] = EncodeStep(b, cs, f, n)
  BY <1>2 DEF Encodes
<1> DEFINE o == [n \in 0 .. m |-> f[n].offset]
           Good(n) == /\ InBuffer(f[n])
                      /\ f[n].status = "ok" => Laid(cs, n, f[n].buffer, o)
           G == {n \in Nat : n <= m => Good(n)}
<1>4. 0 \in G
  <2>1. f[0] = [buffer |-> b, offset |-> 0, status |-> "ok"]
    BY <1>1, <1>3 DEF EncodeStep
  <2>2. InBuffer(f[0])
    BY <2>1 DEF InBuffer, Encoding
  <2>3. o[0] = 0
    BY <1>1, <2>1
  <2>4. Laid(cs, 0, f[0].buffer, o)
    <3> HIDE DEF o
    <3> QED
      BY <2>1, <2>3 DEF Laid
  <2> QED
    BY <2>2, <2>4
<1>5. ASSUME NEW n \in Nat, n \in G PROVE n + 1 \in G
  <2> SUFFICES ASSUME n + 1 <= m PROVE Good(n + 1)
    OBVIOUS
  <2>1. /\ n \in 0 .. m /\ n + 1 \in 1 .. m /\ n + 1 \in 0 .. m /\ n + 1 # 0
        /\ (n + 1) - 1 = n
    BY <1>1
  <2> DEFINE c == cs[n + 1]
             st == f[n]
             r == f[n + 1]
  <2>2. Good(n) /\ c \in Chains
    BY <1>1, <1>5, <2>1
  <2>3. r = EncodeNext(st, c)
    <3>1. r = EncodeStep(b, cs, f, n + 1)
      BY <1>3, <2>1
    <3> QED
      BY <2>1, <3>1 DEF EncodeStep
  <2>4. /\ InBuffer(r)
        /\ r.status = "ok" =>
             /\ st.status = "ok"
             /\ r.offset = st.offset + Size[c] + 1
             /\ \A i \in 1 .. st.offset : r.buffer[i] = st.buffer[i]
             /\ Holds(r.buffer, st.offset, c)
    <3>1. InBuffer(st)
      BY <2>2
    <3> HIDE DEF st, r, c
    <3> QED
      BY <2>2, <2>3, <3>1, EncodeNextFacts
  <2>5. o[n] = st.offset /\ o[n + 1] = r.offset
    BY <2>1
  <2>6. ASSUME r.status = "ok" PROVE Laid(cs, n + 1, r.buffer, o)
    <3>1. /\ Laid(cs, n, st.buffer, o)
          /\ r.offset = st.offset + Size[c] + 1
          /\ \A i \in 1 .. st.offset : r.buffer[i] = st.buffer[i]
          /\ Holds(r.buffer, st.offset, c)
      BY <2>2, <2>4, <2>6
    <3>2. /\ r.offset \in Nat /\ r.offset <= Len(r.buffer) /\ Len(r.buffer) \in Nat
          /\ st.offset \in Nat /\ Size[c] \in Nat
      BY <2>2, <2>4, EntryFacts DEF InBuffer, Encoding
    <3> HIDE DEF o, r, st, c
    <3>3. Laid(cs, n, r.buffer, o)
      <4>1. o[n] <= Len(r.buffer) /\ \A i \in 1 .. o[n] : r.buffer[i] = st.buffer[i]
        BY <2>5, <3>1, <3>2
      <4> QED
        BY <2>1, <3>1, <4>1, StaysLaid DEF m
    <3>4. ASSUME NEW k \in 0 .. n + 1 PROVE o[k] \in Nat /\ o[k] <= o[n + 1]
      <4>1. CASE k = n + 1
        BY <2>5, <3>2, <4>1
      <4>2. CASE k # n + 1
        <5>1. k \in 0 .. n
          BY <4>2
        <5>2. o[k] \in Nat /\ o[k] <= o[n]
          BY <3>3, <5>1 DEF Laid
        <5> QED
          BY <2>5, <3>1, <3>2, <5>2
      <4> QED
        BY <4>1, <4>2
    <3>5. ASSUME NEW k \in 1 .. n + 1
          PROVE  o[k] = o[k - 1] + Size[cs[k]] + 1 /\ Holds(r.buffer, o[k - 1], cs[k])
      <4>1. CASE k = n + 1
        BY <2>1, <2>5, <3>1, <4>1 DEF c
      <4>2. CASE k # n + 1
        <5>1. k \in 1 .. n
          BY <4>2
        <5> QED
          BY <3>3, <5>1 DEF Laid
      <4> QED
        BY <4>1, <4>2
    <3> QED
      BY <2>5, <3>2, <3>3, <3>4, <3>5 DEF Laid
  <2> QED
    BY <2>4, <2>6
<1>6. m \in G
  <2> HIDE DEF G, m
  <2> QED
    BY <1>1, <1>4, <1>5, UpInduction
<1>7. Good(m) /\ o[m] = f[m].offset
  BY <1>1, <1>6
<1> HIDE DEF o
<1> QED
  BY <1>2, <1>7 DEF m

(***************************************************************************)
(* Decoding cells in which chains lie one behind the other gives them, in  *)
(* their order, whatever lies behind them.                                 *)
(***************************************************************************)
LEMMA LaidDecodes ==
  ASSUME NEW cells \in Seq(Cells), NEW cs \in Seq(Chains), NEW o,
         Laid(cs, Len(cs), cells, o)
  PROVE  IsPrefix(cs, Decode(cells))
<1> DEFINE m == Len(cs)
           l == Len(cells)
<1>1. m \in Nat /\ l \in Nat /\ \A k \in 1 .. m : cs[k] \in Chains
  OBVIOUS
<1>2. PICK g : Decodes(cells, g) /\ Decode(cells) = g[1]
  BY DecodeUnfolds
<1>3. \A p \in 1 .. l + 1 : g[p] \in Seq(Loadable) /\ g[p] = DecodeStep(cells, g, p)
  BY <1>2, DecodedTyped DEF Decodes
<1>4. \A k \in 0 .. m : o[k] \in Nat /\ o[k] + 1 \in 1 .. l + 1
  <2> TAKE k \in 0 .. m
  <2>1. o[k] \in Nat /\ o[m] \in Nat /\ o[k] <= o[m] /\ o[m] <= l
    BY <1>1 DEF Laid
  <2> QED
    BY <1>1, <2>1
<1> HIDE DEF m, l
<1> DEFINE After(k) == /\ Len(g[o[k] + 1]) >= m - k
                       /\ \A i \in 1 .. m - k : g[o[k] + 1][i] = cs[k + i]
           G == {j \in Nat : j <= m => After(m - j)}
<1>5. 0 \in G
  <2>1. Len(g[o[m] + 1]) \in Nat
    <3>1. g[o[m] + 1] \in Seq(Loadable)
      BY <1>1, <1>3, <1>4
    <3> QED
      BY <3>1
  <2> QED
    BY <1>1, <2>1
<1>6. ASSUME NEW j \in Nat, j \in G PROVE j + 1 \in G
  <2> SUFFICES ASSUME j + 1 <= m PROVE After(m - (j + 1))
    OBVIOUS
  <2> DEFINE k == m - (j + 1)
  <2>1. /\ k \in 0 .. m /\ k + 1 \in 1 .. m /\ k + 1 \in 0 .. m /\ m - j = k + 1
        /\ (k + 1) - 1 = k /\ j <= m /\ k \in Nat
    BY <1>1
  <2> HIDE DEF k
  <2>2. After(k + 1)
    BY <1>6, <2>1
  <2> DEFINE c == cs[k + 1]
             p == o[k] + 1
             q == o[k + 1] + 1
  <2>3. /\ c \in Chains /\ Size[c] \in Nat /\ p \in 1 .. l + 1 /\ q \in 1 .. l + 1
        /\ o[k] \in Nat /\ o[k + 1] \in Nat
        /\ o[k + 1] = o[k] + Size[c] + 1 /\ Holds(cells, o[k], c)
    <3>1. c \in Chains
      BY <1>1, <2>1
    <3> QED
      BY <1>4, <2>1, <3>1, EntryFacts DEF Laid, m
  <2> HIDE DEF c
  <2>4. q = p + Size[c] + 1
    BY <2>3
  <2>5. Whole(cells, p, c)
    <3>1. p + Size[c] <= Len(cells)
      <4>1. q <= l + 1 /\ Len(cells) = l /\ l \in Nat /\ p \in Nat /\ Size[c] \in Nat
        BY <1>1, <2>3 DEF l
      <4> QED
        BY ONLY <4>1, <2>4
    <3>2. \A i \in 0 .. Size[c] : cells[p + i] = << c, i >>
      <4> TAKE i \in 0 .. Size[c]
      <4> DEFINE z == Size[c]
                 a == o[k]
      <4>0. z \in Nat /\ a \in Nat /\ i \in 0 .. z /\ p = a + 1
        BY <2>3
      <4> HIDE DEF z, a, p
      <4>1. i + 1 \in 1 .. Size[c] + 1 /\ (i + 1) - 1 = i
        <5>1. i + 1 \in 1 .. z + 1 /\ (i + 1) - 1 = i
          BY ONLY <4>0
        <5> QED
          BY ONLY <5>1 DEF z
      <4>2. o[k] + (i + 1) = p + i
        <5>1. a + (i + 1) = p + i
          BY ONLY <4>0
        <5> QED
          BY ONLY <5>1 DEF a
      <4> QED
        BY <2>3, <4>1, <4>2 DEF Holds
    <3>3. p \in Nat \ {0}
      <4> HIDE DEF p
      <4> QED
        BY ONLY <2>3, <1>1
    <3> HIDE DEF p
    <3> QED
      BY <2>3, <3>1, <3>2, <3>3, WholeMeans
  <2>6. g[p] = << c >> \o g[q]
    <3>1. c \in Chains /\ p \in 1 .. Len(cells) + 1 /\ g[p] = DecodeStep(cells, g, p)
      BY <1>3, <2>3 DEF l
    <3> HIDE DEF p, q
    <3>2. DecodeStep(cells, g, p) = << c >> \o g[p + Size[c] + 1]
      BY <2>5, <3>1, StepOfEntry
    <3> QED
      BY ONLY <2>4, <3>1, <3>2
  <2> DEFINE s == g[q]
             t == g[p]
  <2>7. s \in Seq(Loadable) /\ << c >> \in Seq(Loadable) /\ t = << c >> \o s
    BY <1>3, <2>3, <2>6 DEF Loadable
  <2> HIDE DEF s, t
  <2>8. /\ Len(t) = Len(s) + 1 /\ t[1] = c /\ Len(s) \in Nat
        /\ \A i \in 1 .. Len(s) : t[i + 1] = s[i]
    BY <2>7, Prepended
  <2>9. Len(s) >= m - (k + 1) /\ \A i \in 1 .. m - (k + 1) : s[i] = cs[(k + 1) + i]
    BY <2>2 DEF s
  <2>10. Len(t) >= m - k
    BY <1>1, <2>1, <2>8, <2>9
  <2>11. ASSUME NEW i \in 1 .. m - k PROVE t[i] = cs[k + i]
    <3>1. CASE i = 1
      BY <2>8, <3>1 DEF c
    <3>2. CASE i # 1
      <4>1. /\ i - 1 \in 1 .. m - (k + 1) /\ i - 1 \in 1 .. Len(s)
            /\ (i - 1) + 1 = i /\ (k + 1) + (i - 1) = k + i
        BY <1>1, <2>1, <2>8, <2>9, <3>2
      <4> QED
        BY <2>8, <2>9, <4>1
    <3> QED
      BY <3>1, <3>2
  <2> QED
    BY <2>10, <2>11 DEF k, t
<1>7. After(0)
  <2>1. m \in G
    <3> HIDE DEF G
    <3> QED
      BY <1>1, <1>5, <1>6, UpInduction
  <2>2. m - m = 0
    BY <1>1
  <2> QED
    BY <1>1, <2>1, <2>2
<1>8. o[0] + 1 = 1
  BY DEF Laid
<1> DEFINE d == Decode(cells)
<1>9. /\ d \in Seq(Loadable) /\ Len(d) >= m
      /\ \A i \in 1 .. m : d[i] = cs[i]
  <2>1. d \in Seq(Loadable)
    BY DecodeType
  <2>2. d = g[o[0] + 1]
    BY <1>2, <1>8
  <2>3. m - 0 = m /\ \A i \in 1 .. m : 0 + i = i
    BY <1>1
  <2> HIDE DEF d
  <2> QED
    BY <1>7, <2>1, <2>2, <2>3
<1> HIDE DEF d
<1>10. SubSeq(cs, 1, m) = SubSeq(d, 1, m)
  BY <1>1, <1>9 DEF m
<1> QED
  BY <1>1, <1>9, <1>10 DEF IsPrefix, m, d

-----------------------------------------------------------------------------
(***************************************************************************)
(* The inductive invariant.  A load that reads in place, while no write    *)
(* reaches the file, has the beginning of the file at the beginning of the *)
(* buffer, and that is what it decodes; a write to the beginning of the    *)
(* file is the beginning of the entries of its vector, and the file begins *)
(* with those that are whole in what it got of the last one; the chains    *)
(* the description counts are finitely many.                               *)
(***************************************************************************)
Roomy == Len(file) < B \/ Len(buffer) - total > B

InPlace ==
  pc \in {"loading", "loaded"} /\ ~ moved /\ Roomy =>
    \A i \in 1 .. total : buffer[i] = file[i]

ReadSoFar ==
  IF pc \in {"loading", "loaded"} THEN total <= Len(buffer) ELSE total = 0

DecodedBuffer == pc = "loaded" => loaded = Decode(SubSeq(buffer, 1, total))

BeginningOf(cells, cs) ==
  \E all \in Seq(Cells) :
    /\ \E o : Laid(cs, Len(cs), all, o)
    /\ Len(cells) <= Len(all)
    /\ \A i \in 1 .. Len(cells) : cells[i] = all[i]

WritesLaid == \A w \in underway : w.at = "start" => BeginningOf(w.cells, w.cs)

WrittenFirst == \E o : Laid(first, Len(first), file, o)

Counted ==
  /\ IsFiniteSet(added)
  /\ added \ Empty = {} => desc.counter = 0
  /\ added \ Empty # {} => desc.counter > 0
  /\ DescriptionCovers

BundleInv ==
  /\ BufferFits
  /\ ReadSoFar
  /\ InPlace
  /\ DecodedBuffer
  /\ WritesLaid
  /\ WrittenFirst
  /\ Counted

(***************************************************************************)
(* What each group of actions leaves alone is left alone: a step that does *)
(* not touch the description keeps what it says.                           *)
(***************************************************************************)
LEMMA CountedKept ==
  ASSUME Counted, UNCHANGED << desc, added >>
  PROVE  Counted'
BY DEF Counted, DescriptionCovers

(***************************************************************************)
(* The sum and the difference of two u64 are u64, and what they are called *)
(* if nothing wraps.                                                       *)
(***************************************************************************)
Times == 0 .. TimeSpace - 1

LEMMA TimesFacts ==
  ASSUME NEW a \in Times, NEW b \in Times
  PROVE  /\ Plus(a, b) \in Times /\ Minus(a, b) \in Times
         /\ Later(a, b) \in Times /\ Earlier(a, b) \in Times
         /\ a + b < TimeSpace => Plus(a, b) = a + b
         /\ b <= a => Minus(a, b) = a - b
<1>1. TimeSpace \in Nat \ {0} /\ a \in Nat /\ b \in Nat /\ a < TimeSpace /\ b < TimeSpace
  BY TimesAssumption DEF Times
<1> QED
  BY <1>1 DEF Plus, Minus, Later, Earlier, Times

(***************************************************************************)
(* A chain more in the description.                                        *)
(***************************************************************************)
LEMMA DescribedType ==
  ASSUME NEW d \in [counter : Nat, origin : Times, gap : Times], NEW c \in Chains
  PROVE  /\ Described(d, c) \in [counter : Nat, origin : Times, gap : Times]
         /\ Origin[c] \in Times /\ Gap[c] \in Times
         /\ c \in Empty => Described(d, c) = d
         /\ c \notin Empty /\ d.counter = 0 =>
              /\ Described(d, c).counter = 1
              /\ Described(d, c).origin = Origin[c]
              /\ Described(d, c).gap = Gap[c]
         /\ c \notin Empty /\ d.counter # 0 =>
              /\ Described(d, c).counter = d.counter + 1
              /\ Described(d, c).origin = Earlier(d.origin, Origin[c])
              /\ d.origin + d.gap < TimeSpace /\ Origin[c] + Gap[c] < TimeSpace =>
                   Described(d, c).origin + Described(d, c).gap =
                     Later(d.origin + d.gap, Origin[c] + Gap[c])
<1>1. /\ Origin[c] \in Times /\ Gap[c] \in Times
      /\ d.counter \in Nat /\ d.origin \in Times /\ d.gap \in Times
  BY TimesAssumption DEF Times
<1> DEFINE origin == Earlier(d.origin, Origin[c])
           end1   == Plus(d.origin, d.gap)
           end2   == Plus(Origin[c], Gap[c])
           max    == Later(end1, end2)
<1>2. /\ origin \in Times /\ max \in Times /\ Minus(max, origin) \in Times
      /\ end1 \in Times /\ end2 \in Times
  <2>1. origin \in Times /\ end1 \in Times /\ end2 \in Times
    BY <1>1, TimesFacts
  <2> HIDE DEF origin, end1, end2
  <2>2. max \in Times
    BY <2>1, TimesFacts
  <2> HIDE DEF max
  <2> QED
    BY <2>1, <2>2, TimesFacts
<1>3. CASE c \in Empty
  BY <1>1, <1>3 DEF Described
<1>4. CASE c \notin Empty /\ d.counter = 0
  <2>1. Described(d, c) = [counter |-> 1, origin |-> Origin[c], gap |-> Gap[c]]
    BY <1>4 DEF Described
  <2> QED
    BY <1>1, <1>4, <2>1
<1>5. CASE c \notin Empty /\ d.counter # 0
  <2>1. Described(d, c) =
          [counter |-> d.counter + 1, origin |-> origin, gap |-> Minus(max, origin)]
    BY <1>5 DEF Described
  <2>2. ASSUME d.origin + d.gap < TimeSpace, Origin[c] + Gap[c] < TimeSpace
        PROVE  origin + Minus(max, origin) = Later(d.origin + d.gap, Origin[c] + Gap[c])
    <3>1. /\ end1 = d.origin + d.gap /\ end2 = Origin[c] + Gap[c]
      BY <1>1, <2>2, TimesFacts
    <3> DEFINE p == d.origin
               q == d.gap
               a == Origin[c]
               z == Gap[c]
    <3>2. p \in Nat /\ q \in Nat /\ a \in Nat /\ z \in Nat
      BY <1>1, TimesAssumption DEF Times
    <3>3. origin = Earlier(p, a) /\ max = Later(p + q, a + z)
      BY <3>1
    <3> HIDE DEF p, q, a, z, max, origin, end1, end2
    <3>4. origin <= max /\ origin \in Nat /\ max \in Nat
      BY <3>2, <3>3 DEF Earlier, Later
    <3>5. Minus(max, origin) = max - origin
      BY <1>2, <3>4, TimesFacts
    <3>6. origin + Minus(max, origin) = max
      BY <3>4, <3>5
    <3> QED
      BY <3>3, <3>6 DEF p, q, a, z
  <2> HIDE DEF origin, max
  <2>3. /\ Described(d, c) \in [counter : Nat, origin : Times, gap : Times]
        /\ Described(d, c).counter = d.counter + 1
        /\ Described(d, c).origin = origin
        /\ Described(d, c).gap = Minus(max, origin)
    BY <1>1, <1>2, <2>1
  <2> QED
    BY <1>1, <1>5, <2>2, <2>3 DEF origin
<1> QED
  BY <1>3, <1>4, <1>5

(***************************************************************************)
(* save_to_file keeps the description the smallest window.                 *)
(***************************************************************************)
LEMMA CountedSaves ==
  ASSUME TypeOK, Counted, NEW c \in Chains, SaveToFile(c)
  PROVE  Counted'
<1> DEFINE dated  == added \ Empty
           old == desc
           new == Described(desc, c)
           a == Origin[c]
           z == Origin[c] + Gap[c]
<1>1. desc' = new /\ added' = added \cup {c}
  BY DEF SaveToFile
<1>2. IsFiniteSet(added') /\ IsFiniteSet(dated)
  BY <1>1, FS_AddElement, FS_Difference DEF Counted
<1>3. desc \in [counter : Nat, origin : Times, gap : Times] /\ added \subseteq Chains
  BY DEF TypeOK, Times
<1>4. /\ desc.counter \in Nat /\ desc.origin \in Nat /\ desc.gap \in Nat
      /\ Cardinality(dated) \in Nat
      /\ \A d \in Chains : Origin[d] \in Nat /\ Gap[d] \in Nat
  <2>1. Times \subseteq Nat
    BY TimesAssumption DEF Times
  <2> QED
    BY <1>2, <1>3, <2>1, FS_CardinalityType, TimesAssumption DEF Times
<1>5. CASE c \in Empty
  <2>1. new = desc /\ added' \ Empty = dated
    BY <1>1, <1>3, <1>5, DescribedType
  <2> QED
    BY <1>1, <1>2, <2>1 DEF Counted, DescriptionCovers
<1>6. CASE c \notin Empty
  <2>1. /\ added' \ Empty = dated \cup {c}
        /\ Cardinality(added' \ Empty) <= Cardinality(dated) + 1
    <3>1. added' \ Empty = dated \cup {c}
      BY <1>1, <1>6
    <3>2. Cardinality(dated \cup {c}) <= Cardinality(dated) + 1
      <4> HIDE DEF dated
      <4>1. Cardinality(dated \cup {c}) =
              IF c \in dated THEN Cardinality(dated) ELSE Cardinality(dated) + 1
        BY <1>2, FS_AddElement
      <4> QED
        BY <1>4, <4>1
    <3> QED
      BY <3>1, <3>2
  <2>2. Cardinality(added' \ Empty) \in Nat
    BY <1>2, FS_CardinalityType, FS_Difference
  <2> DEFINE k == Cardinality(added' \ Empty)
             n == Cardinality(dated)
  <2>3. k \in Nat /\ n \in Nat /\ k <= n + 1
    BY <1>4, <2>1, <2>2
  <2>9. desc'.counter \in Nat /\ desc'.counter > 0
    <3>1. new.counter = 1 \/ new.counter = desc.counter + 1
      BY <1>3, <1>6, DescribedType
    <3> HIDE DEF new
    <3> QED
      BY <1>1, <1>4, <3>1
  <2> DEFINE InSpace == \A d \in dated \cup {c} : Origin[d] + Gap[d] < TimeSpace
  <2> DEFINE Covered ==
               /\ desc'.counter >= k
               /\ \A d \in dated \cup {c} :
                    /\ desc'.origin <= Origin[d]
                    /\ Origin[d] + Gap[d] <= desc'.origin + desc'.gap
               /\ \E d \in dated \cup {c} : desc'.origin = Origin[d]
               /\ \E d \in dated \cup {c} : Origin[d] + Gap[d] = desc'.origin + desc'.gap
  <2>4. (InSpace => Covered) => Counted'
    BY <1>2, <2>1, <2>9 DEF Counted, DescriptionCovers
  <2> SUFFICES ASSUME InSpace PROVE Covered
    BY <2>4
  <2>5. CASE dated = {}
    <3>1. desc.counter = 0 /\ n = 0
      BY <2>5, FS_EmptySet DEF Counted
    <3>2. desc'.counter = 1 /\ desc'.origin = Origin[c] /\ desc'.gap = Gap[c]
      BY <1>1, <1>3, <1>6, <3>1, DescribedType
    <3> HIDE DEF k, n
    <3> QED
      BY <1>4, <2>3, <2>5, <3>1, <3>2
  <2>6. CASE dated # {}
    <3>1. /\ desc.counter # 0 /\ desc.counter >= n
          /\ \A d \in dated : /\ desc.origin <= Origin[d]
                              /\ Origin[d] + Gap[d] <= desc.origin + desc.gap
      BY <2>6 DEF Counted, DescriptionCovers
    <3>13. desc.origin + desc.gap < TimeSpace /\ Origin[c] + Gap[c] < TimeSpace
      <4>1. PICK l \in dated : Origin[l] + Gap[l] = desc.origin + desc.gap
        BY <2>6 DEF Counted, DescriptionCovers
      <4> QED
        BY <4>1
    <3>2. PICK f \in dated : desc.origin = Origin[f]
      BY <2>6 DEF Counted, DescriptionCovers
    <3>3. PICK l \in dated : Origin[l] + Gap[l] = desc.origin + desc.gap
      BY <2>6 DEF Counted, DescriptionCovers
    <3>4. /\ desc'.counter = desc.counter + 1
          /\ desc'.origin = Earlier(desc.origin, Origin[c])
          /\ desc'.origin + desc'.gap = Later(desc.origin + desc.gap, Origin[c] + Gap[c])
      BY <1>1, <1>3, <1>6, <3>1, <3>13, DescribedType
    <3>5. \A d \in dated : Origin[d] \in Nat /\ Gap[d] \in Nat
      BY <1>3, <1>4
    <3>14. desc' \in [counter : Nat, origin : Times, gap : Times] /\ Times \subseteq Nat
      BY <1>1, <1>3, DescribedType, TimesAssumption DEF Times
    <3>15. desc'.origin \in Nat /\ desc'.gap \in Nat
      BY <3>14
    <3> HIDE DEF k, n, dated
    <3>6. desc'.counter >= k
      BY <1>4, <2>3, <3>1, <3>4
    <3> DEFINE o == desc'.origin
               e == desc'.origin + desc'.gap
               p == desc.origin
               q == desc.origin + desc.gap
    <3>7. /\ o = Earlier(p, a) /\ e = Later(q, z)
          /\ p \in Nat /\ q \in Nat /\ a \in Nat /\ z \in Nat
      BY <1>4, <3>4
    <3> HIDE DEF o, e, p, q, a, z
    <3>8. o <= p /\ o <= a /\ q <= e /\ z <= e /\ o \in Nat /\ e \in Nat
      BY <3>7 DEF Earlier, Later
    <3>9. (o = p \/ o = a) /\ (e = q \/ e = z)
      BY <3>7 DEF Earlier, Later
    <3>10. \A d \in dated \cup {c} : o <= Origin[d] /\ Origin[d] + Gap[d] <= e
      <4>1. ASSUME NEW d \in dated PROVE o <= Origin[d] /\ Origin[d] + Gap[d] <= e
        <5>1. p <= Origin[d] /\ Origin[d] + Gap[d] <= q
          BY <3>1 DEF p, q
        <5>2. Origin[d] \in Nat /\ Origin[d] + Gap[d] \in Nat
          BY <3>5
        <5> QED
          BY <3>7, <3>8, <5>1, <5>2
      <4>2. o <= Origin[c] /\ Origin[c] + Gap[c] <= e
        BY <3>8 DEF a, z
      <4> QED
        BY <4>1, <4>2
    <3>11. \E d \in dated \cup {c} : o = Origin[d]
      BY <3>2, <3>9 DEF p, a
    <3>12. \E d \in dated \cup {c} : Origin[d] + Gap[d] = e
      BY <3>3, <3>9 DEF q, z
    <3> QED
      BY <3>6, <3>10, <3>11, <3>12 DEF o, e
  <2> QED
    BY <2>5, <2>6
<1> QED
  BY <1>5, <1>6

(***************************************************************************)
(* What the steps leave in the buffer and in the file.                     *)
(***************************************************************************)
LEMMA BlankFacts == Blank(B) \in Seq(Cells) /\ Len(Blank(B)) = B
<1>1. B \in Nat /\ Zero \in Cells
  BY BAssumption DEF Cells
<1>2. Blank(B) = [i \in 1 .. B |-> Zero]
  BY DEF Blank
<1>3. \A i \in 1 .. B : Blank(B)[i] = Zero
  BY <1>2
<1> QED
  BY <1>1, <1>2, <1>3

(***************************************************************************)
(* A chain that does not fit leaves a buffer of the same size.             *)
(***************************************************************************)
LEMMA SpillFacts ==
  ASSUME NEW b \in Seq(Cells), NEW c \in Chains
  PROVE  Spill(b, 0, c) \in Seq(Cells) /\ Len(Spill(b, 0, c)) = Len(b)
<1> DEFINE r == Spill(b, 0, c)
           n == Len(b)
<1>1. n \in Nat /\ \A i \in 1 .. n : b[i] \in Cells
  OBVIOUS
<1>2. r = [i \in 1 .. n |-> IF i > 0 + 1 THEN << c, i - 0 - 1 >> ELSE b[i]]
  BY DEF Spill
<1> HIDE DEF r, n
<1>3. ASSUME NEW i \in 1 .. n PROVE r[i] \in Cells
  <2>1. CASE i > 0 + 1
    <3>1. r[i] = << c, i - 0 - 1 >> /\ i - 0 - 1 \in Nat
      BY <1>1, <1>2, <2>1
    <3> QED
      BY <3>1 DEF Cells
  <2>2. CASE ~ (i > 0 + 1)
    BY <1>1, <1>2, <2>2
  <2> QED
    BY <2>1, <2>2
<1>4. r = [i \in 1 .. n |-> r[i]]
  BY <1>2
<1>5. r \in Seq(Cells) /\ Len(r) = n
  BY ONLY <1>1, <1>3, <1>4, FunctionIsSeq
<1> QED
  BY <1>5 DEF r, n

(***************************************************************************)
(* The beginning of a vector, written over the beginning of a file.        *)
(***************************************************************************)
LEMMA OverFacts ==
  ASSUME NEW b \in Seq(Cells), NEW k \in 0 .. Len(b), NEW f \in Seq(Cells)
  PROVE  LET w == SubSeq(b, 1, k) \o SubSeq(f, k + 1, Len(f))
         IN  /\ w \in Seq(Cells) /\ Len(w) >= k /\ Len(w) >= Len(f)
             /\ \A i \in 1 .. k : w[i] = b[i]
<1> DEFINE s == SubSeq(b, 1, k)
           t == SubSeq(f, k + 1, Len(f))
           w == s \o t
<1>1. /\ s \in Seq(Cells) /\ Len(s) = k /\ \A i \in 1 .. k : s[i] = b[i]
      /\ t \in Seq(Cells) /\ Len(t) \in Nat /\ k \in Nat
      /\ Len(f) \in Nat /\ k + Len(t) >= Len(f)
  <2>1. s \in Seq(Cells) /\ Len(s) = k /\ \A i \in 1 .. k : s[i] = b[i]
    OBVIOUS
  <2>2. t \in Seq(Cells) /\ Len(f) \in Nat
    OBVIOUS
  <2>3. Len(t) = IF k + 1 <= Len(f) THEN Len(f) - k ELSE 0
    OBVIOUS
  <2> HIDE DEF s, t
  <2> DEFINE l == Len(t)
             m == Len(f)
  <2>4. l \in Nat /\ m \in Nat /\ k \in Nat
    BY <2>2
  <2>5. l = IF k + 1 <= m THEN m - k ELSE 0
    BY <2>3
  <2> HIDE DEF l, m
  <2>6. k + l >= m
    BY <2>4, <2>5
  <2> QED
    BY <2>1, <2>2, <2>4, <2>6 DEF l, m
<1> HIDE DEF s, t
<1>2. w \in Seq(Cells) /\ Len(w) = k + Len(t) /\ \A i \in 1 .. k : w[i] = s[i]
  <2>1. /\ s \o t \in Seq(Cells) /\ Len(s \o t) = Len(s) + Len(t)
        /\ \A i \in 1 .. Len(s) : (s \o t)[i] = s[i]
    BY <1>1, Joined
  <2> QED
    BY ONLY <1>1, <2>1
<1>3. Len(w) >= k /\ Len(w) >= Len(f) /\ \A i \in 1 .. k : w[i] = b[i]
  BY <1>1, <1>2
<1> QED
  BY <1>2, <1>3 DEF s, t

(***************************************************************************)
(* A read that leaves room keeps what was read before and puts its own     *)
(* cells behind it.                                                        *)
(***************************************************************************)
LEMMA ReadFacts ==
  ASSUME NEW b \in Seq(Cells), NEW f \in Seq(Cells), NEW k \in 0 .. Len(f),
         k <= Len(b), NEW n \in Nat \ {0}, k + n <= Len(f)
  PROVE  LET r == ReadInto(b, k, SubSeq(f, k + 1, k + n))
         IN  /\ r \in Seq(Cells)
             /\ Len(r) = Len(b) + n
             /\ Len(b) > k + n /\ (\A i \in 1 .. k : b[i] = f[i])
                  => \A i \in 1 .. k + n : r[i] = f[i]
<1> DEFINE cells == SubSeq(f, k + 1, k + n)
           r == ReadInto(b, k, cells)
<1> SUFFICES /\ r \in Seq(Cells)
             /\ Len(r) = Len(b) + n
             /\ Len(b) > k + n /\ (\A i \in 1 .. k : b[i] = f[i])
                  => \A i \in 1 .. k + n : r[i] = f[i]
  OBVIOUS
<1>1. /\ cells \in Seq(Cells) /\ Len(cells) = n /\ n \in Nat /\ k \in Nat
      /\ \A i \in 1 .. n : cells[i] = f[k + i]
      /\ b \in Seq(Cells) /\ Len(b) \in Nat
  OBVIOUS
<1> HIDE DEF cells
<1> DEFINE g == IF Len(b) > k + n THEN PutAt(b, k, cells) ELSE b
<1>2. r = g \o cells
  BY <1>1 DEF ReadInto
<1>5. cells \in Seq(Cells) /\ Len(cells) = n /\ b \in Seq(Cells) /\ n \in Nat
  BY <1>1
<1>3. CASE Len(b) > k + n
  <2> DEFINE p == PutAt(b, k, cells)
  <2>1. /\ p \in Seq(Cells) /\ Len(p) = Len(b)
        /\ \A i \in 1 .. k : p[i] = b[i]
        /\ \A i \in 1 .. n : p[k + i] = cells[i]
    <3>1. k + Len(cells) <= Len(b)
      BY <1>1, <1>3
    <3>2. /\ PutAt(b, k, cells) \in Seq(Cells)
          /\ Len(PutAt(b, k, cells)) = Len(b)
          /\ \A i \in 1 .. k : PutAt(b, k, cells)[i] = b[i]
          /\ \A i \in 1 .. Len(cells) : PutAt(b, k, cells)[k + i] = cells[i]
      BY ONLY <1>1, <3>1, PutFacts
    <3> QED
      BY <1>1, <3>2
  <2>2. r = p \o cells
    BY <1>2, <1>3
  <2> HIDE DEF p, r
  <2>3. /\ r \in Seq(Cells) /\ Len(r) = Len(b) + n
        /\ \A i \in 1 .. Len(b) : r[i] = p[i]
    <3>1. p \in Seq(Cells) /\ Len(p) = Len(b)
      BY <2>1
    <3>2. /\ p \o cells \in Seq(Cells) /\ Len(p \o cells) = Len(p) + Len(cells)
          /\ \A i \in 1 .. Len(p) : (p \o cells)[i] = p[i]
      BY ONLY <1>5, <3>1, Joined
    <3> QED
      BY <1>5, <2>2, <3>1, <3>2
  <2>4. ASSUME \A i \in 1 .. k : b[i] = f[i], NEW i \in 1 .. k + n
        PROVE r[i] = f[i]
    <3>1. i \in 1 .. Len(b)
      BY <1>1, <1>3
    <3>2. CASE i <= k
      BY <1>1, <2>1, <2>3, <2>4, <3>1, <3>2
    <3>3. CASE ~ (i <= k)
      <4>1. i - k \in 1 .. n /\ k + (i - k) = i
        BY <1>1, <3>3
      <4> QED
        BY <1>1, <2>1, <2>3, <3>1, <4>1
    <3> QED
      BY <3>2, <3>3
  <2> QED
    BY <2>3, <2>4 DEF r
<1>4. CASE ~ (Len(b) > k + n)
  <2>1. r = b \o cells
    BY <1>2, <1>4
  <2> HIDE DEF r
  <2>2. r \in Seq(Cells) /\ Len(r) = Len(b) + n
    <3>1. b \o cells \in Seq(Cells) /\ Len(b \o cells) = Len(b) + Len(cells)
      BY ONLY <1>5
    <3> QED
      BY <1>5, <2>1, <3>1
  <2> QED
    BY <1>4, <2>2 DEF r
<1> QED
  BY <1>3, <1>4

(***************************************************************************)
(* Cells at the end of a file leave the rest as it was.                    *)
(***************************************************************************)
LEMMA Longer ==
  ASSUME NEW f \in Seq(Cells), NEW e \in Seq(Cells)
  PROVE  /\ f \o e \in Seq(Cells)
         /\ Len(f \o e) >= Len(f)
         /\ \A i \in 1 .. Len(f) : (f \o e)[i] = f[i]
<1>1. Len(e) \in Nat
  OBVIOUS
<1> QED
  BY <1>1

(***************************************************************************)
(* The first k of chains that lie one behind the other do so themselves.   *)
(***************************************************************************)
LEMMA LaidPart ==
  ASSUME NEW cs \in Seq(Chains), NEW cells, NEW o,
         Laid(cs, Len(cs), cells, o), NEW k \in 0 .. Len(cs), o[k] <= Len(cells)
  PROVE  Laid(SubSeq(cs, 1, k), k, cells, o)
<1> DEFINE m == Len(cs)
           p == SubSeq(cs, 1, k)
<1>1. m \in Nat /\ k \in 0 .. m /\ \A i \in 1 .. m : cs[i] \in Chains
  OBVIOUS
<1>2. \A i \in 1 .. k : p[i] = cs[i]
  OBVIOUS
<1>3. Laid(cs, m, cells, o)
  OBVIOUS
<1> HIDE DEF m, p
<1>4. /\ o[0] = 0 /\ \A i \in 0 .. m : o[i] \in Nat
      /\ \A i \in 1 .. m : /\ o[i] = o[i - 1] + Size[cs[i]] + 1
                           /\ Holds(cells, o[i - 1], cs[i])
  BY <1>3 DEF Laid
<1> DEFINE G == {i \in Nat : i <= k => o[k - i] <= o[k]}
<1>5. 0 \in G
  BY <1>1, <1>4
<1>6. ASSUME NEW i \in Nat, i \in G PROVE i + 1 \in G
  <2> SUFFICES ASSUME i + 1 <= k PROVE o[k - (i + 1)] <= o[k]
    OBVIOUS
  <2> DEFINE a == k - (i + 1)
             b == k - i
  <2>1. b \in 1 .. m /\ b - 1 = a /\ a \in 0 .. m /\ b \in 0 .. m
    BY <1>1
  <2>2. o[b] <= o[k]
    BY <1>6
  <2> HIDE DEF a, b
  <2>3. o[b] = o[a] + Size[cs[b]] + 1 /\ cs[b] \in Chains
    BY <1>1, <1>4, <2>1
  <2>4. Size[cs[b]] \in Nat /\ o[a] \in Nat /\ o[k] \in Nat
    BY <1>1, <1>4, <2>1, <2>3, EntryFacts
  <2>5. o[a] <= o[k]
    BY <2>2, <2>3, <2>4
  <2> QED
    BY <2>5 DEF a
<1>7. \A i \in Nat : i \in G
  <2> HIDE DEF G
  <2> QED
    BY <1>5, <1>6, UpInduction
<1>8. ASSUME NEW i \in 0 .. k PROVE o[i] \in Nat /\ o[i] <= o[k]
  <2>1. k - i \in Nat /\ k - i <= k /\ k - (k - i) = i /\ i \in 0 .. m
    BY <1>1
  <2>2. k - i \in G
    BY <1>7, <2>1
  <2> QED
    BY <1>4, <2>1, <2>2
<1>9. ASSUME NEW i \in 1 .. k
      PROVE  o[i] = o[i - 1] + Size[p[i]] + 1 /\ Holds(cells, o[i - 1], p[i])
  <2>1. i \in 1 .. m
    BY <1>1
  <2> QED
    BY <1>2, <1>4, <2>1
<1> QED
  BY <1>4, <1>8, <1>9 DEF Laid, p

(***************************************************************************)
(* The entries that have arrived with n cells end among them.              *)
(***************************************************************************)
LEMMA ArrivedEnds ==
  ASSUME NEW cs \in Seq(Chains), NEW cells, NEW o, Laid(cs, Len(cs), cells, o),
         NEW k \in 0 .. Len(cs), NEW n \in Nat, Arrived(cs, k, n)
  PROVE  o[k] \in Nat /\ o[k] <= n
<1>1. PICK a \in [0 .. k -> 0 .. n] :
        a[0] = 0 /\ \A i \in 1 .. k : a[i] = a[i - 1] + Size[cs[i]] + 1
  BY DEF Arrived
<1>2. /\ o[0] = 0 /\ \A i \in 1 .. k : o[i] = o[i - 1] + Size[cs[i]] + 1
  BY DEF Laid
<1> DEFINE G == {i \in Nat : i <= k => o[i] = a[i]}
<1>3. 0 \in G
  BY <1>1, <1>2
<1>4. ASSUME NEW i \in Nat, i \in G PROVE i + 1 \in G
  <2> SUFFICES ASSUME i + 1 <= k PROVE o[i + 1] = a[i + 1]
    OBVIOUS
  <2>1. i + 1 \in 1 .. k /\ (i + 1) - 1 = i
    OBVIOUS
  <2>2. o[i] = a[i]
    BY <1>4
  <2>3. /\ o[i + 1] = o[i] + Size[cs[i + 1]] + 1
        /\ a[i + 1] = a[i] + Size[cs[i + 1]] + 1
    BY <1>1, <1>2, <2>1
  <2> QED
    BY <2>2, <2>3
<1>5. k \in Nat
  OBVIOUS
<1>6. k \in G
  <2> HIDE DEF G
  <2> QED
    BY <1>3, <1>4, <1>5, UpInduction
<1>7. o[k] = a[k] /\ k \in 0 .. k
  BY <1>5, <1>6
<1> QED
  BY <1>1, <1>7

-----------------------------------------------------------------------------
(***************************************************************************)
(* The invariant holds initially, and every step keeps it.                 *)
(***************************************************************************)
LEMMA BundleInitially == Init => BundleInv
<1> SUFFICES ASSUME Init PROVE BundleInv
  OBVIOUS
<1>1. /\ pc = "idle" /\ file = << >> /\ buffer = Blank(B) /\ total = 0 /\ loaded = << >>
      /\ first = << >> /\ desc = NoDesc /\ added = {} /\ saves = 0
      /\ underway = {} /\ moved = FALSE
  BY DEF Init
<1>2. TypeOK
  <2>1. Len(file) = 0 /\ B \in Nat /\ SaveBound \in Nat /\ TimeSpace \in Nat \ {0}
    BY <1>1, BAssumption, BoundsAssumption, TimesAssumption
  <2>2. desc \in [counter : Nat, origin : 0 .. TimeSpace - 1, gap : 0 .. TimeSpace - 1]
    BY <1>1, <2>1 DEF NoDesc
  <2>3. buffer \in Seq(Cells) /\ Len(buffer) >= B
    BY <1>1, <2>1, BlankFacts
  <2>4. /\ total \in 0 .. Len(file) /\ saves \in 0 .. SaveBound
        /\ file \in Seq(Cells) /\ loaded \in Seq(Chains \cup {Bad}) /\ first \in Seq(Chains)
    BY <1>1, <2>1
  <2> QED
    BY <1>1, <2>2, <2>3, <2>4 DEF TypeOK
<1>3. WritesLaid
  BY <1>1 DEF WritesLaid
<1>4. WrittenFirst
  <2>1. Laid(first, Len(first), file, [k \in {0} |-> 0])
    <3>1. Len(first) = 0 /\ Len(file) = 0 /\ [k \in {0} |-> 0][0] = 0
      BY <1>1
    <3> QED
      BY <3>1 DEF Laid
  <2> QED
    BY <2>1 DEF WrittenFirst
<1>5. Counted
  BY <1>1, FS_EmptySet DEF Counted, DescriptionCovers, NoDesc
<1> QED
  BY <1>1, <1>2, <1>3, <1>4, <1>5
  DEF BundleInv, BufferFits, NoGrowth, InPlace, ReadSoFar, DecodedBuffer

(***************************************************************************)
(* A write that is taken leaves the file as it is; the writes of vectors   *)
(* are the beginnings of their entries.                                    *)
(***************************************************************************)
LEMMA SubmitKeeps ==
  ASSUME BundleInv, pc = "idle", NEW at \in {"start", "end"}, NEW cells \in Seq(Cells),
         NEW cs \in Seq(Chains), at = "start" => BeginningOf(cells, cs),
         Submit(at, cells, cs),
         UNCHANGED << pc, file, total, loaded, moved, first >>,
         buffer' \in Seq(Cells), Len(buffer') >= B,
         desc' \in [counter : Nat, origin : Times, gap : Times],
         added' \subseteq Chains, Counted'
  PROVE  BundleInv'
<1>1. /\ TypeOK /\ WritesLaid /\ WrittenFirst /\ total = 0
  BY DEF BundleInv, BufferFits, ReadSoFar
<1>2. /\ saves < SaveBound /\ saves' = saves + 1
      /\ underway' = underway \cup {[id |-> saves, at |-> at, cells |-> cells, cs |-> cs]}
  BY DEF Submit, WriteOf
<1>3. /\ saves' \in 0 .. SaveBound /\ saves \in 0 .. saves' - 1
      /\ 0 .. saves - 1 \subseteq 0 .. saves' - 1
  <2>1. saves \in 0 .. SaveBound /\ SaveBound \in Nat
    BY <1>1, BoundsAssumption DEF TypeOK
  <2> QED
    BY ONLY <1>2, <2>1
<1>4. underway' \subseteq [id : 0 .. saves' - 1, at : {"start", "end"},
                           cells : Seq(Cells), cs : Seq(Chains)]
  <2> DEFINE W == [id : 0 .. saves - 1, at : {"start", "end"},
                   cells : Seq(Cells), cs : Seq(Chains)]
             V == [id : 0 .. saves' - 1, at : {"start", "end"},
                   cells : Seq(Cells), cs : Seq(Chains)]
  <2>1. underway \subseteq W
    BY <1>1 DEF TypeOK
  <2>2. W \subseteq V
    BY <1>3
  <2>3. [id |-> saves, at |-> at, cells |-> cells, cs |-> cs] \in V
    BY <1>3
  <2> HIDE DEF W, V
  <2>4. underway' \subseteq V
    BY <1>2, <2>1, <2>2, <2>3
  <2> QED
    BY <2>4 DEF V
<1>5. TypeOK'
  BY <1>1, <1>3, <1>4 DEF TypeOK, Times
<1>6. WritesLaid'
  <2> SUFFICES ASSUME NEW w \in underway', w.at = "start" PROVE BeginningOf(w.cells, w.cs)
    BY DEF WritesLaid
  <2>1. CASE w \in underway
    BY <1>1, <2>1 DEF WritesLaid
  <2>2. CASE w = [id |-> saves, at |-> at, cells |-> cells, cs |-> cs]
    <3>1. w.at = at /\ w.cells = cells /\ w.cs = cs
      BY <2>2
    <3> QED
      BY <3>1
  <2> QED
    BY <1>2, <2>1, <2>2
<1>7. WrittenFirst'
  BY <1>1 DEF WrittenFirst
<1> QED
  BY <1>1, <1>5, <1>6, <1>7
  DEF BundleInv, BufferFits, NoGrowth, InPlace, ReadSoFar, DecodedBuffer

(***************************************************************************)
(* save_to_file, and when its write fails.                                 *)
(***************************************************************************)
LEMMA SaveKeeps ==
  ASSUME BundleInv, NEW c \in Chains,
         SaveToFile(c) \/ \E n \in 0 .. Size[c] : SaveToFileFails(c, n)
  PROVE  BundleInv'
<1>1. /\ pc = "idle" /\ Fits(buffer, 0, c) /\ buffer' = PutAt(buffer, 0, Entry(c))
      /\ UNCHANGED << pc, file, total, loaded, moved, first >>
  BY DEF SaveToFile, SaveToFileFails, history
<1>2. TypeOK /\ Counted /\ Entry(c) \in Seq(Cells) /\ << >> \in Seq(Chains)
  BY EntryFacts DEF BundleInv, BufferFits
<1>3. buffer' \in Seq(Cells) /\ Len(buffer') >= B
  <2>1. /\ Entry(c) \in Seq(Cells) /\ 0 + Len(Entry(c)) <= Len(buffer)
        /\ buffer \in Seq(Cells) /\ Len(buffer) >= B
    BY <1>1, <1>2, EntryFacts DEF Fits, TypeOK
  <2>2. /\ PutAt(buffer, 0, Entry(c)) \in Seq(Cells)
        /\ Len(PutAt(buffer, 0, Entry(c))) = Len(buffer)
    BY <2>1, PutFacts
  <2> QED
    BY <1>1, <2>1, <2>2
<1>4. CASE SaveToFile(c)
  <2>1. /\ Submit("end", Entry(c), << >>) /\ desc' = Described(desc, c)
        /\ added' = added \cup {c}
    BY <1>4 DEF SaveToFile
  <2>2. desc' \in [counter : Nat, origin : Times, gap : Times] /\ added' \subseteq Chains
    BY <1>2, <2>1, DescribedType DEF TypeOK, Times
  <2>3. Counted'
    BY <1>2, <1>4, CountedSaves
  <2> QED
    BY <1>1, <1>2, <1>3, <2>1, <2>2, <2>3, SubmitKeeps
<1>5. CASE \E n \in 0 .. Size[c] : SaveToFileFails(c, n)
  <2>1. PICK n \in 0 .. Size[c] : SaveToFileFails(c, n)
    BY <1>5
  <2> DEFINE cells == SubSeq(Entry(c), 1, n)
  <2>2. Submit("end", cells, << >>) /\ UNCHANGED << desc, added >>
    BY <2>1 DEF SaveToFileFails, history
  <2>3. cells \in Seq(Cells)
    <3>1. n \in 0 .. Len(Entry(c))
      BY EntryFacts
    <3> HIDE DEF cells
    <3> DEFINE e == Entry(c)
    <3>2. e \in Seq(Cells) /\ n \in 0 .. Len(e) /\ cells = SubSeq(e, 1, n)
      BY <1>2, <3>1 DEF cells
    <3> HIDE DEF e
    <3> QED
      BY ONLY <3>2
  <2>4. desc' \in [counter : Nat, origin : Times, gap : Times] /\ added' \subseteq Chains
    BY <1>2, <2>2 DEF TypeOK, Times
  <2>5. Counted'
    BY <1>2, <2>2, CountedKept
  <2> HIDE DEF cells
  <2> QED
    BY <1>1, <1>2, <1>3, <2>2, <2>3, <2>4, <2>5, SubmitKeeps
<1> QED
  BY <1>4, <1>5

(***************************************************************************)
(* save_chains_to_bundle hands over the beginning of what it encoded.      *)
(***************************************************************************)
LEMMA SaveChainsKeeps ==
  ASSUME BundleInv, NEW cs \in Vectors,
         NEW n \in 0 .. EncodeVec(buffer, cs).offset, SaveChains(cs, n)
  PROVE  BundleInv'
<1> DEFINE enc == EncodeVec(buffer, cs)
           cells == SubSeq(enc.buffer, 1, n)
<1>1. /\ pc = "idle" /\ enc.status = "ok" /\ Submit("start", cells, cs)
      /\ buffer' = enc.buffer
      /\ UNCHANGED << pc, file, total, loaded, desc, moved, first, added >>
  BY DEF SaveChains, history
<1>2. TypeOK /\ Counted /\ cs \in Seq(Chains) /\ buffer \in Seq(Cells) /\ Len(buffer) >= B
  BY VectorsAssumption DEF BundleInv, BufferFits, TypeOK
<1>3. /\ InBuffer(enc) /\ n \in 0 .. enc.offset
      /\ \E o : Laid(cs, Len(cs), enc.buffer, o) /\ o[Len(cs)] = enc.offset
  BY <1>1, <1>2, EncodeFacts
<1> HIDE DEF enc
<1>4. /\ buffer' \in Seq(Cells) /\ Len(buffer') >= B
      /\ enc.offset \in 0 .. Len(enc.buffer) /\ enc.buffer \in Seq(Cells)
  BY <1>1, <1>3 DEF InBuffer, Encoding
<1>5. /\ cells \in Seq(Cells) /\ Len(cells) = n /\ n <= Len(enc.buffer)
      /\ \A i \in 1 .. n : cells[i] = enc.buffer[i]
  <2> DEFINE b == enc.buffer
  <2>1. b \in Seq(Cells) /\ n \in 0 .. Len(b) /\ cells = SubSeq(b, 1, n)
    BY <1>3, <1>4
  <2> HIDE DEF b, cells
  <2>2. /\ cells \in Seq(Cells) /\ Len(cells) = n /\ n <= Len(b)
        /\ \A i \in 1 .. n : cells[i] = b[i]
    BY ONLY <2>1
  <2> QED
    BY <2>2 DEF b
<1> HIDE DEF cells
<1>6. BeginningOf(cells, cs)
  BY <1>3, <1>4, <1>5 DEF BeginningOf
<1>7. /\ desc' \in [counter : Nat, origin : Times, gap : Times]
      /\ added' \subseteq Chains /\ Counted'
  BY <1>1, <1>2, CountedKept DEF TypeOK, Times
<1> QED
  BY <1>1, <1>2, <1>4, <1>5, <1>6, <1>7, SubmitKeeps

(***************************************************************************)
(* A chain that is too large leaves cells in the buffer, and nothing else. *)
(***************************************************************************)
LEMMA SaveTooLargeKeeps ==
  ASSUME BundleInv, NEW c \in Chains, SaveTooLarge(c)
  PROVE  BundleInv'
<1>1. /\ pc = "idle" /\ buffer' = Spill(buffer, 0, c)
      /\ UNCHANGED << pc, file, underway, total, loaded, desc, saves, moved, first, added >>
  BY DEF SaveTooLarge, history
<1>2. TypeOK /\ Counted /\ WrittenFirst /\ WritesLaid /\ total = 0
  BY <1>1 DEF BundleInv, BufferFits, ReadSoFar
<1>3. buffer' \in Seq(Cells) /\ Len(buffer') = Len(buffer)
  BY <1>1, <1>2, SpillFacts DEF TypeOK
<1>4. TypeOK' /\ WrittenFirst' /\ WritesLaid'
  BY <1>1, <1>2, <1>3 DEF TypeOK, WrittenFirst, WritesLaid
<1> QED
  BY <1>1, <1>2, <1>3, <1>4, CountedKept
  DEF BundleInv, BufferFits, NoGrowth, InPlace, ReadSoFar, DecodedBuffer

(***************************************************************************)
(* A write that reaches the file, and what that leaves alone.              *)
(***************************************************************************)
LEMMA LandKeeps ==
  ASSUME BundleInv, NEW w, NEW n, Land(w, n), file' \in Seq(Cells),
         Len(file') >= Len(file), first' \in Seq(Chains), WrittenFirst'
  PROVE  BundleInv'
<1>1. /\ underway' = underway \ {w} /\ moved' = (pc \in {"loading", "loaded"})
      /\ UNCHANGED << pc, buffer, total, loaded, desc, saves, added >>
  BY DEF Land
<1>2. TypeOK /\ Counted /\ WritesLaid
  BY DEF BundleInv, BufferFits
<1>3. total' \in 0 .. Len(file')
  <2>1. Len(file') \in Nat /\ Len(file) \in Nat /\ total \in 0 .. Len(file)
    BY <1>2 DEF TypeOK
  <2> QED
    BY <1>1, <2>1
<1>4. TypeOK'
  <2>1. moved' \in BOOLEAN
    BY <1>1
  <2>2. underway' \subseteq underway
    BY <1>1
  <2> QED
    BY <1>1, <1>2, <1>3, <2>1, <2>2 DEF TypeOK
<1>5. WritesLaid' /\ Counted'
  BY <1>1, <1>2, CountedKept DEF WritesLaid
<1>6. InPlace'
  BY <1>1 DEF InPlace
<1> QED
  BY <1>1, <1>4, <1>5, <1>6
  DEF BundleInv, BufferFits, NoGrowth, ReadSoFar, DecodedBuffer

(***************************************************************************)
(* At the end of the file, a write leaves the vector at its beginning.     *)
(***************************************************************************)
LEMMA LandAtEndKeeps ==
  ASSUME BundleInv, NEW w \in underway, NEW n \in 0 .. Len(w.cells), LandAtEnd(w, n)
  PROVE  BundleInv'
<1> DEFINE e == SubSeq(w.cells, 1, n)
<1>1. Land(w, n) /\ file' = file \o e /\ first' = first
  BY DEF LandAtEnd
<1>2. TypeOK /\ WrittenFirst /\ file \in Seq(Cells) /\ first \in Seq(Chains)
  BY DEF BundleInv, BufferFits, TypeOK
<1>3. e \in Seq(Cells)
  <2> DEFINE c == w.cells
  <2>1. c \in Seq(Cells) /\ n \in 0 .. Len(c) /\ e = SubSeq(c, 1, n)
    BY <1>2 DEF TypeOK
  <2> HIDE DEF c, e
  <2> QED
    BY ONLY <2>1
<1> HIDE DEF e
<1>4. /\ file' \in Seq(Cells) /\ Len(file') >= Len(file)
      /\ \A i \in 1 .. Len(file) : file'[i] = file[i]
  BY <1>1, <1>2, <1>3, Longer
<1>5. WrittenFirst'
  <2>1. PICK o : Laid(first, Len(first), file, o)
    BY <1>2 DEF WrittenFirst
  <2>2. Len(first) \in 0 .. Len(first) /\ Len(file) \in Nat /\ Len(file') \in Nat
    BY <1>2, <1>4
  <2>3. o[Len(first)] \in Nat /\ o[Len(first)] <= Len(file)
    BY <2>1, <2>2 DEF Laid
  <2>4. /\ o[Len(first)] <= Len(file')
        /\ \A i \in 1 .. o[Len(first)] : file'[i] = file[i]
    BY <1>4, <2>2, <2>3
  <2>5. Laid(first, Len(first), file', o)
    BY <1>2, <2>1, <2>2, <2>4, StaysLaid
  <2> QED
    BY <1>1, <2>5 DEF WrittenFirst
<1> QED
  BY <1>1, <1>2, <1>4, <1>5, LandKeeps

(***************************************************************************)
(* At the beginning, it leaves the entries that it brought there whole.    *)
(***************************************************************************)
LEMMA LandAtStartKeeps ==
  ASSUME BundleInv, NEW w \in underway, NEW n \in 0 .. Len(w.cells), LandAtStart(w, n)
  PROVE  BundleInv'
<1> DEFINE c == w.cells
           cs == w.cs
<1>1. /\ Land(w, n) /\ w.at = "start"
      /\ file' = SubSeq(c, 1, n) \o SubSeq(file, n + 1, Len(file))
      /\ \E k \in 0 .. Len(cs) : Arrived(cs, k, n) /\ first' = SubSeq(cs, 1, k)
  BY DEF LandAtStart
<1>2. TypeOK /\ WritesLaid /\ file \in Seq(Cells)
  BY DEF BundleInv, BufferFits, TypeOK
<1>3. c \in Seq(Cells) /\ cs \in Seq(Chains) /\ BeginningOf(c, cs) /\ n \in 0 .. Len(c)
  BY <1>1, <1>2 DEF TypeOK, WritesLaid
<1> HIDE DEF c, cs
<1>4. PICK all \in Seq(Cells) : /\ \E o : Laid(cs, Len(cs), all, o)
                                /\ Len(c) <= Len(all)
                                /\ \A i \in 1 .. Len(c) : c[i] = all[i]
  BY <1>3 DEF BeginningOf
<1>5. PICK o : Laid(cs, Len(cs), all, o)
  BY <1>4
<1>6. PICK k \in 0 .. Len(cs) : Arrived(cs, k, n) /\ first' = SubSeq(cs, 1, k)
  BY <1>1
<1>7. /\ file' \in Seq(Cells) /\ Len(file') >= n /\ Len(file') >= Len(file)
      /\ \A i \in 1 .. n : file'[i] = c[i]
  BY <1>1, <1>2, <1>3, OverFacts
<1>8. /\ n \in Nat /\ Len(c) \in Nat /\ Len(all) \in Nat /\ Len(file') \in Nat
      /\ n <= Len(c) /\ k \in Nat
  BY <1>3, <1>7
<1>9. o[k] \in Nat /\ o[k] <= n
  BY <1>3, <1>5, <1>6, <1>8, ArrivedEnds
<1>10. o[k] <= Len(all) /\ o[k] <= Len(file') /\ \A i \in 1 .. o[k] : file'[i] = all[i]
  <2>1. o[k] <= Len(all) /\ o[k] <= Len(file')
    BY <1>4, <1>7, <1>8, <1>9
  <2>2. \A i \in 1 .. o[k] : i \in 1 .. n /\ i \in 1 .. Len(c)
    BY <1>8, <1>9
  <2> QED
    BY <1>4, <1>7, <2>1, <2>2
<1> DEFINE p == SubSeq(cs, 1, k)
<1>11. Laid(p, k, all, o)
  BY <1>3, <1>5, <1>10, LaidPart
<1>12. p \in Seq(Chains) /\ Len(p) = k /\ k \in 0 .. Len(p)
  <2>1. p \in Seq(Chains) /\ Len(p) = k
    BY <1>3
  <2> HIDE DEF p
  <2> QED
    BY <1>8, <2>1
<1>13. first' = p
  BY <1>6
<1> HIDE DEF p
<1>14. Laid(p, k, file', o)
  BY <1>10, <1>11, <1>12, StaysLaid
<1>15. WrittenFirst'
  BY <1>12, <1>13, <1>14 DEF WrittenFirst
<1> QED
  BY <1>1, <1>7, <1>12, <1>13, <1>15, LandKeeps

(***************************************************************************)
(* A vector that does not fit, and the beginning and the end of a load.    *)
(***************************************************************************)
LEMMA OtherKeeps ==
  ASSUME BundleInv,
         \/ \E cs \in Vectors : SaveChainsNever(cs)
         \/ Open \/ EndOfRead \/ Return \/ Restart
  PROVE  BundleInv'
<1>1. /\ TypeOK /\ Counted /\ WrittenFirst /\ WritesLaid /\ NoGrowth /\ InPlace /\ ReadSoFar
      /\ B \in Nat /\ Len(buffer) \in Nat /\ Len(file) \in Nat
  BY BAssumption DEF BundleInv, BufferFits, TypeOK
<1>2. ASSUME NEW cs \in Vectors, SaveChainsNever(cs) PROVE BundleInv'
  <2>1. /\ pc = "idle" /\ pc' = EncodeVec(buffer, cs).status /\ pc' # "ok"
        /\ UNCHANGED << file, underway, buffer, total, loaded, desc, saves,
                         moved, first, added >>
    BY <1>2 DEF SaveChainsNever, history
  <2>2. pc' \in {"panic", "hang"}
    <3>1. /\ cs \in Seq(Chains) /\ buffer \in Seq(Cells) /\ Len(buffer) >= B
      BY <1>1, VectorsAssumption DEF TypeOK
    <3>2. EncodeVec(buffer, cs) \in Encoding
      BY <3>1, EncodeFacts DEF InBuffer
    <3> QED
      BY <2>1, <3>2 DEF Encoding
  <2>3. TypeOK' /\ WrittenFirst' /\ WritesLaid' /\ Counted'
    BY <1>1, <2>1, <2>2, CountedKept DEF TypeOK, WrittenFirst, WritesLaid
  <2> QED
    BY <1>1, <2>1, <2>2, <2>3
    DEF BundleInv, BufferFits, NoGrowth, InPlace, ReadSoFar, DecodedBuffer
<1>3. CASE Open
  <2>1. /\ pc' = "loading" /\ total' = 0
        /\ UNCHANGED << file, underway, buffer, loaded, desc, saves, moved, first, added >>
    BY <1>3 DEF Open, history
  <2>2. TypeOK' /\ WrittenFirst' /\ WritesLaid' /\ Counted'
    BY <1>1, <2>1, CountedKept DEF TypeOK, WrittenFirst, WritesLaid
  <2>3. Len(buffer') - total' >= B /\ total' <= Len(buffer')
    BY <1>1, <2>1 DEF TypeOK
  <2> QED
    BY <2>1, <2>2, <2>3
    DEF BundleInv, BufferFits, NoGrowth, InPlace, ReadSoFar, DecodedBuffer
<1>4. CASE EndOfRead
  <2>1. /\ pc = "loading" /\ pc' = "loaded" /\ loaded' = Decode(SubSeq(buffer, 1, total))
        /\ UNCHANGED << file, underway, buffer, total, desc, saves, moved, first, added >>
    BY <1>4 DEF EndOfRead, history
  <2>2. loaded' \in Seq(Chains \cup {Bad})
    <3>1. total \in 0 .. Len(buffer) /\ buffer \in Seq(Cells)
      BY <1>1, <2>1 DEF TypeOK, ReadSoFar
    <3>2. SubSeq(buffer, 1, total) \in Seq(Cells)
      BY <3>1
    <3> QED
      BY <2>1, <3>2, DecodeType DEF Loadable
  <2>3. TypeOK' /\ WrittenFirst' /\ WritesLaid' /\ Counted'
    BY <1>1, <2>1, <2>2, CountedKept DEF TypeOK, WrittenFirst, WritesLaid
  <2> QED
    BY <1>1, <2>1, <2>3
    DEF BundleInv, BufferFits, NoGrowth, InPlace, Roomy, ReadSoFar, DecodedBuffer
<1>5. CASE Return
  <2>1. /\ pc' = "idle" /\ total' = 0 /\ loaded' = << >> /\ moved' = FALSE
        /\ UNCHANGED << file, underway, buffer, desc, saves, first, added >>
    BY <1>5 DEF Return
  <2>3. total' \in 0 .. Len(file') /\ loaded' \in Seq(Chains \cup {Bad})
    BY <1>1, <2>1
  <2>2. TypeOK' /\ WrittenFirst' /\ WritesLaid' /\ Counted'
    BY <1>1, <2>1, <2>3, CountedKept DEF TypeOK, WrittenFirst, WritesLaid
  <2> QED
    BY <2>1, <2>2
    DEF BundleInv, BufferFits, NoGrowth, InPlace, ReadSoFar, DecodedBuffer
<1>6. CASE Restart
  <2>1. /\ pc' = "idle" /\ total' = 0 /\ loaded' = << >> /\ buffer' = Blank(B)
        /\ desc' = NoDesc /\ added' = {} /\ moved' = FALSE /\ underway' = {}
        /\ UNCHANGED << file, first, saves >>
    BY <1>6 DEF Restart
  <2>2. buffer' \in Seq(Cells) /\ Len(buffer') >= B
    BY <1>1, <2>1, BlankFacts
  <2>3. TypeOK' /\ WrittenFirst' /\ WritesLaid'
    <3>1. desc' \in [counter : Nat, origin : 0 .. TimeSpace - 1, gap : 0 .. TimeSpace - 1]
      BY <2>1, TimesAssumption DEF NoDesc
    <3>2. total' \in 0 .. Len(file') /\ loaded' \in Seq(Chains \cup {Bad})
      BY <1>1, <2>1
    <3> QED
      BY <1>1, <2>1, <2>2, <3>1, <3>2 DEF TypeOK, WrittenFirst, WritesLaid
  <2>4. Counted'
    BY <2>1, FS_EmptySet DEF Counted, DescriptionCovers, NoDesc
  <2> QED
    BY <2>1, <2>3, <2>4
    DEF BundleInv, BufferFits, NoGrowth, InPlace, ReadSoFar, DecodedBuffer
<1> QED
  BY <1>2, <1>3, <1>4, <1>5, <1>6

(***************************************************************************)
(* A read adds to the buffer what it adds to total, so a load that had     *)
(* room for a whole temporary buffer still has it.                         *)
(***************************************************************************)
LEMMA ReadKeeps ==
  ASSUME BundleInv, NEW n \in 1 .. B, Read(n)
  PROVE  BundleInv'
<1> DEFINE cells == SubSeq(file, total + 1, total + n)
<1>1. /\ pc = "loading" /\ n <= B /\ total + n <= Len(file)
      /\ buffer' = ReadInto(buffer, total, cells) /\ total' = total + n
      /\ UNCHANGED << pc, file, underway, loaded, desc, saves, moved, first, added >>
  BY DEF Read, history
<1>2. /\ TypeOK /\ Counted /\ WrittenFirst /\ WritesLaid /\ NoGrowth /\ InPlace
      /\ total <= Len(buffer)
      /\ B \in Nat /\ n \in Nat \ {0}
  BY <1>1, BAssumption DEF BundleInv, BufferFits, ReadSoFar
<1>3. /\ file \in Seq(Cells) /\ buffer \in Seq(Cells) /\ total \in 0 .. Len(file)
      /\ Len(file) \in Nat /\ Len(buffer) \in Nat
  BY <1>2 DEF TypeOK
<1>4. /\ buffer' \in Seq(Cells) /\ Len(buffer') = Len(buffer) + n
      /\ Len(buffer) > total + n /\ (\A i \in 1 .. total : buffer[i] = file[i])
           => \A i \in 1 .. total + n : buffer'[i] = file[i]
  <2> DEFINE b == buffer
             k == total
             f == file
  <2>1. /\ b \in Seq(Cells) /\ f \in Seq(Cells) /\ k \in 0 .. Len(f) /\ k <= Len(b)
        /\ n \in Nat \ {0} /\ k + n <= Len(f) /\ cells = SubSeq(f, k + 1, k + n)
    BY <1>1, <1>2, <1>3
  <2> HIDE DEF b, k, f, cells
  <2>2. LET r == ReadInto(b, k, SubSeq(f, k + 1, k + n))
        IN  /\ r \in Seq(Cells)
            /\ Len(r) = Len(b) + n
            /\ Len(b) > k + n /\ (\A i \in 1 .. k : b[i] = f[i])
                 => \A i \in 1 .. k + n : r[i] = f[i]
    BY ONLY <2>1, ReadFacts
  <2> QED
    BY <1>1, <2>2 DEF b, k, f, cells
<1>5. Len(buffer) - total >= B /\ Len(buffer') - total' = Len(buffer) - total
  <2> DEFINE l  == Len(buffer)
             ll == Len(buffer')
  <2>1. l - total >= B /\ ll = l + n /\ l \in Nat /\ total' = total + n /\ total \in Nat
    <3>1. l - total >= B
      BY <1>1, <1>2 DEF NoGrowth
    <3>2. ll = l + n
      BY <1>4
    <3>3. l \in Nat /\ total' = total + n /\ total \in Nat
      BY <1>1, <1>3
    <3> QED
      BY <3>1, <3>2, <3>3
  <2> HIDE DEF l, ll
  <2>2. l - total >= B /\ ll - total' = l - total
    BY <1>2, <2>1
  <2> QED
    BY <2>2 DEF l, ll
<1>6. Roomy' => Roomy /\ Len(buffer) > total + n
  <2>1. Roomy' => Roomy
    <3>1. Len(file') = Len(file)
      BY <1>1
    <3> QED
      BY <1>5, <3>1 DEF Roomy
  <2>2. Roomy => Len(buffer) > total + n
    <3> DEFINE l == Len(buffer)
               f == Len(file)
    <3>1. /\ l - total >= B /\ l \in Nat /\ f \in Nat /\ total \in Nat
          /\ n <= B /\ total + n <= f
      BY <1>1, <1>3, <1>5
    <3>2. Roomy => f < B \/ l - total > B
      BY DEF Roomy
    <3> HIDE DEF l, f
    <3>3. Roomy => l > total + n
      BY <1>2, <3>1, <3>2
    <3> QED
      BY <3>3 DEF l
  <2> QED
    BY <2>1, <2>2
<1>7. InPlace'
  BY <1>1, <1>2, <1>4, <1>6 DEF InPlace
<1>8. TypeOK'
  <2>1. Len(buffer') >= B /\ total' \in 0 .. Len(file')
    BY <1>1, <1>2, <1>3, <1>4, <1>5
  <2> QED
    BY <1>1, <1>2, <1>4, <2>1 DEF TypeOK
<1>9. WrittenFirst' /\ WritesLaid' /\ Counted'
  BY <1>1, <1>2, CountedKept DEF WrittenFirst, WritesLaid
<1>10. NoGrowth' /\ ReadSoFar' /\ DecodedBuffer'
  BY <1>1, <1>2, <1>3, <1>4, <1>5 DEF NoGrowth, ReadSoFar, DecodedBuffer
<1> QED
  BY <1>7, <1>8, <1>9, <1>10 DEF BundleInv, BufferFits

(***************************************************************************)
(* The invariant holds of every behaviour.                                 *)
(***************************************************************************)
LEMMA BundleInductive == Spec => []BundleInv
<1>1. BundleInv /\ [Next]_vars => BundleInv'
  <2> SUFFICES ASSUME BundleInv, [Next]_vars PROVE BundleInv'
    OBVIOUS
  <2>1. ASSUME NEW c \in Chains,
               \/ SaveToFile(c) \/ SaveTooLarge(c)
               \/ \E n \in 0 .. Size[c] : SaveToFileFails(c, n)
        PROVE  BundleInv'
    BY <2>1, SaveKeeps, SaveTooLargeKeeps
  <2>2. ASSUME NEW cs \in Vectors, NEW n \in 0 .. EncodeVec(buffer, cs).offset,
               SaveChains(cs, n)
        PROVE  BundleInv'
    BY <2>2, SaveChainsKeeps
  <2>3. ASSUME NEW w \in underway, NEW n \in 0 .. Len(w.cells),
               LandAtEnd(w, n) \/ LandAtStart(w, n)
        PROVE  BundleInv'
    BY <2>3, LandAtEndKeeps, LandAtStartKeeps
  <2>4. ASSUME NEW n \in 1 .. B, Read(n) PROVE BundleInv'
    BY <2>4, ReadKeeps
  <2>5. CASE \/ \E cs \in Vectors : SaveChainsNever(cs)
             \/ Open \/ EndOfRead \/ Return \/ Restart
    BY <2>5, OtherKeeps
  <2>6. CASE UNCHANGED vars
    <3>1. UNCHANGED << pc, file, underway, buffer, total, loaded, desc, saves,
                       moved, first, added >>
      BY <2>6 DEF vars, history
    <3>2. TypeOK' /\ WrittenFirst' /\ WritesLaid' /\ Counted'
      BY <3>1, CountedKept DEF BundleInv, BufferFits, TypeOK, WrittenFirst, WritesLaid
    <3> QED
      BY <3>1, <3>2
      DEF BundleInv, BufferFits, NoGrowth, InPlace, Roomy, ReadSoFar, DecodedBuffer
  <2> QED
    BY <2>1, <2>2, <2>3, <2>4, <2>5, <2>6 DEF Next, EndOfFile, ReadFails
<1> QED
  BY <1>1, BundleInitially, PTL DEF Spec

-----------------------------------------------------------------------------
(***************************************************************************)
(* For any chains and any calls, the buffer never gets smaller than        *)
(* BUFFER_SIZE, and a read always finds room for what it reads.            *)
(***************************************************************************)
THEOREM BufferFitsAlways == Spec => []BufferFits
<1>1. BundleInv => BufferFits
  BY DEF BundleInv
<1> QED
  BY <1>1, BundleInductive, PTL

(***************************************************************************)
(* A load whose reads went in place, and during which no earlier write     *)
(* reached the file, returns what the file holds, or the beginning of it   *)
(* when a read failed, with at most one entry that is not whole.           *)
(***************************************************************************)
THEOREM LoadReturnsFileAlways == Spec => []LoadReturnsFile
<1>1. BundleInv => LoadReturnsFile
  <2> SUFFICES ASSUME BundleInv, pc = "loaded", ~ moved, Roomy
               PROVE  /\ total = Len(file) => loaded = Decode(file)
                      /\ \/ IsPrefix(loaded, Decode(file))
                         \/ /\ loaded # << >> /\ Last(loaded) = Bad
                            /\ IsPrefix(Front(loaded), Decode(file))
    BY DEF LoadReturnsFile, Roomy
  <2>1. /\ file \in Seq(Cells) /\ buffer \in Seq(Cells)
        /\ total \in 0 .. Len(file) /\ total \in 0 .. Len(buffer)
        /\ loaded = Decode(SubSeq(buffer, 1, total))
        /\ \A i \in 1 .. total : buffer[i] = file[i]
    BY DEF BundleInv, BufferFits, TypeOK, InPlace, ReadSoFar, DecodedBuffer
  <2>2. SubSeq(buffer, 1, total) = SubSeq(file, 1, total)
    BY <2>1
  <2>3. total = Len(file) => SubSeq(file, 1, total) = file
    BY <2>1
  <2>4. loaded \in Seq(Loadable) /\ Decode(file) \in Seq(Loadable)
    BY <2>1, DecodeType DEF BundleInv, BufferFits, TypeOK, Loadable
  <2>5. PartOf(loaded, Decode(file))
    BY <2>1, <2>2, DecodePart
  <2> QED
    BY <2>1, <2>2, <2>3, <2>4, <2>5, PartMeans
<1> QED
  BY <1>1, BundleInductive, PTL

(***************************************************************************)
(* Whatever the buffer and the file held, the file begins with the vector  *)
(* whose write was the last to reach it, or with the chains of it that are *)
(* whole in what of a short or failed write reached it.                    *)
(***************************************************************************)
THEOREM VectorFirstAlways == Spec => []VectorFirst
<1>1. BundleInv => VectorFirst
  <2> SUFFICES ASSUME BundleInv PROVE VectorFirst
    OBVIOUS
  <2>1. PICK o : Laid(first, Len(first), file, o)
    BY DEF BundleInv, WrittenFirst
  <2>2. first \in Seq(Chains) /\ file \in Seq(Cells)
    BY DEF BundleInv, BufferFits, TypeOK
  <2> QED
    BY <2>1, <2>2, LaidDecodes DEF VectorFirst
<1> QED
  BY <1>1, BundleInductive, PTL

(***************************************************************************)
(* The description of a bundle is the smallest window of time around the   *)
(* chains that save_to_file returned, however many there are, if none of   *)
(* them reaches past the last u64.                                         *)
(***************************************************************************)
THEOREM DescriptionCoversAlways == Spec => []DescriptionCovers
<1>1. BundleInv => DescriptionCovers
  BY DEF BundleInv, Counted
<1> QED
  BY <1>1, BundleInductive, PTL

-----------------------------------------------------------------------------
(***************************************************************************)
(* The other half of db.rs: the files and their meta data, on a state of   *)
(* its own.                                                                *)
(***************************************************************************)

(* What the proofs use of the assumptions of MetaStore. *)
LEMMA MetaConstants ==
  /\ Uuids # {} /\ Uuid \in [Saves -> Uuids]
  /\ FileName \in [Saves -> Names]
  /\ TooLong \subseteq Saves
  /\ Unasked \notin Saves /\ Missing \notin Saves /\ NoSave \notin Saves
  /\ Unasked # Missing
  BY UuidAssumption, FileNameAssumption, TooLongAssumption, ValuesAssumption

Saved == {disk[i].save : i \in 1 .. Len(disk)}

Entries == {disk[i].save : i \in {j \in 1 .. Len(disk) : disk[j].whole}}

(***************************************************************************)
(* What MetaAfterFile lacks to be inductive: meta data comes only from     *)
(* calls that returned Ok, and a call that copied its file still has it.   *)
(***************************************************************************)
OkSaved == \A s \in pending \cup Saved : stage[s] = "ok"

SharedName(s) == \E t \in Saves \ {s} : FileName[t] = FileName[s] /\ stage[t] # "idle"

CopiedIsThere ==
  \A s \in Saves : stage[s] = "copied" => files[FileName[s]] = s \/ SharedName(s)

FileInv ==
  /\ MetaTypeOK
  /\ OkSaved
  /\ CopiedIsThere
  /\ MetaAfterFile

(***************************************************************************)
(* The list in memory holds entries of the file, and every answer that     *)
(* named an entry was given from the list as it still is.                  *)
(***************************************************************************)
ListSound ==
  \A u \in Uuids : cache[u] # NoSave => cache[u] \in Entries /\ Uuid[cache[u]] = u

AnswersStand ==
  \A u \in Uuids :
    /\ cache[u] # NoSave => filled
    /\ answer[u] \in Saves => ~ scan.on /\ filled /\ cache[u] = answer[u]

AnswerInv ==
  /\ MetaTypeOK
  /\ ListSound
  /\ AnswersStand

-----------------------------------------------------------------------------
(***************************************************************************)
(* An entry that is appended leaves the others where they are.             *)
(***************************************************************************)
LEMMA DiskAppend ==
  ASSUME disk \in Seq(MetaEntry), NEW e \in MetaEntry,
  disk' = Append(disk, e)
  PROVE  /\ disk' \in Seq(MetaEntry)
         /\ Saved' = Saved \cup {e.save}
         /\ Entries' = Entries \cup (IF e.whole THEN {e.save} ELSE {})
<1> DEFINE n == Len(disk)
<1>1. /\ disk' \in Seq(MetaEntry) /\ Len(disk') = n + 1 /\ n \in Nat
      /\ \A i \in 1 .. n : disk'[i] = disk[i]
      /\ disk'[n + 1] = e
  OBVIOUS
<1>2. /\ Saved = {disk[i].save : i \in 1 .. n}
      /\ Saved' = {disk'[i].save : i \in 1 .. n + 1}
      /\ Entries = {disk[i].save : i \in {j \in 1 .. n : disk[j].whole}}
      /\ Entries' = {disk'[i].save : i \in {j \in 1 .. n + 1 : disk'[j].whole}}
  BY <1>1 DEF Saved, Entries
<1> HIDE DEF n
<1>3. \A i : i \in 1 .. n + 1 <=> i \in 1 .. n \/ i = n + 1
  BY <1>1
<1>4. Saved' = Saved \cup {e.save}
  BY <1>1, <1>2, <1>3
<1>5. Entries' = Entries \cup (IF e.whole THEN {e.save} ELSE {})
  <2>1. \A s : s \in Entries' <=> \E i \in 1 .. n + 1 : disk'[i].whole /\ s = disk'[i].save
    BY <1>2
  <2>2. \A s : s \in Entries <=> \E i \in 1 .. n : disk[i].whole /\ s = disk[i].save
    BY <1>2
  <2> QED
    BY <1>1, <1>3, <2>1, <2>2
<1> QED
  BY <1>1, <1>4, <1>5

(***************************************************************************)
(* The entries of the file come from calls of save_file.                   *)
(***************************************************************************)
LEMMA DiskFacts ==
  ASSUME disk \in Seq(MetaEntry)
  PROVE  /\ \A i \in 1 .. Len(disk) :
              disk[i] \in MetaEntry /\ disk[i].save \in Saves /\ disk[i].whole \in BOOLEAN
         /\ Saved \subseteq Saves /\ Entries \subseteq Saves
         /\ Len(disk) \in Nat
<1>1. \A i \in 1 .. Len(disk) :
        disk[i] \in MetaEntry /\ disk[i].save \in Saves /\ disk[i].whole \in BOOLEAN
  <2>1. \A i \in 1 .. Len(disk) : disk[i] \in MetaEntry
    OBVIOUS
  <2>2. \A e \in MetaEntry : e.save \in Saves /\ e.whole \in BOOLEAN
    BY DEF MetaEntry
  <2> QED
    BY <2>1, <2>2
<1> QED
  BY <1>1 DEF Saved, Entries

(***************************************************************************)
(* An entry that is read is in the file.                                   *)
(***************************************************************************)
LEMMA EntryRead ==
  ASSUME MetaTypeOK, Reading
  PROVE  /\ scan.pos \in 1 .. Len(disk)
         /\ disk[scan.pos].save \in Saves
         /\ Uuid[disk[scan.pos].save] \in Uuids
<1>1. scan.pos \in Nat \ {0} /\ disk \in Seq(MetaEntry)
  BY DEF MetaTypeOK, Scan
<1>2. scan.pos \in 1 .. Len(disk)
  BY <1>1, DiskFacts DEF Reading
<1> QED
  BY <1>1, <1>2, DiskFacts, MetaConstants

(***************************************************************************)
(* A process that has not scanned yet is well formed.                      *)
(***************************************************************************)
LEMMA NoScanInScan ==
  NoScan \in Scan
<1>1. (CHOOSE u \in Uuids : TRUE) \in Uuids
  BY MetaConstants
<1> QED
  BY <1>1 DEF NoScan, Scan

-----------------------------------------------------------------------------
(***************************************************************************)
(* Type correctness.                                                       *)
(***************************************************************************)
LEMMA TypeKept ==
  MetaTypeOK /\ [MetaNext]_metaVars => MetaTypeOK'
<1> SUFFICES ASSUME MetaTypeOK, [MetaNext]_metaVars PROVE MetaTypeOK'
  OBVIOUS
<1> USE DEF MetaTypeOK, Stages
<1>1. ASSUME NEW s \in Saves,
CopyStarts(s) \/ CopyEnds(s) \/ SaveFails(s) \/ SaveMeta(s)
      PROVE  MetaTypeOK'
  BY <1>1 DEF CopyStarts, CopyEnds, SaveFails, SaveMeta
<1>2. ASSUME NEW s \in Saves, Write(s) \/ WriteTorn(s)
      PROVE MetaTypeOK'
  <2>1. PICK e \in MetaEntry : disk' = Append(disk, e)
    BY <1>2 DEF Write, WriteTorn, MetaEntry
  <2>2. disk' \in Seq(MetaEntry)
    BY <2>1, DiskAppend
  <2> QED
    BY <1>2, <2>2 DEF Write, WriteTorn
<1>3. ASSUME NEW u \in Uuids, FindCached(u) \/ FindOpenFails(u)
      PROVE MetaTypeOK'
  BY <1>3 DEF FindCached, FindOpenFails, Found
<1>4. ASSUME NEW u \in Uuids, FindOpens(u) PROVE MetaTypeOK'
  <2>1. scan' \in Scan
    BY <1>4, DiskFacts DEF FindOpens, ScanOf, Scan
  <2> QED
    BY <1>4, <2>1 DEF FindOpens
<1>5. CASE ReadEntry
  <2>1. scan' \in Scan
    BY <1>5 DEF ReadEntry, Scan
  <2>2. disk[scan.pos].save \in Saves /\ Uuid[disk[scan.pos].save] \in Uuids
    BY <1>5, EntryRead DEF ReadEntry
  <2> QED
    BY <1>5, <2>1, <2>2 DEF ReadEntry
<1>6. CASE ReadGarbled
  <2>1. scan' \in Scan
    BY <1>6 DEF ReadGarbled, Scan
  <2> QED
    BY <1>6, <2>1 DEF ReadGarbled
<1>7. CASE FindEnds \/ FindFails \/ FindCancelled
  <2>1. scan' \in Scan /\ scan.uuid \in Uuids
    BY <1>7 DEF FindEnds, FindFails, FindCancelled, Scan
  <2> QED
    BY <1>7, <2>1 DEF FindEnds, FindFails, FindCancelled, FindReturns, Found
<1>8. CASE MetaRestart
  BY <1>8, NoScanInScan DEF MetaRestart
<1>9. CASE UNCHANGED metaVars
  BY <1>9 DEF metaVars
<1> QED
  BY <1>1, <1>2, <1>3, <1>4, <1>5, <1>6, <1>7, <1>8, <1>9 DEF MetaNext

(***************************************************************************)
(* The store begins well formed and empty.                                 *)
(***************************************************************************)
LEMMA TypeInitially ==
  MetaInit => MetaTypeOK /\ Saved = {} /\ Entries = {}
<1> SUFFICES ASSUME MetaInit PROVE MetaTypeOK /\ Saved = {} /\ Entries = {}
  OBVIOUS
<1>1. disk = << >> /\ disk \in Seq(MetaEntry) /\ Len(disk) = 0
  BY DEF MetaInit
<1>2. Saved = {} /\ Entries = {}
  BY <1>1 DEF Saved, Entries
<1>3. MetaTypeOK
  BY <1>1, NoScanInScan DEF MetaInit, MetaTypeOK, Stages
<1> QED
  BY <1>2, <1>3

(***************************************************************************)
(* All of the store's state, in memory and on disk, is well formed.        *)
(***************************************************************************)
THEOREM MetaTypeCorrect ==
  MetaSpec => []MetaTypeOK
BY TypeInitially, TypeKept, PTL DEF MetaSpec

-----------------------------------------------------------------------------
(***************************************************************************)
(* Files and their meta data.                                              *)
(***************************************************************************)
LEMMA FileKept ==
  FileInv /\ [MetaNext]_metaVars => FileInv'
<1> SUFFICES ASSUME FileInv, [MetaNext]_metaVars PROVE FileInv'
  OBVIOUS
<1>1. MetaTypeOK /\ MetaTypeOK' /\ OkSaved /\ CopiedIsThere
  BY TypeKept DEF FileInv
<1>2. \A s \in pending \cup Saved : files[FileName[s]] = s \/ SharedName(s)
  BY DEF FileInv, MetaAfterFile, Saved, SharedName
<1>3. pending \cup Saved \subseteq Saves
  BY <1>1, DiskFacts DEF MetaTypeOK
<1>4. ASSUME OkSaved', CopiedIsThere',
             \A s \in pending' \cup Saved' : files'[FileName[s]] = s \/ SharedName(s)'
      PROVE  FileInv'
  BY <1>1, <1>4 DEF FileInv, MetaAfterFile, Saved, SharedName
<1>5. ASSUME NEW c \in Saves, CopyStarts(c) \/ CopyEnds(c)
      PROVE FileInv'
  <2>1. /\ stage[c] \in {"idle", "copying"} /\ stage'[c] \in {"copying", "copied"}
        /\ \A s \in Saves \ {c} : stage'[s] = stage[s]
        /\ stage'[c] = "copied" => files'[FileName[c]] = c
        /\ \A s \in Saves :
             FileName[s] # FileName[c] => files'[FileName[s]] = files[FileName[s]]
        /\ pending' = pending /\ Saved' = Saved
    BY <1>1, <1>5, MetaConstants DEF CopyStarts, CopyEnds, MetaTypeOK, Saved
  <2>2. \A s \in Saves : SharedName(s) => SharedName(s)'
    BY <2>1 DEF SharedName
  <2>3. \A s \in Saves \ {c} : FileName[s] = FileName[c] => SharedName(s)'
    BY <2>1 DEF SharedName
  <2>4. c \notin pending \cup Saved
    BY <1>1, <2>1 DEF OkSaved
  <2> QED
    BY <1>1, <1>2, <1>3, <1>4, <2>1, <2>2, <2>3, <2>4 DEF OkSaved, CopiedIsThere
<1>6. ASSUME NEW c \in Saves, SaveFails(c) PROVE FileInv'
  <2>1. /\ stage[c] # "ok" /\ stage'[c] = "err" /\ files' = files
        /\ \A s \in Saves \ {c} : stage'[s] = stage[s]
        /\ pending' = pending /\ Saved' = Saved
    BY <1>1, <1>6 DEF SaveFails, MetaTypeOK, Saved
  <2>2. \A s \in Saves : SharedName(s) => SharedName(s)'
    BY <2>1 DEF SharedName
  <2> QED
    BY <1>1, <1>2, <1>3, <1>4, <2>1, <2>2 DEF OkSaved, CopiedIsThere
<1>7. ASSUME NEW c \in Saves, SaveMeta(c) PROVE FileInv'
  <2>1. /\ stage[c] = "copied" /\ stage'[c] = "ok" /\ files' = files
        /\ \A s \in Saves \ {c} : stage'[s] = stage[s]
        /\ pending' = pending \cup {c} /\ Saved' = Saved
    BY <1>1, <1>7 DEF SaveMeta, MetaTypeOK, Saved
  <2>2. \A s \in Saves : SharedName(s) => SharedName(s)'
    BY <2>1 DEF SharedName
  <2> QED
    BY <1>1, <1>2, <1>3, <1>4, <2>1, <2>2 DEF OkSaved, CopiedIsThere
<1>8. ASSUME NEW c \in Saves, Write(c) \/ WriteTorn(c) PROVE FileInv'
  <2>1. PICK e \in MetaEntry : e.save = c /\ disk' = Append(disk, e)
    BY <1>8 DEF Write, WriteTorn, MetaEntry
  <2>2. Saved' = Saved \cup {c}
    BY <1>1, <2>1, DiskAppend DEF MetaTypeOK
  <2>3. /\ c \in pending /\ pending' \subseteq pending
        /\ stage' = stage /\ files' = files
    BY <1>8 DEF Write, WriteTorn
  <2> QED
    BY <1>1, <1>2, <1>3, <1>4, <2>2, <2>3 DEF OkSaved, CopiedIsThere, SharedName
<1>9. CASE MetaRestart
  <2>1. \A s \in Saves :
          /\ stage'[s] # "copied"
          /\ stage[s] = "ok" => stage'[s] = "ok"
          /\ stage[s] # "idle" => stage'[s] # "idle"
    BY <1>9 DEF MetaRestart
  <2>2. files' = files /\ pending' = {} /\ Saved' = Saved
    BY <1>9 DEF MetaRestart, Saved
  <2>3. \A s \in Saves : SharedName(s) => SharedName(s)'
    BY <2>1 DEF SharedName
  <2>4. OkSaved' /\ CopiedIsThere'
    BY <1>1, <1>3, <2>1, <2>2 DEF OkSaved, CopiedIsThere
  <2> QED
    BY <1>2, <1>3, <1>4, <2>2, <2>3, <2>4
<1>10. ASSUME stage' = stage, files' = files, pending' = pending, disk' = disk
       PROVE  FileInv'
  BY <1>1, <1>2, <1>4, <1>10 DEF OkSaved, CopiedIsThere, SharedName, Saved
<1>11. \/ \E s \in Saves : \/ CopyStarts(s) \/ CopyEnds(s) \/ SaveFails(s)
                          \/ SaveMeta(s) \/ Write(s) \/ WriteTorn(s)
       \/ MetaRestart
       \/ stage' = stage /\ files' = files /\ pending' = pending /\ disk' = disk
  BY DEF MetaNext, metaVars, FindCached, FindOpens,
         FindOpenFails, ReadEntry, ReadGarbled,
         FindEnds, FindFails, FindReturns, FindCancelled
<1> QED
  BY <1>5, <1>6, <1>7, <1>8, <1>9, <1>10, <1>11

(***************************************************************************)
(* Whose meta data can be found, has its file, after any number of crashes *)
(* (db.rs:272-286), unless another call used the name.                     *)
(***************************************************************************)
THEOREM MetaAfterFileAlways ==
  MetaSpec => []MetaAfterFile
<1>1. MetaInit => FileInv
  BY TypeInitially DEF MetaInit, FileInv, OkSaved, CopiedIsThere,
                       MetaAfterFile, Saved
<1>2. FileInv => MetaAfterFile
  BY DEF FileInv
<1> QED
  BY <1>1, <1>2, FileKept, PTL DEF MetaSpec

-----------------------------------------------------------------------------
(***************************************************************************)
(* The list, the answers and the Catalogue.                                *)
(***************************************************************************)
LEMMA ListStep ==
  ASSUME MetaTypeOK, ListSound, [MetaNext]_metaVars
  PROVE  ListSound'
<1>1. CASE ReadEntry
  <2> DEFINE e == disk[scan.pos]
  <2>1. e.save \in Entries /\ Uuid[e.save] \in Uuids /\ Entries' = Entries
    BY <1>1, EntryRead DEF ReadEntry, Entries
  <2>2. cache' = [cache EXCEPT ![Uuid[e.save]] = e.save]
    BY <1>1 DEF ReadEntry
  <2> HIDE DEF e
  <2> QED
    BY <2>1, <2>2 DEF ListSound, MetaTypeOK
<1>2. CASE MetaRestart
  BY <1>2 DEF MetaRestart, ListSound
<1>3. ASSUME NEW s \in Saves, Write(s) \/ WriteTorn(s) PROVE ListSound'
  <2>1. PICK e \in MetaEntry : disk' = Append(disk, e) /\ cache' = cache
    BY <1>3 DEF Write, WriteTorn, MetaEntry
  <2>2. Entries \subseteq Entries'
    BY <2>1, DiskAppend DEF MetaTypeOK
  <2> QED
    BY <2>1, <2>2 DEF ListSound
<1>4. CASE cache' = cache /\ disk' = disk
  BY <1>4 DEF ListSound, Entries
<1> QED
  BY <1>1, <1>2, <1>3, <1>4
  DEF MetaNext, metaVars, CopyStarts, CopyEnds, SaveFails,
      SaveMeta, FindCached,
      FindOpens, FindOpenFails, ReadGarbled, FindEnds, FindFails, FindReturns,
      FindCancelled

(***************************************************************************)
(* An answer is given from the list, and the list does not change any more *)
(* once one was given: only an empty list is filled.                       *)
(***************************************************************************)
LEMMA AnswersStep ==
  ASSUME MetaTypeOK, AnswersStand, [MetaNext]_metaVars
  PROVE  AnswersStand'
<1>1. ASSUME NEW u \in Uuids, FindCached(u) PROVE AnswersStand'
  BY <1>1, MetaConstants DEF FindCached, AnswersStand, MetaTypeOK, Found
<1>2. ASSUME NEW u \in Uuids, FindOpens(u) \/ FindOpenFails(u)
      PROVE AnswersStand'
  BY <1>2, MetaConstants DEF FindOpens, FindOpenFails, AnswersStand, MetaTypeOK
<1>3. CASE ReadEntry \/ ReadGarbled
  BY <1>3 DEF ReadEntry, ReadGarbled, Reading, AnswersStand
<1>4. CASE FindEnds \/ FindFails
  <2>1. /\ scan.on /\ ~ scan'.on /\ cache' = cache /\ filled' = filled
        /\ answer' = [answer EXCEPT ![scan.uuid] = Found(scan.uuid)]
    BY <1>4 DEF FindEnds, FindFails, FindReturns, MetaTypeOK, Scan
  <2> QED
    BY <2>1, MetaConstants DEF AnswersStand, MetaTypeOK, Found, Scan
<1>7. CASE FindCancelled
  BY <1>7 DEF FindCancelled, AnswersStand, MetaTypeOK, Scan
<1>5. CASE MetaRestart
  BY <1>5, MetaConstants DEF MetaRestart, AnswersStand
<1>6. CASE answer' = answer /\ scan' = scan /\ filled' = filled /\ cache' = cache
  BY <1>6 DEF AnswersStand
<1> QED
  BY <1>1, <1>2, <1>3, <1>4, <1>5, <1>6, <1>7
  DEF MetaNext, metaVars, CopyStarts, CopyEnds, SaveFails,
      SaveMeta, Write, WriteTorn

(***************************************************************************)
(* The invariant that relates the answers, the list and the file.          *)
(***************************************************************************)
LEMMA AnswerInvAlways ==
  MetaSpec => []AnswerInv
<1>1. MetaInit => AnswerInv
  <2> SUFFICES ASSUME MetaInit PROVE AnswerInv
    OBVIOUS
  <2>1. ListSound /\ AnswersStand
    BY MetaConstants DEF MetaInit, ListSound, AnswersStand
  <2> QED
    BY <2>1, TypeInitially DEF AnswerInv
<1>2. AnswerInv /\ [MetaNext]_metaVars => AnswerInv'
  BY TypeKept, ListStep, AnswersStep DEF AnswerInv
<1> QED
  BY <1>1, <1>2, PTL DEF MetaSpec

(***************************************************************************)
(* What the steps of MetaStore are to a Catalogue.                         *)
(***************************************************************************)
LEMMA Looks ==
  ASSUME AnswerInv, NEW u \in Uuids, disk' = disk,
         answer[u] \in Saves => filled /\ ~ scan.on,
         \/ answer' = [answer EXCEPT ![u] = Found(u)]
         \/ answer' = [answer EXCEPT ![u] = Missing] /\ ~ filled
  PROVE  Store!Lookup(u)
<1>1. Found(u) \in Store!Candidates(u)
  <2>1. answer[u] \in Saves => Found(u) = answer[u]
    BY MetaConstants DEF AnswerInv, AnswersStand, Found
  <2>2. answer[u] \notin Saves => Found(u) \in {s \in Entries : Uuid[s] = u} \cup {Missing}
    BY DEF AnswerInv, ListSound, Found
  <2> QED
    BY <2>1, <2>2 DEF Store!Candidates, Entries
<1>2. ~ filled => Missing \in Store!Candidates(u)
  BY DEF AnswerInv, AnswersStand, Store!Candidates
<1>3. UNCHANGED {disk[i].save : i \in {j \in 1 .. Len(disk) : disk[j].whole}}
  OBVIOUS
<1> QED
  BY <1>1, <1>2, <1>3 DEF Store!Lookup

(***************************************************************************)
(* Every step of MetaStore is a step of a Catalogue, or none.              *)
(***************************************************************************)
LEMMA Refines ==
  ASSUME AnswerInv, [MetaNext]_metaVars
  PROVE  [Store!Next]_(Store!vars)
<1>1. ASSUME NEW u \in Uuids, FindCached(u) \/ FindOpenFails(u)
      PROVE Store!Lookup(u)
  <2>1. /\ disk' = disk /\ ~ scan.on
        /\ answer[u] \in Saves => filled
        /\ \/ answer' = [answer EXCEPT ![u] = Found(u)]
           \/ answer' = [answer EXCEPT ![u] = Missing] /\ ~ filled
    BY <1>1 DEF FindCached, FindOpenFails, AnswerInv, AnswersStand
  <2> QED
    BY <2>1, Looks
<1>2. CASE FindEnds \/ FindFails
  <2>1. scan.uuid \in Uuids
    BY DEF AnswerInv, MetaTypeOK, Scan
  <2>2. Store!Lookup(scan.uuid)
    BY <1>2, <2>1, Looks
    DEF FindEnds, FindFails, FindReturns, AnswerInv, AnswersStand
  <2> QED
    BY <2>1, <2>2 DEF Store!Next
<1>3. CASE MetaRestart
  <2>1. Store!Restart
    BY <1>3 DEF MetaRestart, Store!Restart
  <2> QED
    BY <2>1 DEF Store!Next
<1>4. ASSUME NEW s \in Saves, Write(s) \/ WriteTorn(s)
      PROVE  [Store!Next]_(Store!vars)
  <2>1. PICK e \in MetaEntry : e.save = s /\ disk' = Append(disk, e) /\ answer' = answer
    BY <1>4 DEF Write, WriteTorn, MetaEntry
  <2>2. Entries' = Entries \cup (IF e.whole THEN {s} ELSE {})
    BY <2>1, DiskAppend DEF AnswerInv, MetaTypeOK
  <2>3. Entries' = Entries \/ Entries' = Entries \cup {s}
    BY <2>2
  <2>4. CASE Entries' = Entries
    BY <2>1, <2>4 DEF Store!vars, Entries
  <2>5. CASE Entries' = Entries \cup {s}
    <3>1. Store!Store(s)
      BY <2>1, <2>5 DEF Store!Store, Entries
    <3> QED
      BY <3>1 DEF Store!Next
  <2> QED
    BY <2>3, <2>4, <2>5
<1>5. CASE answer' = answer /\ disk' = disk
  BY <1>5 DEF Store!vars
<1> QED
  BY <1>1, <1>2, <1>3, <1>4, <1>5
  DEF MetaNext, Store!Next, metaVars, CopyStarts, CopyEnds,
      SaveFails, SaveMeta, FindOpens,
      ReadEntry, ReadGarbled, FindCancelled

(***************************************************************************)
(* What find_meta answers is an entry stored under that uuid, and stays    *)
(* its answer as long as the process lives.                                *)
(***************************************************************************)
THEOREM ImplementsCatalogue ==
  MetaSpec => CatalogueSpec
<1>1. MetaInit => Store!Init
  <2> SUFFICES ASSUME MetaInit PROVE Store!Init
    OBVIOUS
  <2>1. Entries = {}
    BY TypeInitially
  <2> QED
    BY <2>1 DEF MetaInit, Store!Init, Entries
<1>2. AnswerInv /\ [MetaNext]_metaVars => [Store!Next]_(Store!vars)
  BY Refines
<1> QED
  BY <1>1, <1>2, AnswerInvAlways, PTL DEF MetaSpec, CatalogueSpec,
                                          Store!Spec

-----------------------------------------------------------------------------
(***************************************************************************)
(* The list against the file.  While the entries that a scan passed are    *)
(* whole, the list is what it has read so far, and a scan that is over and *)
(* was not cut short has read to the noted end.                            *)
(***************************************************************************)
WholeSoFar == \A i \in 1 .. scan.pos - 1 : disk[i].whole

ListBuilt ==
  /\ \A u \in Uuids : cache[u] # NoSave => filled
  /\ scan.end <= Len(disk)
  /\ scan.pos <= Len(disk) + 1
  /\ WholeSoFar =>
       /\ scan.pos <= scan.end + 1
       /\ \A u \in Uuids : IsLast(cache[u], u, scan.pos - 1)
       /\ filled <=> scan.pos > 1
       /\ ~ scan.on /\ ~ scan.cut => scan.pos = scan.end + 1

(***************************************************************************)
(* No entry is the last one of nothing.                                    *)
(***************************************************************************)
LEMMA NothingYet == \A u : IsLast(NoSave, u, 0)
BY DEF IsLast

(***************************************************************************)
(* The last entry of a uuid, when one more is read.                        *)
(***************************************************************************)
LEMMA OneMore ==
  ASSUME NEW u, NEW n \in Nat, NEW s, IsLast(s, u, n)
  PROVE  IF Uuid[disk[n + 1].save] = u THEN IsLast(disk[n + 1].save, u, n + 1)
                                       ELSE IsLast(s, u, n + 1)
<1>1. \A i : i \in 1 .. n + 1 <=> i \in 1 .. n \/ i = n + 1
  OBVIOUS
<1>2. ASSUME NEW i \in 1 .. n
      PROVE  \A j : j \in i + 1 .. n + 1 <=> j \in i + 1 .. n \/ j = n + 1
  OBVIOUS
<1>3. CASE Uuid[disk[n + 1].save] = u
  <2>1. n + 1 \in 1 .. n + 1 /\ (n + 1) + 1 .. n + 1 = {}
    OBVIOUS
  <2> QED
    BY <1>3, <2>1 DEF IsLast
<1>4. CASE Uuid[disk[n + 1].save] # u
  BY <1>1, <1>2, <1>4 DEF IsLast
<1> QED
  BY <1>3, <1>4

(***************************************************************************)
(* What was in the file when the scan began stays as it was.               *)
(***************************************************************************)
LEMMA ListBuiltKept ==
  ASSUME MetaTypeOK, ListBuilt, [MetaNext]_metaVars
  PROVE  ListBuilt'
<1>0. /\ scan.pos \in Nat \ {0} /\ scan.end \in Nat /\ Len(disk) \in Nat
      /\ disk \in Seq(MetaEntry)
  BY DiskFacts DEF MetaTypeOK, Scan
<1>1. ASSUME NEW u \in Uuids, FindOpens(u) PROVE ListBuilt'
  <2>1. /\ scan'.on /\ scan'.pos = 1 /\ scan'.end = Len(disk)
        /\ cache' = cache /\ filled' = filled /\ disk' = disk /\ ~ filled
        /\ scan'.pos - 1 = 0
    BY <1>1 DEF FindOpens, ScanOf
  <2>2. \A v \in Uuids : cache[v] = NoSave /\ IsLast(NoSave, v, 0)'
    BY <2>1 DEF ListBuilt, IsLast
  <2> QED
    BY <1>0, <2>1, <2>2 DEF ListBuilt
<1>2. CASE ReadEntry
  <2> DEFINE e == disk[scan.pos]
  <2>1. /\ scan.pos \in 1 .. Len(disk) /\ scan.pos # scan.end + 1
        /\ e.save \in Saves /\ Uuid[e.save] \in Uuids
        /\ cache' = [cache EXCEPT ![Uuid[e.save]] = e.save]
        /\ filled' = TRUE /\ disk' = disk
        /\ scan' = [scan EXCEPT !.pos = @ + 1] /\ scan.on
    BY <1>2, EntryRead DEF ReadEntry, Reading
  <2>2. scan'.pos = scan.pos + 1 /\ scan'.end = scan.end /\ scan'.on
    BY <2>1 DEF MetaTypeOK, Scan
  <2>3. scan.pos - 1 \in Nat /\ (scan.pos - 1) + 1 = scan.pos /\ scan'.pos - 1 = scan.pos
    BY <1>0, <2>2
  <2>4. ASSUME WholeSoFar, NEW u \in Uuids
        PROVE IsLast(cache[u], u, scan.pos - 1)'
    <3>1. IsLast(cache[u], u, scan.pos - 1)
      BY <2>4 DEF ListBuilt
    <3>2. IF Uuid[e.save] = u THEN IsLast(e.save, u, scan.pos)
                              ELSE IsLast(cache[u], u, scan.pos)
      BY <2>3, <3>1, OneMore
    <3>3. cache'[u] = IF Uuid[e.save] = u THEN e.save ELSE cache[u]
      BY <2>1 DEF MetaTypeOK
    <3>4. IsLast(cache'[u], u, scan.pos)
      BY <3>2, <3>3
    <3> QED
      BY <2>1, <2>2, <3>4 DEF IsLast
  <2>5. WholeSoFar' => WholeSoFar
    BY <1>0, <2>1, <2>2 DEF WholeSoFar
  <2>6. WholeSoFar' => \A u \in Uuids : IsLast(cache[u], u, scan.pos - 1)'
    BY <2>4, <2>5
  <2>7. WholeSoFar' => scan'.pos <= scan'.end + 1
    BY <1>0, <2>1, <2>2, <2>5 DEF ListBuilt
  <2> QED
    BY <1>0, <2>1, <2>2, <2>6, <2>7 DEF ListBuilt
<1>3. CASE ReadGarbled
  <2>1. /\ scan.pos \in 1 .. Len(disk) /\ scan.pos # scan.end + 1
        /\ ~ disk[scan.pos].whole
        /\ scan'.end = scan.end /\ disk' = disk /\ filled' = TRUE
        /\ scan'.pos \in Nat /\ scan'.pos >= scan.pos + 2 /\ scan'.pos <= Len(disk) + 1
    BY <1>0, <1>3, EntryRead DEF ReadGarbled, Reading, MetaTypeOK, Scan
  <2>2. scan.pos \in 1 .. scan'.pos - 1
    BY <1>0, <2>1
  <2>3. ~ WholeSoFar'
    BY <2>1, <2>2 DEF WholeSoFar
  <2> QED
    BY <2>1, <2>3 DEF ListBuilt
<1>4. CASE FindEnds \/ FindFails \/ FindCancelled
  <2>1. /\ scan'.pos = scan.pos /\ scan'.end = scan.end
        /\ cache' = cache /\ disk' = disk /\ filled' = filled
        /\ ~ scan'.cut => scan.pos = scan.end + 1
    BY <1>4 DEF FindEnds, FindFails, FindReturns, FindCancelled, MetaTypeOK, Scan
  <2> QED
    BY <2>1 DEF ListBuilt, WholeSoFar, IsLast
<1>5. CASE MetaRestart
  <2>1. /\ scan' = NoScan /\ filled' = FALSE
        /\ cache' = [u \in Uuids |-> NoSave] /\ disk' = disk
    BY <1>5 DEF MetaRestart
  <2>2. scan'.pos = 1 /\ scan'.end = 0 /\ scan'.pos - 1 = 0
    BY <2>1 DEF NoScan
  <2>3. \A v \in Uuids : cache'[v] = NoSave /\ IsLast(NoSave, v, 0)'
    BY <2>1 DEF IsLast
  <2> QED
    BY <1>0, <2>1, <2>2, <2>3 DEF ListBuilt
<1>6. ASSUME NEW s \in Saves, Write(s) \/ WriteTorn(s) PROVE ListBuilt'
  <2>1. PICK e \in MetaEntry : disk' = Append(disk, e)
    BY <1>6 DEF Write, WriteTorn, MetaEntry
  <2>2. scan' = scan /\ cache' = cache /\ filled' = filled
    BY <1>6 DEF Write, WriteTorn
  <2>3. Len(disk') = Len(disk) + 1 /\ \A i \in 1 .. Len(disk) : disk'[i] = disk[i]
    BY <1>0, <2>1
  <2>4. WholeSoFar' => WholeSoFar
    <3>1. \A k \in 1 .. scan.pos - 1 : k \in 1 .. Len(disk)
      BY <1>0 DEF ListBuilt
    <3> QED
      BY <2>2, <2>3, <3>1 DEF WholeSoFar
  <2>5. ASSUME WholeSoFar, NEW u \in Uuids
        PROVE  IsLast(cache[u], u, scan.pos - 1)'
    <3>1. IsLast(cache[u], u, scan.pos - 1) /\ scan.pos - 1 \in Nat
      BY <1>0, <2>5 DEF ListBuilt
    <3>2. \A i \in 1 .. scan.pos - 1 : disk'[i] = disk[i]
      BY <1>0, <2>3, <2>5 DEF ListBuilt
    <3>3. \A i \in 1 .. scan.pos - 1 :
            \A j \in i + 1 .. scan.pos - 1 : j \in 1 .. scan.pos - 1
      BY <3>1
    <3> QED
      BY <2>2, <3>1, <3>2, <3>3 DEF IsLast
  <2> QED
    BY <1>0, <2>2, <2>3, <2>4, <2>5 DEF ListBuilt
<1>7. CASE scan' = scan /\ cache' = cache /\ filled' = filled /\ disk' = disk
  BY <1>7 DEF ListBuilt, WholeSoFar, IsLast
<1> QED
  BY <1>1, <1>2, <1>3, <1>4, <1>5, <1>6, <1>7
  DEF MetaNext, metaVars, CopyStarts, CopyEnds, SaveFails,
      SaveMeta, FindCached, FindOpenFails

(***************************************************************************)
(* The list in memory is what one scan read from the beginning of the      *)
(* file, the last entry of each uuid, unless an entry in it was torn; and  *)
(* the whole file as it was when it was opened, unless that scan failed or *)
(* was cancelled (db.rs:300, 325-338).                                     *)
(***************************************************************************)
THEOREM ListInvAlways ==
  MetaSpec => []ListInv
<1>1. MetaInit => ListBuilt
  <2> SUFFICES ASSUME MetaInit PROVE ListBuilt
    OBVIOUS
  <2>1. /\ scan.pos = 1 /\ scan.end = 0 /\ Len(disk) = 0 /\ scan.pos - 1 = 0
        /\ cache = [u \in Uuids |-> NoSave] /\ ~ filled
    BY DEF MetaInit, NoScan, ScanOf
  <2> QED
    BY <2>1, NothingYet DEF ListBuilt
<1>2. MetaTypeOK /\ ListBuilt /\ [MetaNext]_metaVars => ListBuilt'
  BY ListBuiltKept
<1>3. MetaTypeOK /\ ListBuilt => ListInv
  <2> SUFFICES ASSUME MetaTypeOK, ListBuilt, ~ scan.on, WholeSoFar
               PROVE  /\ \A u \in Uuids : IsLast(cache[u], u, scan.pos - 1)
                      /\ filled <=> scan.pos > 1
                      /\ scan.pos - 1 <= scan.end
                      /\ ~ scan.cut => scan.pos - 1 = scan.end
    BY DEF ListInv, ListIsScan, WholeSoFar
  <2>1. scan.end \in Nat /\ scan.pos \in Nat
    BY DEF MetaTypeOK, Scan
  <2> QED
    BY <2>1 DEF ListBuilt
<1> QED
  BY <1>1, <1>2, <1>3, MetaTypeCorrect, PTL DEF MetaSpec
=============================================================================
