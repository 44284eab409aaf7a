----------------------------- MODULE Wire_proofs -----------------------------
(***************************************************************************)
(* What holds of Wire for any set of messages, any sizes of the header and *)
(* of the buffer, and any number of datagrams and writes to the stream.    *)
(***************************************************************************)
EXTENDS Wire, SequenceTheorems, TLAPS

Cells == (Msgs \X {"header", "message"} \X Nat) \cup {Zero}

(***************************************************************************)
(* A datagram is a whole frame of a message that was sent, and what may    *)
(* follow it in the buffer.                                                *)
(***************************************************************************)
IsFrame(cells, m) ==
  /\ Encodes(m)
  /\ \E n \in 1 .. MAX : H + m.size <= n /\ cells = SubSeq(Buffer(m), 1, n)

DatagramsAreFrames ==
  \A d \in net : d.to \in Nodes /\ \E m \in sent : IsFrame(d.cells, m)

(***************************************************************************)
(* The stream holds cells of messages that were written to it, in whatever *)
(* order its reader finds them.                                            *)
(***************************************************************************)
CellOf(c, ms) ==
  \E j \in 1 .. Len(ms), i \in Nat :
    c = << ms[j], "header", i >> \/ c = << ms[j], "message", i >>

StreamOfWritten ==
  /\ \A i \in 1 .. Len(stream) : CellOf(stream[i], written)
  /\ \A j \in 1 .. Len(written) : Encodes(written[j])

WireInv ==
  /\ TypeOK
  /\ stream \in Seq(Cells)
  /\ DatagramsAreFrames
  /\ StreamOfWritten
  /\ AcceptedAsSent

-----------------------------------------------------------------------------
(***************************************************************************)
(* Frames.                                                                 *)
(***************************************************************************)
LEMMA FunctionIsSeq ==
  ASSUME NEW S, NEW n \in Nat, NEW f \in [1 .. n -> S]
  PROVE  f \in Seq(S) /\ Len(f) = n
BY SeqDef

LEMMA SizeFacts ==
  ASSUME NEW m \in Msgs
  PROVE  m.size \in Nat \ {0} /\ H \in Nat \ {0} /\ MAX \in Nat
BY MsgsAssumption, SizesAssumption DEF Message

LEMMA HeaderFacts ==
  ASSUME NEW m \in Msgs
  PROVE  /\ Header(m) \in Seq(Cells) /\ Len(Header(m)) = H
         /\ \A i \in 1 .. H : Header(m)[i] = << m, "header", i >>
<1>1. Header(m) \in [1 .. H -> Cells]
  BY SizesAssumption DEF Header, Cells
<1>2. \A i \in 1 .. H : Header(m)[i] = << m, "header", i >>
  BY DEF Header
<1> QED
  BY <1>1, <1>2, FunctionIsSeq, SizesAssumption

LEMMA BodyFacts ==
  ASSUME NEW m \in Msgs
  PROVE  /\ Body(m) \in Seq(Cells) /\ Len(Body(m)) = m.size
         /\ \A i \in 1 .. m.size : Body(m)[i] = << m, "message", i >>
<1>1. Body(m) \in [1 .. m.size -> Cells]
  BY SizeFacts DEF Body, Cells
<1>2. \A i \in 1 .. m.size : Body(m)[i] = << m, "message", i >>
  BY DEF Body
<1> QED
  BY <1>1, <1>2, FunctionIsSeq, SizeFacts

LEMMA BufferFacts ==
  ASSUME NEW m \in Msgs, Encodes(m)
  PROVE  /\ \A i \in 1 .. MAX : Buffer(m)[i] \in Cells
         /\ \A i \in 1 .. H : Buffer(m)[i] = << m, "header", i >>
         /\ \A i \in 1 .. m.size : Buffer(m)[H + i] = << m, "message", i >>
<1> DEFINE frame == Header(m) \o Body(m)
<1>1. H \in Nat \ {0} /\ m.size \in Nat \ {0} /\ MAX \in Nat /\ H + m.size <= MAX
  BY SizeFacts DEF Encodes
<1>2. /\ frame \in Seq(Cells)
      /\ \A i \in 1 .. H + m.size :
           frame[i] = IF i <= H THEN Header(m)[i] ELSE Body(m)[i - H]
  BY HeaderFacts, BodyFacts, ConcatProperties
<1>3. \A i \in 1 .. H : frame[i] = << m, "header", i >>
  BY <1>1, <1>2, HeaderFacts
<1>4. \A i \in 1 .. m.size : frame[H + i] = << m, "message", i >>
  <2> TAKE i \in 1 .. m.size
  <2>1. H + i \in 1 .. H + m.size /\ ~ (H + i <= H) /\ (H + i) - H = i
    BY <1>1
  <2>2. frame[H + i] = Body(m)[(H + i) - H]
    BY <1>2, <2>1
  <2>3. frame[H + i] = Body(m)[i]
    BY <2>1, <2>2
  <2> QED
    BY <2>3, BodyFacts
<1>5. \A i \in 1 .. H + m.size : frame[i] \in Cells
  <2>1. Len(frame) = Len(Header(m)) + Len(Body(m))
    BY HeaderFacts, BodyFacts, ConcatProperties
  <2>2. Len(frame) = H + m.size
    BY <2>1, HeaderFacts, BodyFacts
  <2> QED
    BY <1>2, <2>2, ElementOfSeq
<1>6. Buffer(m) = [i \in 1 .. MAX |-> IF i <= H + m.size THEN frame[i] ELSE Zero]
  BY DEF Buffer
<1> HIDE DEF frame
<1>7. /\ \A i \in 1 .. H : i \in 1 .. MAX /\ i <= H + m.size
      /\ \A i \in 1 .. m.size : H + i \in 1 .. MAX /\ H + i <= H + m.size
      /\ \A i \in 1 .. MAX : i <= H + m.size => i \in 1 .. H + m.size
  BY <1>1
<1>8. \A i \in 1 .. MAX : Buffer(m)[i] \in Cells
  BY <1>5, <1>6, <1>7 DEF Cells
<1> QED
  BY <1>3, <1>4, <1>6, <1>7, <1>8

(***************************************************************************)
(* Where a frame is cut: its header and its message come out again.        *)
(***************************************************************************)
LEMMA FrameCut ==
  ASSUME NEW m \in Msgs, NEW cells, IsFrame(cells, m)
  PROVE  /\ Len(cells) \in 1 .. MAX /\ H + m.size <= Len(cells)
         /\ SubSeq(cells, 1, H) = Header(m)
         /\ SubSeq(cells, H + 1, H + m.size) = Body(m)
<1>1. PICK n \in 1 .. MAX : H + m.size <= n /\ cells = SubSeq(Buffer(m), 1, n)
  BY DEF IsFrame
<1>2. H \in Nat \ {0} /\ m.size \in Nat \ {0} /\ MAX \in Nat /\ n \in Nat /\ Encodes(m)
  BY <1>1, SizeFacts DEF IsFrame
<1>3. /\ cells \in Seq(Cells) /\ Len(cells) = n
      /\ \A i \in 1 .. n : cells[i] = Buffer(m)[i]
  <2>1. \A i \in 1 .. n : Buffer(m)[i] \in Cells
    BY <1>1, <1>2, BufferFacts
  <2>2. /\ SubSeq(Buffer(m), 1, n) \in Seq(Cells)
        /\ Len(SubSeq(Buffer(m), 1, n)) = IF 1 <= n THEN n - 1 + 1 ELSE 0
        /\ \A i \in 1 .. n - 1 + 1 : SubSeq(Buffer(m), 1, n)[i] = Buffer(m)[1 + i - 1]
    BY <1>2, <2>1, SubSeqProperties
  <2>3. n - 1 + 1 = n /\ 1 <= n /\ \A i \in 1 .. n : 1 + i - 1 = i
    BY <1>1, <1>2
  <2> QED
    BY <1>1, <2>2, <2>3
<1>4. /\ \A i \in 1 .. H : i \in 1 .. n
      /\ \A i \in 1 .. m.size : H + i \in 1 .. n
      /\ \A i \in H + 1 .. H + m.size : i \in 1 .. n
  BY <1>1, <1>2
<1>5. \A i \in 1 .. n : cells[i] \in Cells
  BY <1>3, ElementOfSeq
<1>6. SubSeq(cells, 1, H) = Header(m)
  <2>1. /\ SubSeq(cells, 1, H) \in Seq(Cells)
        /\ Len(SubSeq(cells, 1, H)) = IF 1 <= H THEN H - 1 + 1 ELSE 0
        /\ \A i \in 1 .. H - 1 + 1 : SubSeq(cells, 1, H)[i] = cells[1 + i - 1]
    BY <1>2, <1>4, <1>5, SubSeqProperties
  <2>2. H - 1 + 1 = H /\ 1 <= H /\ \A i \in 1 .. H : 1 + i - 1 = i
    BY <1>2
  <2> DEFINE s == SubSeq(cells, 1, H)
  <2>3. \A i \in 1 .. H : SubSeq(cells, 1, H)[i] = Header(m)[i]
    <3> TAKE i \in 1 .. H
    <3>1. s[i] = cells[1 + i - 1] /\ 1 + i - 1 = i
      BY <2>1, <2>2
    <3>2. cells[i] = Buffer(m)[i]
      BY <1>3, <1>4
    <3>3. Buffer(m)[i] = << m, "header", i >> /\ Header(m)[i] = << m, "header", i >>
      BY <1>2, BufferFacts, HeaderFacts
    <3> HIDE DEF s
    <3>4. s[i] = Header(m)[i]
      BY <3>1, <3>2, <3>3
    <3> QED
      BY <3>4 DEF s
  <2> QED
    BY <2>1, <2>2, <2>3, HeaderFacts, SeqEqual
<1>7. SubSeq(cells, H + 1, H + m.size) = Body(m)
  <2> DEFINE s == SubSeq(cells, H + 1, H + m.size)
  <2>1. /\ s \in Seq(Cells)
        /\ Len(s) = IF H + 1 <= H + m.size THEN (H + m.size) - (H + 1) + 1 ELSE 0
        /\ \A i \in 1 .. (H + m.size) - (H + 1) + 1 : s[i] = cells[(H + 1) + i - 1]
    BY <1>2, <1>4, <1>5, SubSeqProperties
  <2>2. /\ (H + m.size) - (H + 1) + 1 = m.size /\ H + 1 <= H + m.size
        /\ \A i \in 1 .. m.size : (H + 1) + i - 1 = H + i
    BY <1>2
  <2>3. \A i \in 1 .. m.size : s[i] = Body(m)[i]
    <3> TAKE i \in 1 .. m.size
    <3>1. s[i] = cells[(H + 1) + i - 1] /\ (H + 1) + i - 1 = H + i
      BY <2>1, <2>2
    <3>2. cells[H + i] = Buffer(m)[H + i]
      BY <1>3, <1>4
    <3>3. /\ Buffer(m)[H + i] = << m, "message", i >>
          /\ Body(m)[i] = << m, "message", i >>
      BY <1>2, BufferFacts, BodyFacts
    <3> HIDE DEF s
    <3> QED
      BY <3>1, <3>2, <3>3
  <2> HIDE DEF s
  <2>4. s = Body(m)
    BY <2>1, <2>2, <2>3, BodyFacts, SeqEqual
  <2> QED
    BY <2>4 DEF s
<1> QED
  BY <1>1, <1>2, <1>3, <1>6, <1>7

LEMMA OwnerFacts ==
  ASSUME NEW cells
  PROVE  /\ Owner(cells) \subseteq Msgs
         /\ \A m \in Msgs : cells = Header(m) => Owner(cells) = {m}
<1>1. ASSUME NEW m \in Msgs, NEW x \in Msgs, Header(m) = Header(x) PROVE m = x
  <2>1. 1 \in 1 .. H
    BY SizesAssumption
  <2>2. << m, "header", 1 >> = << x, "header", 1 >>
    BY <1>1, <2>1, HeaderFacts
  <2> QED
    BY <2>2
<1>2. (\E m \in Msgs : cells = Header(m)) =>
        /\ (CHOOSE m \in Msgs : cells = Header(m)) \in Msgs
        /\ cells = Header(CHOOSE m \in Msgs : cells = Header(m))
  OBVIOUS
<1> QED
  BY <1>1, <1>2 DEF Owner

(***************************************************************************)
(* A frame decodes to its message, at the node it is for, if its sender    *)
(* signed it, and to nothing anywhere else.                                *)
(***************************************************************************)
LEMMA FrameDecodes ==
  ASSUME NEW m \in Msgs, NEW cells, IsFrame(cells, m), NEW me
  PROVE  Decoded(me, cells) = IF m.receiver = me /\ m.sender = m.signer THEN {m} ELSE {}
<1>1. /\ Len(cells) \in Nat /\ H + m.size <= Len(cells)
      /\ ~ (Len(cells) < H)
  BY FrameCut, SizeFacts
<1>2. Owner(SubSeq(cells, 1, H)) = {m}
  BY FrameCut, OwnerFacts
<1>3. Valid(me, {m}, SubSeq(cells, H + 1, H + m.size)) <=>
        m.receiver = me /\ m.sender = m.signer
  BY FrameCut DEF Valid
<1> QED
  BY <1>1, <1>2, <1>3 DEF Decoded

-----------------------------------------------------------------------------
(***************************************************************************)
(* No step breaks the invariant.                                           *)
(***************************************************************************)
LEMMA DatagramSteps ==
  ASSUME WireInv,
         \/ \E m \in Msgs, to \in Nodes : SendPadded(m, to) \/ SendExact(m, to)
         \/ \E d \in net : Lose(d) \/ \E copy \in BOOLEAN : Receive(d, copy)
  PROVE  WireInv'
<1> USE DEF WireInv
<1>1. ASSUME NEW m \in Msgs, NEW to \in Nodes, SendPadded(m, to) \/ SendExact(m, to)
      PROVE  WireInv'
  <2>1. PICK n \in 1 .. MAX : H + m.size <= n /\ Encodes(m) /\ Put(m, to, n)
    <3>1. H + m.size \in 1 .. MAX \/ ~ Encodes(m)
      BY SizeFacts DEF Encodes
    <3>2. CASE SendPadded(m, to)
      <4>1. 2 * H + m.size \in 1 .. MAX /\ H + m.size <= 2 * H + m.size
        BY <3>2, SizeFacts DEF SendPadded
      <4> QED
        BY <3>2, <4>1 DEF SendPadded
    <3>3. CASE SendExact(m, to)
      <4>1. H + m.size \in 1 .. MAX /\ H + m.size <= H + m.size
        BY <3>1, <3>3, SizeFacts DEF SendExact
      <4> QED
        BY <3>3, <4>1 DEF SendExact
    <3> QED
      BY <1>1, <3>2, <3>3
  <2> DEFINE d == [to |-> to, cells |-> SubSeq(Buffer(m), 1, n)]
  <2>2. IsFrame(d.cells, m) /\ d.to \in Nodes
    BY <2>1 DEF IsFrame
  <2>3. Len(d.cells) \in 1 .. MAX
    BY <2>2, FrameCut
  <2>4. /\ sent' = sent \cup {m} /\ net' = net \cup {d}
        /\ written' = written /\ accepted' = accepted /\ stream' = stream
        /\ closed' = closed /\ header' = header /\ rpc' = rpc
    BY <2>1 DEF Put
  <2> HIDE DEF d
  <2>5. TypeOK'
    BY <2>2, <2>3, <2>4 DEF TypeOK
  <2>6. DatagramsAreFrames'
    BY <2>2, <2>4 DEF DatagramsAreFrames
  <2>7. StreamOfWritten' /\ AcceptedAsSent'
    BY <2>4 DEF StreamOfWritten, CellOf, AcceptedAsSent, WasSent
  <2> QED
    BY <2>4, <2>5, <2>6, <2>7
<1>2. ASSUME NEW d \in net, NEW copy \in BOOLEAN, Lose(d) \/ Receive(d, copy)
      PROVE  WireInv'
  <2>1. /\ sent' = sent /\ net' \subseteq net
        /\ written' = written /\ stream' = stream
        /\ closed' = closed /\ header' = header /\ rpc' = rpc
        /\ \/ accepted' = accepted
           \/ accepted' = accepted \cup {<< d.to, m >> : m \in Decoded(d.to, d.cells)}
    BY <1>2 DEF Lose, Receive
  <2>2. PICK m \in sent : IsFrame(d.cells, m)
    BY DEF DatagramsAreFrames
  <2>3. d.to \in Nodes /\ m \in Msgs
    BY DEF DatagramsAreFrames, TypeOK
  <2>4. \A p \in {<< d.to, x >> : x \in Decoded(d.to, d.cells)} :
          p \in Nodes \X Msgs /\ p[2] = m /\ m.receiver = p[1] /\ m.sender = m.signer
    BY <2>2, <2>3, FrameDecodes
  <2>5. TypeOK'
    BY <2>1, <2>4 DEF TypeOK
  <2>6. DatagramsAreFrames' /\ StreamOfWritten'
    BY <2>1 DEF DatagramsAreFrames, StreamOfWritten, CellOf, IsFrame, Encodes, Buffer
  <2>7. AcceptedAsSent'
    BY <2>1, <2>2, <2>4 DEF AcceptedAsSent, WasSent
  <2> QED
    BY <2>1, <2>5, <2>6, <2>7
<1> QED
  BY <1>1, <1>2

LEMMA StreamWritten ==
  ASSUME WireInv, NEW m \in Msgs, IntoStream(m)
  PROVE  WireInv'
<1> USE DEF WireInv
<1> DEFINE s == SubSeq(Buffer(m), 1, m.size)
           w == Len(written)
           l == Len(stream)
<1>1. /\ H \in Nat \ {0} /\ m.size \in Nat \ {0} /\ MAX \in Nat
      /\ H + m.size <= MAX /\ Encodes(m)
  BY SizeFacts DEF IntoStream, Encodes
<1>2. /\ written' = Append(written, m) /\ stream' = stream \o s
      /\ sent' = sent /\ net' = net /\ accepted' = accepted
      /\ closed' = closed /\ header' = header /\ rpc' = rpc
  BY DEF IntoStream
<1>3. /\ s \in Seq(Cells) /\ Len(s) = m.size
      /\ \A i \in 1 .. m.size : s[i] = Buffer(m)[i]
  <2>1. /\ \A i \in 1 .. m.size : i \in 1 .. MAX
        /\ m.size - 1 + 1 = m.size /\ 1 <= m.size
        /\ \A i \in 1 .. m.size : 1 + i - 1 = i
    BY <1>1
  <2>2. \A i \in 1 .. m.size : Buffer(m)[i] \in Cells
    BY <1>1, <2>1, BufferFacts
  <2>3. /\ s \in Seq(Cells)
        /\ Len(s) = IF 1 <= m.size THEN m.size - 1 + 1 ELSE 0
        /\ \A i \in 1 .. m.size - 1 + 1 : s[i] = Buffer(m)[1 + i - 1]
    BY <1>1, <2>2, SubSeqProperties
  <2> QED
    BY <2>1, <2>3
<1>4. /\ written' \in Seq(Msgs) /\ Len(written') = w + 1 /\ w \in Nat
      /\ \A j \in 1 .. w : written'[j] = written[j]
      /\ written'[w + 1] = m
  BY <1>2 DEF TypeOK
<1> HIDE DEF s
<1>5. /\ stream' \in Seq(Cells) /\ Len(stream') = l + m.size /\ l \in Nat
      /\ \A i \in 1 .. l + m.size : stream'[i] = IF i <= l THEN stream[i] ELSE s[i - l]
  BY <1>2, <1>3, ConcatProperties
<1> HIDE DEF w, l
<1>6. \A c : CellOf(c, written) => CellOf(c, written')
  <2>1. \A j \in 1 .. w : j \in 1 .. w + 1
    BY <1>4
  <2> QED
    BY <1>4, <2>1 DEF CellOf, w
<1>7. \A i \in 1 .. m.size : CellOf(s[i], written')
  <2> TAKE i \in 1 .. m.size
  <2>1. w + 1 \in 1 .. Len(written')
    BY <1>4
  <2>2. i <= H \/ (i - H \in 1 .. m.size /\ H + (i - H) = i)
    BY <1>1
  <2>3. \E k \in Nat : s[i] = << m, "header", k >> \/ s[i] = << m, "message", k >>
    <3>1. CASE i <= H
      <4>1. i \in 1 .. H /\ i \in Nat
        BY <1>1, <3>1
      <4> QED
        BY <1>1, <1>3, <4>1, BufferFacts
    <3>2. CASE i - H \in 1 .. m.size /\ H + (i - H) = i
      <4>1. Buffer(m)[H + (i - H)] = << m, "message", i - H >> /\ i - H \in Nat
        BY <1>1, <3>2, BufferFacts
      <4> QED
        BY <1>3, <3>2, <4>1
    <3> QED
      BY <2>2, <3>1, <3>2
  <2> QED
    BY <1>4, <2>1, <2>3 DEF CellOf
<1>8. StreamOfWritten'
  <2>0. \A j \in 1 .. w + 1 : Encodes(written'[j])
    <3>1. \A j \in 1 .. w + 1 : j \in 1 .. w \/ j = w + 1
      BY <1>4
    <3> QED
      BY <1>1, <1>4, <3>1 DEF StreamOfWritten, w
  <2> SUFFICES ASSUME NEW i \in 1 .. l + m.size PROVE CellOf(stream'[i], written')
    BY <1>4, <1>5, <2>0 DEF StreamOfWritten, Encodes
  <2>1. CASE i <= l
    <3>1. i \in 1 .. l /\ stream'[i] = stream[i]
      BY <1>5, <2>1
    <3>2. CellOf(stream[i], written)
      BY <3>1 DEF StreamOfWritten, l
    <3> QED
      BY <1>6, <3>1, <3>2
  <2>2. CASE ~ (i <= l)
    <3>1. i - l \in 1 .. m.size /\ stream'[i] = s[i - l]
      BY <1>1, <1>5, <2>2
    <3> QED
      BY <1>7, <3>1
  <2> QED
    BY <2>1, <2>2
<1>9. l + m.size <= (w + 1) * (MAX - H)
  <2>1. \A a, b \in Int : (a + 1) * b = a * b + b
    OBVIOUS
  <2>2. l <= w * (MAX - H) /\ m.size <= MAX - H /\ MAX - H \in Int /\ w * (MAX - H) \in Int
    BY <1>1, <1>4 DEF TypeOK, w, l
  <2>3. (w + 1) * (MAX - H) = w * (MAX - H) + (MAX - H)
    BY <1>4, <2>1, <2>2
  <2> DEFINE p == w * (MAX - H)
             q == (w + 1) * (MAX - H)
  <2>4. l <= p /\ q = p + (MAX - H) /\ p \in Int
    BY <2>2, <2>3
  <2> HIDE DEF p, q
  <2>5. l + m.size <= q
    BY <1>1, <1>5, <2>2, <2>4
  <2> QED
    BY <2>5 DEF q
<1>10. TypeOK'
  BY <1>2, <1>4, <1>5, <1>9 DEF TypeOK
<1>11. DatagramsAreFrames'
  BY <1>2 DEF DatagramsAreFrames, IsFrame, Encodes, Buffer
<1>12. AcceptedAsSent'
  <2>1. \A m1 \in Msgs : WasSent(m1) => WasSent(m1)'
    <3>1. DOMAIN written = 1 .. w /\ DOMAIN written' = 1 .. w + 1
      BY <1>2, <1>4 DEF TypeOK, w
    <3>2. \A j \in 1 .. w : j \in 1 .. w + 1
      BY <1>4
    <3> QED
      BY <1>2, <1>4, <3>1, <3>2 DEF WasSent
  <2> QED
    BY <1>2, <2>1 DEF AcceptedAsSent, TypeOK
<1> QED
  BY <1>5, <1>8, <1>10, <1>11, <1>12

(***************************************************************************)
(* The reader takes cells from the front of the stream.                    *)
(***************************************************************************)
LEMMA StreamCut ==
  ASSUME WireInv, NEW n \in 0 .. Len(stream),
         stream' = SubSeq(stream, n + 1, Len(stream)), written' = written
  PROVE  /\ stream' \in Seq(Cells) /\ Len(stream') <= Len(stream) /\ Len(stream') \in Nat
         /\ StreamOfWritten'
<1> USE DEF WireInv
<1> DEFINE l == Len(stream)
<1>1. /\ l \in Nat /\ n \in Nat /\ n <= l
      /\ \A i \in n + 1 .. l : i \in 1 .. l
      /\ \A i \in 1 .. l - (n + 1) + 1 : (n + 1) + i - 1 \in 1 .. l
  OBVIOUS
<1>2. \A i \in 1 .. l : stream[i] \in Cells
  BY ElementOfSeq
<1>3. \A i \in n + 1 .. l : stream[i] \in Cells
  BY <1>1, <1>2
<1>4. /\ stream' \in Seq(Cells)
      /\ Len(stream') = IF n + 1 <= l THEN l - (n + 1) + 1 ELSE 0
      /\ \A i \in 1 .. l - (n + 1) + 1 : stream'[i] = stream[(n + 1) + i - 1]
  <2>1. n + 1 \in Int /\ l \in Int
    BY <1>1
  <2> QED
    BY <1>3, <2>1, SubSeqProperties
<1>5. Len(stream') <= l /\ Len(stream') \in Nat /\ Len(stream') = l - (n + 1) + 1
  BY <1>1, <1>4
<1>6. \A i \in 1 .. Len(stream') : CellOf(stream'[i], written)
  BY <1>1, <1>4, <1>5 DEF StreamOfWritten
<1> QED
  BY <1>4, <1>5, <1>6 DEF StreamOfWritten, Encodes

LEMMA FirstCell ==
  ASSUME stream \in Seq(Cells), NEW n \in 0 .. Len(stream)
  PROVE  /\ Len(SubSeq(stream, 1, n)) = n
         /\ n > 0 => SubSeq(stream, 1, n)[1] = stream[1] /\ 1 \in 1 .. Len(stream)
<1>1. /\ Len(stream) \in Nat /\ n \in Nat
      /\ \A i \in 1 .. n : i \in 1 .. Len(stream)
      /\ n - 1 + 1 = n /\ n > 0 <=> 1 <= n /\ 1 + 1 - 1 = 1
  OBVIOUS
<1>2. \A i \in 1 .. n : stream[i] \in Cells
  BY <1>1, ElementOfSeq
<1>3. /\ Len(SubSeq(stream, 1, n)) = IF 1 <= n THEN n - 1 + 1 ELSE 0
      /\ \A i \in 1 .. n - 1 + 1 : SubSeq(stream, 1, n)[i] = stream[1 + i - 1]
  BY <1>1, <1>2, SubSeqProperties
<1> QED
  BY <1>1, <1>3

LEMMA Shorter ==
  ASSUME TypeOK, stream \in Seq(Cells), Len(stream') <= Len(stream),
         Len(stream') \in Nat, written' = written
  PROVE  Len(stream') <= Len(written') * (MAX - H)
<1> DEFINE p == Len(written) * (MAX - H)
<1>1. Len(stream) <= p /\ Len(stream) \in Nat
  BY DEF TypeOK
<1>2. p \in Int
  BY SizesAssumption DEF TypeOK
<1> HIDE DEF p
<1>3. Len(stream') <= p
  BY <1>1, <1>2
<1> QED
  BY <1>3 DEF p

LEMMA ReaderSteps ==
  ASSUME WireInv, ReadHeader \/ ReadBody
  PROVE  WireInv'
<1> USE DEF WireInv
<1>0. H \in Nat \ {0} /\ MAX \in Nat /\ Len(stream) \in Nat /\ header.length \in Nat
  BY SizesAssumption DEF TypeOK
<1>1. CASE ReadHeader
  <2> DEFINE owner == Owner(SubSeq(stream, 1, H))
  <2>1. /\ H \in 0 .. Len(stream) /\ stream' = SubSeq(stream, H + 1, Len(stream))
        /\ sent' = sent /\ written' = written /\ net' = net /\ accepted' = accepted
        /\ closed' = closed /\ rpc' = "body"
    BY <1>0, <1>1 DEF ReadHeader
  <2>2. PICK length \in IF owner = {} THEN 0 .. MAX ELSE {m.size : m \in owner} :
          header' = [owner |-> owner, length |-> length]
    BY <1>1 DEF ReadHeader
  <2>3. owner \subseteq Msgs
    BY OwnerFacts
  <2>4. /\ Len(stream') <= Len(stream) /\ Len(stream') \in Nat
        /\ stream' \in Seq(Cells) /\ StreamOfWritten'
    BY <2>1, StreamCut
  <2>5. \A m \in owner : m.size \in 0 .. MAX
    <3> SUFFICES ASSUME NEW m \in owner PROVE m.size \in 0 .. MAX
      OBVIOUS
    <3>1. m \in Msgs /\ SubSeq(stream, 1, H) = Header(m)
      BY OwnerFacts DEF Owner
    <3>2. 1 \in 1 .. H /\ 1 \in 1 .. Len(stream)
      BY <1>0, <2>1
    <3>3. SubSeq(stream, 1, H)[1] = stream[1]
      BY <1>0, <2>1, <3>2, FirstCell
    <3>4. stream[1] = << m, "header", 1 >>
      BY <3>1, <3>2, <3>3, HeaderFacts
    <3>5. PICK j \in 1 .. Len(written) : written[j] = m
      BY <3>2, <3>4 DEF StreamOfWritten, CellOf
    <3>6. Encodes(m)
      BY <3>5 DEF StreamOfWritten
    <3> QED
      BY <3>1, <3>6, SizeFacts DEF Encodes
  <2> HIDE DEF owner
  <2>6. length \in 0 .. MAX
    BY <2>2, <2>5
  <2>7. TypeOK'
    <3>1. Len(stream') <= Len(written') * (MAX - H)
      BY <2>1, <2>4, Shorter
    <3> QED
      BY <2>1, <2>2, <2>3, <2>6, <3>1 DEF TypeOK
  <2>8. DatagramsAreFrames' /\ AcceptedAsSent'
    BY <2>1 DEF DatagramsAreFrames, IsFrame, Encodes, Buffer, AcceptedAsSent, WasSent
  <2> QED
    BY <2>4, <2>7, <2>8
<1>2. CASE ReadBody
  <2> DEFINE body == SubSeq(stream, 1, header.length)
             new == {<< Reader, m >> : m \in {x \in header.owner : Valid(Reader, {x}, body)}}
  <2>1. /\ header.length \in 0 .. Len(stream)
        /\ stream' = SubSeq(stream, header.length + 1, Len(stream))
        /\ sent' = sent /\ written' = written /\ net' = net
        /\ accepted' = accepted \cup new
        /\ header' = [owner |-> {}, length |-> 0]
        /\ closed' = closed /\ rpc' = "header"
    BY <1>0, <1>2 DEF ReadBody
  <2>2. ASSUME NEW p \in new
        PROVE  /\ p \in Nodes \X Msgs /\ WasSent(p[2])
               /\ p[2].receiver = p[1] /\ p[2].sender = p[2].signer
    <3>1. PICK m \in header.owner : p = << Reader, m >> /\ Valid(Reader, {m}, body)
      OBVIOUS
    <3>2. m \in Msgs /\ Reader \in Nodes
      BY MsgsAssumption DEF TypeOK
    <3>3. body = Body(m) /\ m.receiver = Reader /\ m.sender = m.signer
      BY <3>1 DEF Valid
    <3>4. header.length = m.size /\ 1 \in 1 .. m.size /\ 1 \in 1 .. header.length
      <4>1. Len(body) = header.length
        BY <1>0, <2>1, FirstCell
      <4> HIDE DEF body
      <4> QED
        BY <3>2, <3>3, <4>1, BodyFacts, SizeFacts
    <3>5. body[1] = stream[1] /\ 1 \in 1 .. Len(stream)
      BY <1>0, <2>1, <3>4, FirstCell
    <3> HIDE DEF body
    <3>6. stream[1] = << m, "message", 1 >>
      BY <3>2, <3>3, <3>4, <3>5, BodyFacts
    <3>7. PICK j \in 1 .. Len(written) : written[j] = m
      BY <3>5, <3>6 DEF StreamOfWritten, CellOf
    <3>8. WasSent(m)
      BY <3>7 DEF WasSent, TypeOK
    <3> QED
      BY <3>1, <3>2, <3>3, <3>8
  <2> HIDE DEF new
  <2>3. /\ Len(stream') <= Len(stream) /\ Len(stream') \in Nat
        /\ stream' \in Seq(Cells) /\ StreamOfWritten'
    BY <2>1, StreamCut
  <2>4. TypeOK'
    <3>1. Len(stream') <= Len(written') * (MAX - H)
      BY <2>1, <2>3, Shorter
    <3> QED
      BY <1>0, <2>1, <2>2, <3>1 DEF TypeOK
  <2>5. DatagramsAreFrames'
    BY <2>1 DEF DatagramsAreFrames, IsFrame, Encodes, Buffer
  <2>6. AcceptedAsSent'
    BY <2>1, <2>2 DEF AcceptedAsSent, WasSent
  <2> QED
    BY <2>3, <2>4, <2>5, <2>6
<1> QED
  BY <1>1, <1>2

-----------------------------------------------------------------------------
LEMMA Invariance == Spec => []WireInv
<1>1. Init => WireInv
  <2> SUFFICES ASSUME Init PROVE WireInv
    OBVIOUS
  <2>1. /\ Len(stream) = 0 /\ Len(written) = 0 /\ net = {} /\ accepted = {}
        /\ stream \in Seq(Cells) /\ written \in Seq(Msgs)
    BY DEF Init
  <2>2. ASSUME NEW l, NEW w, l = 0, w = 0 PROVE l <= w * (MAX - H)
    BY <2>2, SizesAssumption
  <2>3. Len(stream) <= Len(written) * (MAX - H)
    BY <2>1, <2>2
  <2>4. /\ header.owner \subseteq Msgs /\ header.length = 0
        /\ sent \subseteq Msgs /\ closed \in BOOLEAN /\ rpc \in {"header", "body", "end"}
    BY DEF Init
  <2>5. header.length \in 0 .. MAX
    BY <2>4, SizesAssumption
  <2>6. TypeOK
    BY <2>1, <2>3, <2>4, <2>5 DEF TypeOK
  <2> QED
    BY <2>1, <2>6 DEF WireInv, DatagramsAreFrames, StreamOfWritten, AcceptedAsSent
<1>2. WireInv /\ [Next]_vars => WireInv'
  <2> SUFFICES ASSUME WireInv, [Next]_vars PROVE WireInv'
    OBVIOUS
  <2>1. CASE Close \/ ReadEnds \/ UNCHANGED vars
    <3>1. /\ sent' = sent /\ written' = written /\ net' = net /\ accepted' = accepted
          /\ stream' = stream /\ header' = header /\ closed' \in BOOLEAN
          /\ rpc' \in {"header", "body", "end"}
      BY <2>1 DEF Close, ReadEnds, vars, WireInv, TypeOK
    <3>2. TypeOK'
      BY <3>1 DEF WireInv, TypeOK
    <3> QED
      BY <3>1, <3>2 DEF WireInv, DatagramsAreFrames, IsFrame, Encodes, Buffer,
                        StreamOfWritten, CellOf, AcceptedAsSent, WasSent
  <2> QED
    BY <2>1, DatagramSteps, StreamWritten, ReaderSteps DEF Next
<1> QED
  BY <1>1, <1>2, PTL DEF Spec

(***************************************************************************)
(* Whatever is lost, doubled, padded or cut, and however far out of step   *)
(* the reader of a stream is, a node accepts only messages that were sent, *)
(* to it, by their signer (protocol.rs:471, 479).                          *)
(***************************************************************************)
THEOREM AcceptedAsSentAlways == Spec => []AcceptedAsSent
BY Invariance, PTL DEF WireInv

(***************************************************************************)
(* Every datagram under way is a frame that decodes to its message,        *)
(* whatever the sizes of header, message and buffer (udp.rs:89).           *)
(***************************************************************************)
THEOREM FramesInvAlways == Spec => []FramesInv
<1>1. WireInv => FramesInv
  <2> SUFFICES ASSUME WireInv PROVE DatagramsDecode
    BY DEF WireInv, FramesInv
  <2> SUFFICES ASSUME NEW d \in net
               PROVE  \E m \in Msgs :
                        /\ m \in sent
                        /\ Decoded(d.to, d.cells) =
                             IF m.receiver = d.to /\ m.sender = m.signer THEN {m} ELSE {}
    BY DEF DatagramsDecode
  <2>1. PICK m \in sent : IsFrame(d.cells, m)
    BY DEF WireInv, DatagramsAreFrames
  <2>2. m \in Msgs
    BY DEF WireInv, TypeOK
  <2> QED
    BY <2>1, <2>2, FrameDecodes
<1> QED
  BY <1>1, Invariance, PTL
=============================================================================
