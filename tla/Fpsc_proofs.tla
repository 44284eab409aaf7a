---------------------------- MODULE Fpsc_proofs ----------------------------
(***************************************************************************)
(* What holds of the ring buffer and its two tasks for every capacity,     *)
(* every slice and stream, and however often they are called.              *)
(***************************************************************************)
EXTENDS Fpsc, SequenceTheorems, TLAPS

-----------------------------------------------------------------------------
(***************************************************************************)
(* What Bytes gives, and what is taken from the front of an input.         *)
(***************************************************************************)
LEMMA BytesType ==
  ASSUME NEW call \in Nat, NEW n \in Nat
  PROVE  Bytes(call, n) \in Seq(Byte)
<1>1. Bytes(call, n) \in [1 .. n -> Byte]
  BY DEF Bytes, Byte
<1> QED
  BY <1>1, IsASeq

LEMMA FillFacts ==
  ASSUME input \in Seq(Byte), taken \in Seq(Byte),
         NEW n \in 0 .. Len(input), n <= Capacity, Fill(n)
  PROVE  /\ vec' \in Seq(Byte) /\ Len(vec') = n
         /\ input' \in Seq(Byte) /\ (n = Len(input) => input' = << >>)
         /\ taken' = taken \o vec' /\ taken' \in Seq(Byte)
         /\ consumed' = consumed
<1>1. Len(input) \in Nat /\ n \in Nat
  OBVIOUS
<1>2. \A i \in 1 .. n : input[i] \in Byte
  <2> SUFFICES ASSUME NEW i \in 1 .. n PROVE input[i] \in Byte
    OBVIOUS
  <2>1. i \in 1 .. Len(input)
    BY <1>1
  <2> QED
    BY <2>1, ElementOfSeq
<1>3. \A i \in n + 1 .. Len(input) : input[i] \in Byte
  <2> SUFFICES ASSUME NEW i \in n + 1 .. Len(input) PROVE input[i] \in Byte
    OBVIOUS
  <2>1. i \in 1 .. Len(input)
    BY <1>1
  <2> QED
    BY <2>1, ElementOfSeq
<1>4. vec' \in Seq(Byte) /\ Len(vec') = n
  BY <1>1, <1>2, SubSeqProperties DEF Fill
<1>5. input' \in Seq(Byte)
  BY <1>1, <1>3, SubSeqProperties DEF Fill
<1>6. n = Len(input) => input' = << >>
  BY <1>1, SubSeqEmpty DEF Fill
<1>7. taken' = taken \o vec' /\ consumed' = consumed
  BY DEF Fill
<1> QED
  BY <1>4, <1>5, <1>6, <1>7, ConcatProperties

LEMMA MinimumFacts ==
  ASSUME NEW a \in Nat, NEW b \in Nat
  PROVE  /\ Minimum(a, b) \in Nat
         /\ Minimum(a, b) <= a /\ Minimum(a, b) <= b
  BY DEF Minimum

-----------------------------------------------------------------------------
(***************************************************************************)
(* Where the bytes are: consumed, in vec, or both consumed and still there *)
(* as stale data.  This is the inductive invariant; vec means something    *)
(* only together with state.                                               *)
(***************************************************************************)
BytesAccounted ==
  /\ state = "Writable" => taken = consumed
  /\ state \in {"Readable", "WriteFinished"} => taken = consumed \o vec
  /\ state = "ReadFinished" =>
       sink # "read" /\ (taken = consumed \/ taken = consumed \o vec)

ByteInv == TypeOK /\ BytesAccounted

(***************************************************************************)
(* What a step does to the state, the buffer and the bytes, whoever takes  *)
(* it: the five cases the theorems below go through.                       *)
(***************************************************************************)
Rests == UNCHANGED << vec, state, taken, consumed >>

Writes ==
  \E n \in 0 .. Capacity :
    /\ state = "Writable" /\ state' \in {"Readable", "WriteFinished"}
    /\ vec' \in Seq(Byte) /\ Len(vec') = n
    /\ taken' = taken \o vec' /\ taken' \in Seq(Byte)
    /\ consumed' = consumed

Reads ==
  /\ \/ state = "Readable" /\ state' = "Writable" /\ vec' = vec
     \/ state = "WriteFinished" /\ state' = "ReadFinished" /\ sink # "read" /\ vec' = vec
     \/ state = "WriteFinished" /\ state' = state /\ vec' = << >>
  /\ consumed' = consumed \o vec
  /\ taken' = taken

Drops ==
  /\ state = "WriteFinished" /\ state' = "ReadFinished" /\ sink # "read"
  /\ UNCHANGED << vec, taken, consumed >>

Empties ==
  /\ vec' = << >> /\ state' = "Writable"
  /\ taken' = << >> /\ consumed' = << >>

LEMMA StepKinds ==
  ASSUME ByteInv, [Next]_vars
  PROVE  /\ Rests \/ Writes \/ Reads \/ Drops \/ Empties
         /\ input' \in Seq(Byte)
         /\ sink' = sink /\ source' = source
<1> USE FpscAssumption DEF ByteInv
<1>0. Len(input) \in Nat /\ Capacity \in Nat /\ calls \in Nat
  BY DEF TypeOK
<1>1. CASE PollWrite
  <2> DEFINE n == Minimum(Capacity, Len(input))
  <2>0. n \in Nat /\ n <= Capacity /\ n <= Len(input)
    BY <1>0, MinimumFacts
  <2>2. Fill(n) /\ state = "Writable" /\ state' \in {"Readable", "WriteFinished"}
        /\ sink' = sink /\ source' = source
    BY <1>1 DEF PollWrite, setup
  <2> HIDE DEF n
  <2>1. n \in 0 .. Len(input) /\ n \in 0 .. Capacity
    BY <1>0, <2>0
  <2> QED
    BY <2>0, <2>1, <2>2, FillFacts DEF TypeOK, Writes
<1>2. ASSUME NEW n \in 0 .. Capacity, PollStream(n)
      PROVE  /\ Writes /\ input' \in Seq(Byte) /\ sink' = sink /\ source' = source
  <2>1. n \in 0 .. Len(input) /\ n <= Capacity
    BY <1>0, <1>2, MinimumFacts DEF PollStream
  <2>2. Fill(n) /\ state = "Writable" /\ state' \in {"Readable", "WriteFinished"}
        /\ sink' = sink /\ source' = source
    BY <1>2 DEF PollStream, setup
  <2> QED
    BY <2>1, <2>2, FillFacts DEF TypeOK, Writes
<1>3. CASE \/ ProduceNothing \/ PollWriteFinished \/ ProducerPending \/ PollStreamPending
           \/ PollStreamError \/ PollStreamFinished \/ StreamReady
  BY <1>3 DEF ProduceNothing, PollWriteFinished, ProducerPending, PollStreamPending,
     PollStreamError, PollStreamFinished, StreamReady, TypeOK, Rests, ring, bytes, setup
<1>4. CASE ConsumerPending \/ PollConsumeFinished \/ ConsumeAgain
  BY <1>4 DEF ConsumerPending, PollConsumeFinished, ConsumeAgain,
     TypeOK, Rests, ring, bytes, setup
<1>5. CASE PollConsume \/ PollConsumeLast
  BY <1>5 DEF PollConsume, PollConsumeLast, Consumes, TypeOK, Reads, setup
<1>6. CASE PollConsumeError
  <2>1. state = "Readable" \/ state = "WriteFinished"
    BY <1>6 DEF PollConsumeError
  <2> QED
    BY <1>6, <2>1 DEF PollConsumeError, TypeOK, Rests, Drops, bytes, setup
<1>7. ASSUME NEW size \in ReadSizes, PollRead(size) \/ PollReadLast(size)
      PROVE  /\ Reads /\ input' \in Seq(Byte) /\ sink' = sink /\ source' = source
  BY <1>7 DEF PollRead, PollReadLast, Consumes, Finished, BytesAccounted, TypeOK, Reads, setup
<1>8. ASSUME NEW size \in ReadSizes, PollReadTooSmall(size)
      PROVE  /\ Rests /\ input' \in Seq(Byte) /\ sink' = sink /\ source' = source
  BY <1>8 DEF PollReadTooSmall, TypeOK, Rests, ring, bytes, setup
<1>9. ASSUME NEW n \in Lengths, ProduceAgain(n)
      PROVE  /\ Rests /\ input' \in Seq(Byte) /\ sink' = sink /\ source' = source
  <2>1. n \in Nat /\ calls + 1 \in Nat
    BY <1>0
  <2>2. Bytes(calls + 1, n) \in Seq(Byte)
    BY <2>1, BytesType
  <2> QED
    BY <1>9, <2>2 DEF ProduceAgain, Rests, ring
<1>10. CASE ReuseFromConsumer \/ ReuseFromProducer
  BY <1>10 DEF ReuseFromConsumer, ReuseFromProducer, Reuse, TypeOK, Empties
<1>11. CASE UNCHANGED vars
  BY <1>11 DEF vars, TypeOK, Rests, ring, bytes, setup
<1> QED
  BY <1>1, <1>2, <1>3, <1>4, <1>5, <1>6, <1>7, <1>8, <1>9, <1>10, <1>11
  DEF Next, ProducerPoll, ConsumerPoll

(***************************************************************************)
(* The five kinds keep the bytes accounted for.                            *)
(***************************************************************************)
LEMMA BytesKept ==
  ASSUME ByteInv, [Next]_vars
  PROVE  /\ BytesAccounted'
         /\ vec' \in Seq(Byte) /\ Len(vec') <= Capacity
         /\ state' \in BufState
         /\ taken' \in Seq(Byte) /\ consumed' \in Seq(Byte)
<1> USE DEF ByteInv
<1>0. /\ vec \in Seq(Byte) /\ taken \in Seq(Byte) /\ consumed \in Seq(Byte)
      /\ Len(vec) <= Capacity /\ Capacity \in Nat /\ state \in BufState
      /\ sink' = sink
  BY FpscAssumption, StepKinds DEF TypeOK
<1>1. CASE Rests
  BY <1>0, <1>1 DEF Rests, BytesAccounted
<1>2. CASE Writes
  BY <1>0, <1>2 DEF Writes, BytesAccounted, BufState
<1>3. CASE Reads
  <2>1. /\ consumed \o vec \in Seq(Byte) /\ (consumed \o vec) \o << >> = consumed \o vec
        /\ << >> \in Seq(Byte) /\ Len(<< >>) = 0
    BY <1>0, ConcatProperties, ConcatEmptySeq, EmptySeq
  <2>2. taken = consumed \o vec
    BY <1>3 DEF Reads, BytesAccounted
  <2>3. BytesAccounted'
    BY <1>0, <1>3, <2>1, <2>2 DEF Reads, BytesAccounted
  <2>4. Len(vec') <= Capacity
    BY <1>0, <1>3, <2>1 DEF Reads
  <2> QED
    BY <1>0, <1>3, <2>1, <2>3, <2>4 DEF Reads, BufState
<1>4. CASE Drops
  BY <1>0, <1>4 DEF Drops, BytesAccounted, BufState
<1>5. CASE Empties
  BY <1>0, <1>5, EmptySeq DEF Empties, BytesAccounted, BufState
<1> QED
  BY <1>1, <1>2, <1>3, <1>4, <1>5, StepKinds

(***************************************************************************)
(* The rest of the type invariant.                                         *)
(***************************************************************************)
LEMMA TasksTyped ==
  ASSUME TypeOK, [Next]_vars
  PROVE  /\ w_waker' \in BOOLEAN /\ r_waker' \in BOOLEAN
         /\ producer' \in Task /\ consumer' \in Task \ {"waiting"}
         /\ lost' \in BOOLEAN /\ calls' \in Nat /\ overtaken' \in BOOLEAN
<1> USE DEF TypeOK, Task, Live, Ended, wake_reader, wake_writer, woken, wakers, setup,
        bytes, Fill, Consumes
<1>1. CASE \/ ProduceNothing \/ PollWrite \/ PollWriteFinished \/ ProducerPending
           \/ PollStreamPending \/ PollStreamError \/ PollStreamFinished \/ StreamReady
  BY <1>1 DEF ProduceNothing, PollWrite, PollWriteFinished, ProducerPending,
     PollStreamPending, PollStreamError, PollStreamFinished, StreamReady
<1>2. ASSUME NEW n \in 0 .. Capacity, PollStream(n)
      PROVE  /\ w_waker' \in BOOLEAN /\ r_waker' \in BOOLEAN
             /\ producer' \in Task /\ consumer' \in Task \ {"waiting"}
             /\ lost' \in BOOLEAN /\ calls' \in Nat /\ overtaken' \in BOOLEAN
  BY <1>2 DEF PollStream
<1>3. CASE \/ ConsumerPending \/ PollConsume \/ PollConsumeLast \/ PollConsumeError
           \/ PollConsumeFinished
  BY <1>3 DEF ConsumerPending, PollConsume, PollConsumeLast, PollConsumeError,
     PollConsumeFinished
<1>4. ASSUME NEW size \in ReadSizes,
             PollRead(size) \/ PollReadLast(size) \/ PollReadTooSmall(size)
      PROVE  /\ w_waker' \in BOOLEAN /\ r_waker' \in BOOLEAN
             /\ producer' \in Task /\ consumer' \in Task \ {"waiting"}
             /\ lost' \in BOOLEAN /\ calls' \in Nat /\ overtaken' \in BOOLEAN
  BY <1>4 DEF PollRead, PollReadLast, PollReadTooSmall
<1>5. ASSUME NEW n \in Lengths, ProduceAgain(n)
      PROVE  /\ w_waker' \in BOOLEAN /\ r_waker' \in BOOLEAN
             /\ producer' \in Task /\ consumer' \in Task \ {"waiting"}
             /\ lost' \in BOOLEAN /\ calls' \in Nat /\ overtaken' \in BOOLEAN
  <2>1. calls + 1 \in Nat
    OBVIOUS
  <2> QED
    BY <1>5, <2>1 DEF ProduceAgain
<1>6. CASE ConsumeAgain
  BY <1>6 DEF ConsumeAgain
<1>7. CASE ReuseFromConsumer \/ ReuseFromProducer
  BY <1>7 DEF ReuseFromConsumer, ReuseFromProducer, Reuse
<1>8. CASE UNCHANGED vars
  BY <1>8 DEF vars
<1> QED
  BY <1>1, <1>2, <1>3, <1>4, <1>5, <1>6, <1>7, <1>8 DEF Next, ProducerPoll, ConsumerPoll

-----------------------------------------------------------------------------
LEMMA ByteInvAlways == Spec => []ByteInv
<1>1. Init => ByteInv
  <2> SUFFICES ASSUME Init PROVE ByteInv
    OBVIOUS
  <2>1. PICK n \in Lengths : input = Bytes(1, n)
    BY DEF Init
  <2>2. input \in Seq(Byte)
    BY <2>1, BytesType, FpscAssumption
  <2>3. << >> \in Seq(Byte) /\ Len(<< >>) = 0 /\ Capacity \in Nat
    BY EmptySeq, FpscAssumption
  <2>4. BytesAccounted
    BY DEF Init, BytesAccounted
  <2>5. vec = << >> /\ Len(vec) <= Capacity
    BY <2>3 DEF Init
  <2>6. taken \in Seq(Byte) /\ consumed \in Seq(Byte) /\ vec \in Seq(Byte)
    BY <2>3 DEF Init
  <2> QED
    BY <2>2, <2>4, <2>5, <2>6 DEF Init, ByteInv, TypeOK, BufState, Task, Live, Ended
<1>2. ByteInv /\ [Next]_vars => ByteInv'
  <2> SUFFICES ASSUME ByteInv, [Next]_vars PROVE ByteInv'
    OBVIOUS
  <2>1. TypeOK
    BY DEF ByteInv
  <2>2. source \in Sources /\ sink \in Sinks
    BY <2>1 DEF TypeOK
  <2> QED
    BY <2>1, <2>2, StepKinds, BytesKept, TasksTyped DEF ByteInv, TypeOK
<1> QED
  BY <1>1, <1>2, PTL DEF Spec

(***************************************************************************)
(* Type correctness: in particular the buffer never grows past its         *)
(* capacity, whatever slice or stream is given.                            *)
(***************************************************************************)
THEOREM TypeCorrect == Spec => []TypeOK
<1>1. ByteInv => TypeOK
  BY DEF ByteInv
<1> QED
  BY <1>1, ByteInvAlways, PTL

(***************************************************************************)
(* No wakeup is lost as long as polls are not interrupted: the wakers and  *)
(* the state of poll_write, poll_read and both polls fit together.  Only a *)
(* producer whose buffer is reused while it is parked is left asleep.  The *)
(* invariant is inductive by itself.                                       *)
(***************************************************************************)
THEOREM NobodySleepsAlways == Spec => []NobodySleepsOnWork
<1>1. Init => NobodySleepsOnWork
  BY DEF Init, NobodySleepsOnWork
<1>2. NobodySleepsOnWork /\ [Next]_vars => NobodySleepsOnWork'
  <2> SUFFICES ASSUME NobodySleepsOnWork, [Next]_vars PROVE NobodySleepsOnWork'
    OBVIOUS
  <2> USE DEF NobodySleepsOnWork, Live, Ended, Finished, wake_reader, wake_writer, woken,
          wakers, ring, setup
  <2>1. CASE \/ ProduceNothing \/ PollWriteFinished \/ PollStreamPending
             \/ PollStreamError \/ PollStreamFinished \/ StreamReady
    BY <2>1 DEF ProduceNothing, PollWriteFinished, PollStreamPending,
       PollStreamError, PollStreamFinished, StreamReady
  <2>2. CASE PollWrite
    BY <2>2 DEF PollWrite
  <2>3. ASSUME NEW n \in 0 .. Capacity, PollStream(n)
        PROVE  NobodySleepsOnWork'
    BY <2>3 DEF PollStream
  <2>4. CASE ProducerPending \/ ConsumerPending
    BY <2>4 DEF ProducerPending, ConsumerPending
  <2>5. CASE PollConsume \/ PollConsumeLast \/ PollConsumeError \/ PollConsumeFinished
    BY <2>5 DEF PollConsume, PollConsumeLast, PollConsumeError, PollConsumeFinished
  <2>6. ASSUME NEW size \in ReadSizes,
               PollRead(size) \/ PollReadLast(size) \/ PollReadTooSmall(size)
        PROVE  NobodySleepsOnWork'
    BY <2>6 DEF PollRead, PollReadLast, PollReadTooSmall
  <2>7. ASSUME NEW n \in Lengths, ProduceAgain(n)
        PROVE  NobodySleepsOnWork'
    BY <2>7 DEF ProduceAgain
  <2>8. CASE ConsumeAgain
    BY <2>8 DEF ConsumeAgain
  <2>9. CASE ReuseFromConsumer
    BY <2>9 DEF ReuseFromConsumer, Reuse
  <2>10. CASE ReuseFromProducer
    BY <2>10 DEF ReuseFromProducer, Reuse
  <2>11. CASE UNCHANGED vars
    BY <2>11 DEF vars
  <2> QED
    BY <2>1, <2>2, <2>3, <2>4, <2>5, <2>6, <2>7, <2>8, <2>9, <2>10, <2>11
    DEF Next, ProducerPoll, ConsumerPoll
<1> QED
  BY <1>1, <1>2, PTL DEF Spec

-----------------------------------------------------------------------------
(***************************************************************************)
(* A sequence is a prefix of itself with more at its end.                  *)
(***************************************************************************)
LEMMA ConcatExtends ==
  ASSUME NEW s \in Seq(Byte), NEW t \in Seq(Byte)
  PROVE  /\ Stream!Extends(s, s) /\ Stream!Extends(s, s \o t)
         /\ Len(s \o t) = Len(s) + Len(t)
<1>1. Len(s) \in Nat /\ Len(t) \in Nat /\ Len(s \o t) = Len(s) + Len(t)
  BY ConcatProperties
<1>2. \A i \in 1 .. Len(s) : (s \o t)[i] = s[i]
  <2> SUFFICES ASSUME NEW i \in 1 .. Len(s) PROVE (s \o t)[i] = s[i]
    OBVIOUS
  <2>1. i \in 1 .. Len(s) + Len(t) /\ i <= Len(s)
    BY <1>1
  <2> QED
    BY <2>1, ConcatProperties
<1> DEFINE n == Len(s)
           m == Len(s \o t)
<1>3. n <= m /\ n <= n
  <2>1. n \in Nat /\ Len(t) \in Nat /\ m = n + Len(t)
    BY <1>1
  <2> HIDE DEF n, m
  <2> QED
    BY <2>1
<1> QED
  BY <1>1, <1>2, <1>3 DEF Stream!Extends

(***************************************************************************)
(* The ring buffer implements a bounded stream: every byte taken is given  *)
(* to the consumer at most once and in order, and never more than Capacity *)
(* bytes are under way.                                                    *)
(***************************************************************************)
THEOREM ImplementsStream == Spec => StreamSpec
<1>1. Init => Stream!Init
  BY DEF Init, Stream!Init
<1>2. ByteInv /\ [Next]_vars => [Stream!Next]_(Stream!vars)
  <2> SUFFICES ASSUME ByteInv, [Next]_vars
               PROVE  [Stream!Next]_(Stream!vars)
    OBVIOUS
  <2>0. /\ vec \in Seq(Byte) /\ taken \in Seq(Byte) /\ consumed \in Seq(Byte)
        /\ Capacity \in Nat
    BY FpscAssumption DEF ByteInv, TypeOK
  <2>1. CASE Rests \/ Drops
    BY <2>1 DEF Rests, Drops, Stream!vars
  <2>2. CASE Writes
    <3>1. PICK n \in 0 .. Capacity :
            /\ state = "Writable" /\ vec' \in Seq(Byte) /\ Len(vec') = n
            /\ taken' = taken \o vec' /\ consumed' = consumed
      BY <2>2 DEF Writes
    <3>2. taken = consumed
      BY <3>1 DEF ByteInv, BytesAccounted
    <3>3. Stream!Extends(taken, taken') /\ Len(taken') = Len(consumed) + n
      BY <2>0, <3>1, <3>2, ConcatExtends
    <3> DEFINE l == Len(consumed)
    <3>4. l \in Nat /\ Len(taken') = l + n
      BY <2>0, <3>3, LenProperties
    <3>5. Len(taken') <= l + Capacity
      <4> HIDE DEF l
      <4> QED
        BY <2>0, <3>4
    <3> QED
      BY <3>1, <3>3, <3>5 DEF Stream!Accept, Stream!Next
  <2>3. CASE Reads
    <3>1. taken' = taken /\ consumed' = consumed \o vec /\ taken = consumed \o vec
      BY <2>3 DEF Reads, ByteInv, BytesAccounted
    <3>2. /\ Stream!Extends(consumed, consumed \o vec)
          /\ Stream!Extends(consumed \o vec, consumed \o vec)
      BY <2>0, ConcatExtends, ConcatProperties
    <3> QED
      BY <3>1, <3>2 DEF Stream!Deliver, Stream!Next
  <2>4. CASE Empties
    BY <2>4 DEF Empties, Stream!Open, Stream!Next
  <2> QED
    BY <2>1, <2>2, <2>3, <2>4, StepKinds
<1> QED
  BY <1>1, <1>2, ByteInvAlways, PTL DEF Spec, StreamSpec, Stream!Spec

-----------------------------------------------------------------------------
(***************************************************************************)
(* The strengthening of Delivered: a consumer that returned Ok saw the end *)
(* of the data, and what is ReadFinished was consumed or lost.             *)
(***************************************************************************)
DeliveryInv ==
  /\ consumer = "ok" => state \in Finished /\ (consumed = taken \/ lost)
  /\ state = "ReadFinished" => consumed = taken \/ lost
  /\ producer = "ok" /\ source = "slice" => input = << >>

LEMMA DeliveryKept ==
  ASSUME ByteInv, DeliveryInv, [Next]_vars
  PROVE  DeliveryInv'
<1> USE DEF DeliveryInv, Finished, Live, Ended, wake_reader, wake_writer, woken, wakers,
        ring, bytes, setup
<1>0. /\ vec \in Seq(Byte) /\ consumed \in Seq(Byte) /\ input \in Seq(Byte)
      /\ Len(input) \in Nat /\ Capacity \in Nat
  BY FpscAssumption, LenProperties DEF ByteInv, TypeOK
<1>1. CASE \/ ProduceNothing \/ PollWriteFinished \/ ProducerPending \/ PollStreamPending
           \/ PollStreamError \/ PollStreamFinished \/ StreamReady
  BY <1>1 DEF ProduceNothing, PollWriteFinished, ProducerPending, PollStreamPending,
     PollStreamError, PollStreamFinished, StreamReady
<1>2. CASE PollWrite
  <2> DEFINE n == Minimum(Capacity, Len(input))
  <2>1. n \in Nat /\ n <= Capacity /\ n <= Len(input)
    BY <1>0, MinimumFacts
  <2>2. /\ Fill(n) /\ state = "Writable" /\ state' \in {"WriteFinished", "Readable"}
        /\ producer' = "ok" => n = Len(input)
        /\ consumer' = "ok" => consumer = "ok"
    BY <1>2 DEF PollWrite
  <2> HIDE DEF n
  <2>3. n \in 0 .. Len(input)
    BY <1>0, <2>1
  <2>4. producer' = "ok" => input' = << >>
    BY <2>1, <2>2, <2>3, FillFacts DEF ByteInv, TypeOK
  <2> QED
    BY <2>2, <2>4
<1>3. ASSUME NEW n \in 0 .. Capacity, PollStream(n)
      PROVE  DeliveryInv'
  BY <1>3 DEF PollStream
<1>4. CASE ConsumerPending \/ PollConsume \/ PollConsumeFinished \/ ConsumeAgain
  BY <1>4 DEF ConsumerPending, PollConsume, PollConsumeFinished, ConsumeAgain, Consumes
<1>5. CASE PollConsumeLast
  BY <1>5 DEF PollConsumeLast, Consumes, ByteInv, BytesAccounted
<1>6. CASE PollConsumeError
  BY <1>6 DEF PollConsumeError
<1>7. ASSUME NEW size \in ReadSizes,
             PollRead(size) \/ PollReadTooSmall(size)
      PROVE  DeliveryInv'
  BY <1>7 DEF PollRead, PollReadTooSmall, Consumes
<1>8. ASSUME NEW size \in ReadSizes, PollReadLast(size)
      PROVE  DeliveryInv'
  <2>1. state = "WriteFinished" /\ taken = consumed \o vec
    BY <1>8 DEF PollReadLast, ByteInv, BytesAccounted
  <2>2. /\ consumed' = consumed \o vec /\ taken' = taken /\ input' = input
        /\ state' = state /\ producer' = producer /\ source' = source
    BY <1>8 DEF PollReadLast, Consumes
  <2> QED
    BY <2>1, <2>2
<1>9. ASSUME NEW n \in Lengths, ProduceAgain(n)
      PROVE  DeliveryInv'
  BY <1>9 DEF ProduceAgain
<1>10. CASE ReuseFromConsumer \/ ReuseFromProducer
  BY <1>10 DEF ReuseFromConsumer, ReuseFromProducer, Reuse
<1>11. CASE UNCHANGED vars
  BY <1>11 DEF vars
<1> QED
  BY <1>1, <1>2, <1>3, <1>4, <1>5, <1>6, <1>7, <1>8, <1>9, <1>10, <1>11
  DEF Next, ProducerPoll, ConsumerPoll

(***************************************************************************)
(* Two calls that returned Ok moved every byte, unless a closure failed on *)
(* the last buffer.                                                        *)
(***************************************************************************)
THEOREM DeliveredAlways == Spec => []Delivered
<1>1. Init => DeliveryInv
  BY DEF Init, DeliveryInv
<1>2. ByteInv /\ DeliveryInv /\ [Next]_vars => DeliveryInv'
  BY DeliveryKept
<1>3. DeliveryInv => Delivered
  BY DEF DeliveryInv, Delivered
<1> QED
  BY <1>1, <1>2, <1>3, ByteInvAlways, PTL DEF Spec

(***************************************************************************)
(* The buffer stays within its capacity, and nobody sleeps on work.        *)
(***************************************************************************)
THEOREM BufferInvAlways == Spec => []BufferInv
BY TypeCorrect, NobodySleepsAlways, PTL DEF BufferInv
=============================================================================
