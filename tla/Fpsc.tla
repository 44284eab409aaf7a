-------------------------------- MODULE Fpsc --------------------------------
(***************************************************************************)
(* The ring buffer of src/src/fpsc (ringbuf.rs, producer_cosumer.rs) and   *)
(* the two tasks that share it: one runs produce_all or                    *)
(* produce_from_stream, the other consume_all or a loop of read.           *)
(*                                                                         *)
(* A step is one call of poll_write, poll_read or poll: the tasks run on   *)
(* one thread, so no call is interrupted.  A task that is polled may be    *)
(* woken or not (tokio::join! polls both when either is woken).            *)
(*                                                                         *)
(* taken, consumed and lost are history variables: the bytes that came     *)
(* into the buffer and that left it since the last reuse, and whether a    *)
(* closure failed on the last of them.                                     *)
(***************************************************************************)
EXTENDS Naturals, Sequences

CONSTANTS
  Capacity,    \* the capacity given to fpsc::new
  Lengths,     \* the lengths of slices and streams
  Sources,     \* the producers: "slice" (produce_all), "stream"
  Sinks,       \* the consumers: "closure", "no_closure", "read" (a read loop)
  ReadSizes,   \* the room a read loop has in its own buffer
  Failures,    \* what may fail: "closure", "stream"
  MaxCalls     \* bounds how often producer and consumer are called

ASSUME FpscAssumption ==
  /\ Capacity \in Nat \ {0}
  /\ Lengths \subseteq Nat /\ ReadSizes \subseteq Nat
  /\ Sources \subseteq {"slice", "stream"}
  /\ Sinks \subseteq {"closure", "no_closure", "read"}
  /\ MaxCalls \in Nat

VARIABLES
  vec,         \* Inner.buf
  state,       \* Inner.state
  w_waker,     \* Inner.w_waker is Some
  r_waker,     \* Inner.r_waker is Some
  producer,    \* how the producer's task stands: see Task
  consumer,    \* how the consumer's task stands
  source, sink,
  input,       \* what is left of the slice or the stream
  taken, consumed, lost,
  calls,       \* how often they were called, for MaxCalls
  overtaken    \* history: the buffer was reused under the parked producer

ring   == << vec, state >>
wakers == << w_waker, r_waker >>
bytes  == << input, taken, consumed, lost >>
setup  == << source, sink, calls, overtaken >>
vars   == << ring, wakers, producer, consumer, setup, bytes >>

BufState == {"Writable", "Readable", "WriteFinished", "ReadFinished"}
Finished == {"WriteFinished", "ReadFinished"}

(***************************************************************************)
(* A task is scheduled (ready), waits for the other task (parked) or for   *)
(* the stream (waiting), has returned Ok or Err, or has not been called    *)
(* since the buffer was reused (idle).                                     *)
(***************************************************************************)
Live  == {"ready", "parked", "waiting"}
Ended == {"ok", "err"}
Task  == Live \cup Ended \cup {"idle"}

\* The bytes given in one call; each has its place, so that none is mistaken.
Byte == Nat \X Nat

Bytes(call, n) == [i \in 1 .. n |-> << call, i >>]

Minimum(a, b) == IF a <= b THEN a ELSE b

Init ==
  /\ vec = << >> /\ state = "Writable"
  /\ w_waker = FALSE /\ r_waker = FALSE
  /\ producer = "ready" /\ consumer = "ready"
  /\ source \in Sources /\ sink \in Sinks
  /\ calls = 1 /\ overtaken = FALSE
  /\ \E n \in Lengths : input = Bytes(1, n)
  /\ taken = << >> /\ consumed = << >> /\ lost = FALSE

-----------------------------------------------------------------------------
(***************************************************************************)
(* wake_reader and wake_writer: take the waker, if there is one, and wake. *)
(***************************************************************************)
woken(task, waker) == IF waker /\ task \in {"parked", "waiting"} THEN "ready" ELSE task

\* Mutant: wake_reader takes the waker and drops it.
wake_readerMutant == consumer' = consumer /\ r_waker' = FALSE

wake_reader ==
  /\ consumer' = woken(consumer, r_waker)
  /\ r_waker' = FALSE

wake_writer ==
  /\ producer' = woken(producer, w_waker)
  /\ w_waker' = FALSE

(***************************************************************************)
(* The producer puts the first n bytes of its input into the buffer.       *)
(***************************************************************************)
Fill(n) ==
  /\ vec' = SubSeq(input, 1, n)
  /\ taken' = taken \o SubSeq(input, 1, n)
  /\ input' = SubSeq(input, n + 1, Len(input))
  /\ UNCHANGED << consumed, lost >>

(***************************************************************************)
(* produce_all: write_all calls poll_write until the slice is empty, and   *)
(* never for an empty slice; a write of 0 bytes is an error to it.         *)
(***************************************************************************)
ProduceNothing ==
  /\ source = "slice" /\ producer = "ready" /\ input = << >>
  /\ producer' = "ok"
  /\ UNCHANGED << ring, wakers, consumer, setup, bytes >>

\* Mutant: poll_write does not tell the last write from the others.
PollWriteMutantLast ==
  /\ source = "slice" /\ producer \in Live /\ input # << >>
  /\ state = "Writable"
  /\ LET nwrite == Minimum(Capacity, Len(input))
     IN  /\ Fill(nwrite)
         /\ producer' = IF nwrite = Len(input) THEN "ok" ELSE "ready"
  /\ state' = "Readable"
  /\ wake_reader
  /\ UNCHANGED << w_waker, setup >>

PollWrite ==
  /\ source = "slice" /\ producer \in Live /\ input # << >>
  /\ state = "Writable"
  /\ LET nwrite == Minimum(Capacity, Len(input))
         last   == nwrite = Len(input)
     IN  /\ Fill(nwrite)
         /\ state' = IF last THEN "WriteFinished" ELSE "Readable"
         /\ producer' = IF last THEN "ok" ELSE "ready"
  /\ wake_reader
  /\ UNCHANGED << w_waker, setup >>

PollWriteFinished ==
  /\ source = "slice" /\ producer \in Live /\ input # << >>
  /\ state \in Finished
  /\ wake_reader
  /\ producer' = "err"
  /\ UNCHANGED << ring, w_waker, setup, bytes >>

(***************************************************************************)
(* Both kinds of producer wait while the buffer is Readable.               *)
(***************************************************************************)
ProducerPending ==
  /\ producer \in Live /\ (source = "slice" => input # << >>)
  /\ state = "Readable"
  /\ w_waker' = TRUE
  /\ producer' = "parked"
  /\ UNCHANGED << ring, r_waker, consumer, setup, bytes >>

(***************************************************************************)
(* produce_from_stream: ProducerBuf::poll until it returns 0.  The stream  *)
(* gives any number of bytes that fit and are there, 0 only at its end.    *)
(***************************************************************************)
PollStream(n) ==
  /\ source = "stream" /\ producer \in Live
  /\ state = "Writable"
  /\ n \in 0 .. Minimum(Capacity, Len(input)) /\ (n = 0 <=> input = << >>)
  /\ Fill(n)
  /\ state' = IF n < Capacity THEN "WriteFinished" ELSE "Readable"
  /\ producer' = IF n = 0 THEN "ok" ELSE "ready"
  /\ wake_reader
  /\ UNCHANGED << w_waker, setup >>

PollStreamPending ==
  /\ source = "stream" /\ producer \in Live
  /\ state = "Writable"
  /\ w_waker' = TRUE
  /\ producer' = "waiting"
  /\ UNCHANGED << ring, r_waker, consumer, setup, bytes >>

PollStreamError ==
  /\ source = "stream" /\ producer \in Live /\ "stream" \in Failures
  /\ state = "Writable"
  /\ producer' = "err"
  /\ UNCHANGED << ring, wakers, consumer, setup, bytes >>

PollStreamFinished ==
  /\ source = "stream" /\ producer \in Live
  /\ state \in Finished
  /\ producer' = "ok"
  /\ UNCHANGED << ring, wakers, consumer, setup, bytes >>

StreamReady ==
  /\ producer = "waiting"
  /\ producer' = "ready"
  /\ UNCHANGED << ring, wakers, consumer, setup, bytes >>

-----------------------------------------------------------------------------
\* The bytes go to the closure or the read's buffer; without either, nowhere.
Consumes ==
  /\ consumed' = consumed \o vec
  /\ UNCHANGED << input, taken, lost >>

ConsumerPending ==
  /\ consumer \in Live
  /\ state = "Writable"
  /\ r_waker' = TRUE
  /\ consumer' = "parked"
  /\ UNCHANGED << ring, w_waker, producer, setup, bytes >>

\* Mutant: poll leaves the buffer Readable when it has consumed it.
PollConsumeMutant ==
  /\ sink # "read" /\ consumer \in Live
  /\ state = "Readable"
  /\ Consumes
  /\ wake_writer
  /\ consumer' = "ready"
  /\ UNCHANGED << vec, state, r_waker, setup >>

(***************************************************************************)
(* consume_all: ConsumerBuf::poll until the state is ReadFinished.         *)
(***************************************************************************)
PollConsume ==
  /\ sink # "read" /\ consumer \in Live
  /\ state = "Readable"
  /\ Consumes
  /\ state' = "Writable"
  /\ wake_writer
  /\ consumer' = "ready"
  /\ UNCHANGED << vec, r_waker, setup >>

PollConsumeLast ==
  /\ sink # "read" /\ consumer \in Live
  /\ state = "WriteFinished"
  /\ Consumes
  /\ state' = "ReadFinished"
  /\ consumer' = "ok"
  /\ UNCHANGED << vec, wakers, producer, setup >>

PollConsumeError ==
  /\ sink = "closure" /\ consumer \in Live /\ "closure" \in Failures
  /\ state \in {"Readable", "WriteFinished"}
  /\ state' = IF state = "WriteFinished" THEN "ReadFinished" ELSE state
  /\ lost' = (lost \/ state = "WriteFinished")
  /\ consumer' = "err"
  /\ UNCHANGED << vec, wakers, producer, setup, input, taken, consumed >>

PollConsumeFinished ==
  /\ sink # "read" /\ consumer \in Live
  /\ state = "ReadFinished"
  /\ consumer' = "ok"
  /\ UNCHANGED << ring, wakers, producer, setup, bytes >>

\* Mutant: poll_read forgets to wake the writer.
PollReadMutant(size) ==
  /\ sink = "read" /\ consumer \in Live
  /\ state = "Readable" /\ Len(vec) <= size
  /\ Consumes
  /\ state' = "Writable"
  /\ consumer' = "ready"
  /\ UNCHANGED << vec, wakers, producer, setup >>

(***************************************************************************)
(* A loop of read, until it returns 0: poll_read with room for size bytes. *)
(***************************************************************************)
PollRead(size) ==
  /\ sink = "read" /\ consumer \in Live
  /\ state = "Readable" /\ Len(vec) <= size
  /\ Consumes
  /\ state' = "Writable"
  /\ wake_writer
  /\ consumer' = "ready"
  /\ UNCHANGED << vec, r_waker, setup >>

\* Mutant: poll_read clears the last buffer before it copies it.
PollReadLastMutant(size) ==
  /\ sink = "read" /\ consumer \in Live
  /\ state \in Finished /\ Len(vec) <= size
  /\ vec' = << >>
  /\ consumer' = "ok"
  /\ UNCHANGED << state, wakers, producer, setup, bytes >>

PollReadLast(size) ==
  /\ sink = "read" /\ consumer \in Live
  /\ state \in Finished /\ Len(vec) <= size
  /\ Consumes
  /\ vec' = << >>
  /\ consumer' = IF vec = << >> THEN "ok" ELSE "ready"
  /\ UNCHANGED << state, wakers, producer, setup >>

PollReadTooSmall(size) ==
  /\ sink = "read" /\ consumer \in Live
  /\ state # "Writable" /\ Len(vec) > size
  /\ consumer' = "err"
  /\ UNCHANGED << ring, wakers, producer, setup, bytes >>

-----------------------------------------------------------------------------
(***************************************************************************)
(* One of them is called once more, on the buffer as it is.                *)
(***************************************************************************)
ProduceAgain(n) ==
  /\ producer \notin Live /\ calls < MaxCalls
  /\ input' = Bytes(calls + 1, n)
  /\ producer' = "ready"
  /\ calls' = calls + 1
  /\ overtaken' = FALSE
  /\ UNCHANGED << ring, wakers, consumer, source, sink, taken, consumed, lost >>

ConsumeAgain ==
  /\ consumer \notin Live /\ calls < MaxCalls
  /\ consumer' = "ready"
  /\ calls' = calls + 1
  /\ UNCHANGED << ring, wakers, producer, source, sink, overtaken, bytes >>

(***************************************************************************)
(* reuse looks at nothing and wakes nobody.  Whoever calls it has its half *)
(* for itself (&mut), so no call of its own is under way; the other's may  *)
(* be, and what it had not read yet is gone.                               *)
(***************************************************************************)
Reuse ==
  /\ vec' = << >> /\ state' = "Writable"
  /\ producer' = IF producer \in Ended THEN "idle" ELSE producer
  /\ consumer' = IF consumer \in Ended THEN "idle" ELSE consumer
  /\ taken' = << >> /\ consumed' = << >> /\ lost' = FALSE
  /\ UNCHANGED << wakers, source, sink, calls, input >>

\* reuse_buf_from_consumer
ReuseFromConsumer ==
  /\ consumer \notin Live
  /\ Reuse
  /\ overtaken' = (overtaken \/ producer = "parked")

\* produce_to_producer
ReuseFromProducer ==
  /\ producer \notin Live
  /\ Reuse
  /\ UNCHANGED overtaken

ProducerPoll ==
  \/ ProduceNothing \/ PollWrite \/ PollWriteFinished \/ ProducerPending
  \/ \E n \in 0 .. Capacity : PollStream(n)
  \/ PollStreamPending \/ PollStreamError \/ PollStreamFinished

ConsumerPoll ==
  \/ ConsumerPending
  \/ PollConsume \/ PollConsumeLast \/ PollConsumeError \/ PollConsumeFinished
  \/ \E size \in ReadSizes : PollRead(size) \/ PollReadLast(size) \/ PollReadTooSmall(size)

Next ==
  \/ ProducerPoll \/ StreamReady
  \/ ConsumerPoll
  \/ ConsumeAgain \/ \E n \in Lengths : ProduceAgain(n)
  \/ ReuseFromConsumer \/ ReuseFromProducer

Spec == Init /\ [][Next]_vars

(***************************************************************************)
(* The runtime polls a task that was woken; a stream wakes whoever it told *)
(* to wait, and is not pending for ever.                                   *)
(***************************************************************************)
Fairness ==
  /\ WF_vars(producer = "ready" /\ ProducerPoll)
  /\ WF_vars(consumer = "ready" /\ ConsumerPoll)
  /\ WF_vars(StreamReady)
  /\ SF_vars(\E n \in 0 .. Capacity : PollStream(n))

FairSpec == Spec /\ Fairness

-----------------------------------------------------------------------------
\* The types of the variables; the buffer never outgrows its capacity.
TypeOK ==
  /\ vec \in Seq(Byte) /\ Len(vec) <= Capacity
  /\ state \in BufState
  /\ w_waker \in BOOLEAN /\ r_waker \in BOOLEAN
  /\ producer \in Task /\ consumer \in Task \ {"waiting"}
  /\ source \in Sources /\ sink \in Sinks
  /\ input \in Seq(Byte) /\ taken \in Seq(Byte) /\ consumed \in Seq(Byte)
  /\ lost \in BOOLEAN /\ calls \in Nat /\ overtaken \in BOOLEAN

(***************************************************************************)
(* No wakeup is lost: a task that sleeps has nothing to do, and its waker  *)
(* is where the other task will find it (ringbuf.rs 102-130), whatever     *)
(* polls, errors, repeated calls and reuses went before.  Only a producer  *)
(* that was parked when the consumer's side reused the buffer sleeps on,   *)
(* though the buffer is free: reuse does not wake it (ringbuf.rs 145-149). *)
(***************************************************************************)
NobodySleepsOnWork ==
  /\ consumer = "parked" => state = "Writable" /\ r_waker
  /\ producer = "parked" => w_waker /\ (state = "Readable" \/ overtaken)

(***************************************************************************)
(* The buffer stays within its capacity and its state always tells who has *)
(* to go on.                                                               *)
(***************************************************************************)
BufferInv ==
  /\ TypeOK
  /\ NobodySleepsOnWork

(***************************************************************************)
(* When both calls returned Ok, every byte that went into the buffer since *)
(* it was last reused came out, and nothing of a slice is left             *)
(* (produce_all, consume_all).  Only a closure that failed on the last     *)
(* buffer loses it, and a further consume_all then returns Ok              *)
(* (producer_cosumer.rs 341-348, 322-326).                                 *)
(***************************************************************************)
Delivered ==
  producer = "ok" /\ consumer = "ok" =>
    /\ consumed = taken \/ lost
    /\ source = "slice" => input = << >>

(***************************************************************************)
(* The pair implements a bounded stream of bytes: nothing is delivered     *)
(* twice, skipped or reordered, though one buffer holds now unread and now *)
(* stale data, and retries come in between.  A reuse begins a new stream,  *)
(* even one that comes in the middle of a call of the other side.          *)
(***************************************************************************)
Stream == INSTANCE ByteStream WITH accepted <- taken, delivered <- consumed

StreamSpec == Stream!Spec

(***************************************************************************)
(* produce_all and produce_from_stream return, unless their consumer gave  *)
(* up on an error or reused the buffer and was not called again: the       *)
(* handshake never leaves both waiting.  Nothing of this holds for a call  *)
(* that was parked when the buffer was reused under it.                    *)
(***************************************************************************)
ProducerEnds ==
  producer \in Live /\ consumer # "idle"
    ~> producer \in Ended \/ consumer \in {"err", "idle"} \/ overtaken

(***************************************************************************)
(* The consumer returns, unless the producer gave up on an error, was only *)
(* ever given empty slices, or reused the buffer and was not called again: *)
(* the last write is recognised as the last one (the long comment of       *)
(* poll_write, ringbuf.rs 192-217).  A consumer whose last buffer, or the  *)
(* end after it, was wiped by a reuse goes on with what is produced next;  *)
(* one whose producer sleeps on, overtaken by a reuse, may wait for ever.  *)
(***************************************************************************)
Started ==
  producer # "idle" /\ (source = "stream" \/ input # << >> \/ taken # << >>)

ConsumerEnds ==
  consumer \in Live /\ Started
    ~> consumer \in Ended \/ producer \in {"err", "idle"} \/ overtaken
=============================================================================
