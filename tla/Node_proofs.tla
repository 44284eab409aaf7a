---------------------------- MODULE Node_proofs ----------------------------
(***************************************************************************)
(* What holds of node.rs for every value of its constants: of              *)
(* NodePipeline, for any number of messages of any nature and for channels *)
(* of every capacity, with the proof that the four tasks of a node         *)
(* implement the safety part of Service; and of Introduce, for any list of *)
(* addresses. Liveness is left to TLC.                                     *)
(***************************************************************************)
EXTENDS NodePipeline, Introduce, FiniteSetTheorems, TLAPS

(***************************************************************************)
(* What a channel holds, and that it holds nothing twice.                  *)
(***************************************************************************)
Members(q) == {q[i] : i \in 1 .. Len(q)}

NoneTwice(q) == \A i, j \in 1 .. Len(q) : q[i] = q[j] => i = j

(***************************************************************************)
(* The stations of a message on its way through the node.  A place in      *)
(* Places is a station and, in a channel, a position: the stations stay    *)
(* where they are when a channel moves up.                                 *)
(***************************************************************************)
Stations == {"listening", "to handle", "child", "to encode", "encoding",
             "to send", "sending"}

Holds(s, m) ==
  \/ s = "listening" /\ hand["listen"] = m
  \/ s = "to handle" /\ m \in Members(queue["handle"])
  \/ s = "child"     /\ child[m] # "none"
  \/ s = "to encode" /\ m \in Members(queue["encode"])
  \/ s = "encoding"  /\ hand["encode"] = m
  \/ s = "to send"   /\ m \in Members(queue["send"])
  \/ s = "sending"   /\ hand["send"] = m

OneStation ==
  \A m \in Msgs :
    /\ fate[m] = "in" <=> \E s \in Stations : Holds(s, m)
    /\ \A s, u \in Stations : Holds(s, m) /\ Holds(u, m) => s = u

QueuedOnce == \A t \in Loops : NoneTwice(queue[t])

(***************************************************************************)
(* A loop ends only when cancelled, and leaves nothing behind; and who     *)
(* has a message in hand is at the point where it deals with it.           *)
(***************************************************************************)
TasksInStep ==
  /\ \A t \in Loops : loop[t] = "ended" => queue[t] = << >> /\ cancelled
  /\ \A t \in Loops \cap Busy : hand[t] # None => loop[t] = "running"
  /\ hand["listen"] # None <=> listener = "push"
  /\ signed => hand["encode"] # None
  /\ \A m \in Waiting : fate[m] = "arrived"

IInv ==
  /\ TypeOK
  /\ OneStation
  /\ QueuedOnce
  /\ TasksInStep
  /\ LockHeldByHandler
  /\ PlainLostOnly

-----------------------------------------------------------------------------
(***************************************************************************)
(* The members of a channel when something is put into it, when its head   *)
(* is taken, and when it is dropped with what it holds.                    *)
(***************************************************************************)
LEMMA SeqAppend ==
  ASSUME NEW q \in Seq(Msgs), NEW m \in Msgs, NEW r, r = Append(q, m)
  PROVE  /\ r \in Seq(Msgs) /\ Len(q) \in Nat /\ Len(r) = Len(q) + 1
         /\ Members(r) = Members(q) \cup {m}
         /\ NoneTwice(q) /\ m \notin Members(q) => NoneTwice(r)
<1> DEFINE n == Len(q)
<1>1. /\ r \in Seq(Msgs) /\ n \in Nat /\ Len(r) = n + 1
      /\ \A i \in 1 .. n : r[i] = q[i]
      /\ r[n + 1] = m
  OBVIOUS
<1> HIDE DEF n
<1>2. \A i : i \in 1 .. n + 1 <=> i \in 1 .. n \/ i = n + 1
  BY <1>1
<1>3. {r[i] : i \in 1 .. n + 1} = {q[i] : i \in 1 .. n} \cup {m}
  BY <1>1, <1>2
<1>4. ASSUME \A i, j \in 1 .. n : q[i] = q[j] => i = j,
             m \notin {q[i] : i \in 1 .. n}
      PROVE  \A i, j \in 1 .. n + 1 : r[i] = r[j] => i = j
  BY <1>1, <1>2, <1>4
<1> QED
  BY <1>1, <1>3, <1>4 DEF n, Members, NoneTwice

(***************************************************************************)
(* Taking the head off a sequence takes one member away, for good if it    *)
(* was there once.                                                         *)
(***************************************************************************)
LEMMA SeqTail ==
  ASSUME NEW q \in Seq(Msgs), q # << >>, NEW r, r = Tail(q)
  PROVE  /\ r \in Seq(Msgs) /\ Len(q) \in Nat \ {0} /\ Len(r) = Len(q) - 1
         /\ Head(q) \in Msgs
         /\ Members(q) = Members(r) \cup {Head(q)}
         /\ NoneTwice(q) => NoneTwice(r) /\ Head(q) \notin Members(r)
<1> DEFINE n == Len(q)
<1>1. /\ r \in Seq(Msgs) /\ n \in Nat \ {0} /\ Len(r) = n - 1
      /\ \A i \in 1 .. n - 1 : r[i] = q[i + 1]
      /\ Head(q) = q[1] /\ Head(q) \in Msgs
  OBVIOUS
<1> HIDE DEF n
<1>2. /\ \A i \in 1 .. n : i = 1 \/ (i - 1 \in 1 .. n - 1 /\ i = (i - 1) + 1)
      /\ \A i \in 1 .. n - 1 : i + 1 \in 1 .. n /\ i + 1 # 1
      /\ \A i, j \in 1 .. n - 1 : i + 1 = j + 1 => i = j
      /\ 1 \in 1 .. n
  BY <1>1
<1>3. {q[i] : i \in 1 .. n} = {r[i] : i \in 1 .. n - 1} \cup {Head(q)}
  <2>1. ASSUME NEW i \in 1 .. n
        PROVE  q[i] \in {r[j] : j \in 1 .. n - 1} \cup {Head(q)}
    <3>1. CASE i = 1
      BY <1>1, <3>1
    <3>2. CASE i - 1 \in 1 .. n - 1 /\ i = (i - 1) + 1
      <4>1. r[i - 1] = q[i]
        BY <1>1, <3>2
      <4> QED
        BY <3>2, <4>1
    <3> QED
      BY <1>2, <3>1, <3>2
  <2>2. ASSUME NEW i \in 1 .. n - 1 PROVE r[i] \in {q[j] : j \in 1 .. n}
    BY <1>1, <1>2
  <2>3. Head(q) \in {q[j] : j \in 1 .. n}
    BY <1>1, <1>2
  <2> QED
    BY <2>1, <2>2, <2>3
<1>4. ASSUME \A i, j \in 1 .. n : q[i] = q[j] => i = j
      PROVE  /\ \A i, j \in 1 .. n - 1 : r[i] = r[j] => i = j
             /\ Head(q) \notin {r[i] : i \in 1 .. n - 1}
  BY <1>1, <1>2, <1>4
<1> QED
  BY <1>1, <1>3, <1>4 DEF n, Members, NoneTwice

(***************************************************************************)
(* What Put leaves behind: the message is in its channel and no other      *)
(* channel has changed.                                                    *)
(***************************************************************************)
LEMMA PutQueued ==
  ASSUME TypeOK, QueuedOnce, NEW t \in Loops, NEW m \in Msgs,
         Len(queue[t]) < Capacity, Put(t, m), m \notin Members(queue[t])
  PROVE  /\ queue' \in [Loops -> Seq(Msgs)]
         /\ \A u \in Loops : Len(queue'[u]) <= Capacity
         /\ \A u \in Loops : Members(queue'[u]) =
              Members(queue[u]) \cup (IF u = t THEN {m} ELSE {})
         /\ \A u \in Loops \ {t} : queue'[u] = queue[u]
         /\ QueuedOnce'
<1> DEFINE q == queue[t]
           r == Append(queue[t], m)
<1>1. /\ queue' = [queue EXCEPT ![t] = r]
      /\ queue \in [Loops -> Seq(Msgs)] /\ q \in Seq(Msgs)
      /\ \A u \in Loops : Len(queue[u]) <= Capacity
  BY DEF Put, TypeOK
<1>2. queue'[t] = r /\ \A u \in Loops \ {t} : queue'[u] = queue[u]
  BY <1>1
<1>3. /\ r \in Seq(Msgs) /\ Len(q) \in Nat /\ Len(r) = Len(q) + 1
      /\ Members(r) = Members(q) \cup {m} /\ NoneTwice(r)
  <2>1. NoneTwice(q) /\ m \notin Members(q)
    BY DEF QueuedOnce
  <2>2. q \in Seq(Msgs) /\ r = Append(q, m)
    BY <1>1
  <2> HIDE DEF q, r
  <2> QED
    BY <2>1, <2>2, SeqAppend
<1>4. Len(r) <= Capacity
  BY <1>3, CapacityAssumption
<1> HIDE DEF r
<1>5. queue' \in [Loops -> Seq(Msgs)]
  BY <1>1, <1>3
<1>6. \A u \in Loops : Members(queue'[u]) =
        Members(queue[u]) \cup (IF u = t THEN {m} ELSE {})
  BY <1>2, <1>3
<1>7. QueuedOnce'
  BY <1>2, <1>3 DEF QueuedOnce
<1> QED
  BY <1>1, <1>2, <1>4, <1>5, <1>6, <1>7

(***************************************************************************)
(* What taking the head of a channel leaves behind.                        *)
(***************************************************************************)
LEMMA TakeQueued ==
  ASSUME TypeOK, QueuedOnce, NEW t \in Loops, queue[t] # << >>,
         queue' = [queue EXCEPT ![t] = Tail(@)]
  PROVE  /\ queue' \in [Loops -> Seq(Msgs)]
         /\ \A u \in Loops : Len(queue'[u]) <= Capacity
         /\ Head(queue[t]) \in Msgs
         /\ Head(queue[t]) \in Members(queue[t])
         /\ \A u \in Loops :
              Members(queue'[u]) =
                Members(queue[u]) \ (IF u = t THEN {Head(queue[t])} ELSE {})
         /\ \A u \in Loops \ {t} : queue'[u] = queue[u]
         /\ QueuedOnce'
<1> DEFINE q == queue[t]
           r == Tail(queue[t])
<1>1. /\ queue' = [queue EXCEPT ![t] = r]
      /\ queue \in [Loops -> Seq(Msgs)] /\ q \in Seq(Msgs)
      /\ \A u \in Loops : Len(queue[u]) <= Capacity
  BY DEF TypeOK
<1>2. queue'[t] = r /\ \A u \in Loops \ {t} : queue'[u] = queue[u]
  BY <1>1
<1>3. /\ r \in Seq(Msgs) /\ Len(q) \in Nat \ {0} /\ Len(r) = Len(q) - 1
      /\ Head(q) \in Msgs
      /\ Members(q) = Members(r) \cup {Head(q)}
      /\ NoneTwice(r) /\ Head(q) \notin Members(r)
  <2>1. NoneTwice(q)
    BY DEF QueuedOnce
  <2>2. q \in Seq(Msgs) /\ q # << >> /\ r = Tail(q)
    BY <1>1
  <2> HIDE DEF q, r
  <2> QED
    BY <2>1, <2>2, SeqTail
<1>4. Len(r) <= Capacity
  BY <1>1, <1>3, CapacityAssumption
<1> HIDE DEF r
<1>5. queue' \in [Loops -> Seq(Msgs)]
  BY <1>1, <1>3
<1>6. \A u \in Loops :
        Members(queue'[u]) =
          Members(queue[u]) \ (IF u = t THEN {Head(queue[t])} ELSE {})
  BY <1>2, <1>3
<1>7. QueuedOnce'
  BY <1>2, <1>3 DEF QueuedOnce
<1>8. Head(queue[t]) \in Members(queue[t])
  BY <1>3 DEF Members
<1> QED
  BY <1>1, <1>2, <1>3, <1>4, <1>5, <1>6, <1>7, <1>8

(***************************************************************************)
(* What a receiver leaves behind when it goes: its channel is empty.       *)
(***************************************************************************)
LEMMA DropQueued ==
  ASSUME TypeOK, QueuedOnce, NEW t \in Loops,
         queue' = [queue EXCEPT ![t] = << >>]
  PROVE  /\ queue' \in [Loops -> Seq(Msgs)]
         /\ \A u \in Loops : Len(queue'[u]) <= Capacity
         /\ \A u \in Loops : Members(queue'[u]) = IF u = t THEN {} ELSE Members(queue[u])
         /\ queue'[t] = << >>
         /\ \A u \in Loops \ {t} : queue'[u] = queue[u]
         /\ QueuedOnce'
<1>1. /\ queue \in [Loops -> Seq(Msgs)]
      /\ \A u \in Loops : Len(queue[u]) <= Capacity
      /\ << >> \in Seq(Msgs) /\ Len(<< >>) = 0 /\ 0 <= Capacity
  BY CapacityAssumption DEF TypeOK
<1>2. /\ queue' \in [Loops -> Seq(Msgs)] /\ queue'[t] = << >>
      /\ \A u \in Loops \ {t} : queue'[u] = queue[u]
  BY <1>1
<1>3. QueuedOnce'
  BY <1>1, <1>2 DEF QueuedOnce, NoneTwice
<1>4. \A u \in Loops : Members(queue'[u]) = IF u = t THEN {} ELSE Members(queue[u])
  BY <1>1, <1>2 DEF Members
<1> QED
  BY <1>1, <1>2, <1>3, <1>4

-----------------------------------------------------------------------------
(***************************************************************************)
(* A step keeps every message at one station if it leaves the message      *)
(* alone, moves it to a station of which it is then the only one, or takes *)
(* it out of the node.                                                     *)
(***************************************************************************)
LEMMA StationsKept ==
  ASSUME OneStation,
         \A m \in Msgs :
           \/ /\ fate'[m] = "in" <=> fate[m] = "in"
              /\ \A s \in Stations : Holds(s, m)' <=> Holds(s, m)
           \/ /\ fate'[m] = "in"
              /\ \E b \in Stations : \A s \in Stations : Holds(s, m)' <=> s = b
           \/ /\ fate'[m] # "in"
              /\ \A s \in Stations : ~ Holds(s, m)'
  PROVE  OneStation'
<1> SUFFICES ASSUME NEW m \in Msgs
             PROVE  /\ fate'[m] = "in" <=> \E s \in Stations : Holds(s, m)'
                    /\ \A s, u \in Stations : Holds(s, m)' /\ Holds(u, m)' => s = u
  BY DEF OneStation
<1>1. /\ fate[m] = "in" <=> \E s \in Stations : Holds(s, m)
      /\ \A s, u \in Stations : Holds(s, m) /\ Holds(u, m) => s = u
  BY DEF OneStation
<1>2. CASE /\ fate'[m] = "in" <=> fate[m] = "in"
           /\ \A s \in Stations : Holds(s, m)' <=> Holds(s, m)
  BY <1>1, <1>2
<1>3. CASE /\ fate'[m] = "in"
           /\ \E b \in Stations : \A s \in Stations : Holds(s, m)' <=> s = b
  BY <1>3
<1>4. CASE fate'[m] # "in" /\ \A s \in Stations : ~ Holds(s, m)'
  BY <1>4
<1> QED
  BY <1>2, <1>3, <1>4

(***************************************************************************)
(* A message at one station is accepted, and at no other.                  *)
(***************************************************************************)
LEMMA HeldThere ==
  ASSUME OneStation, NEW m \in Msgs, NEW a \in Stations, Holds(a, m)
  PROVE  fate[m] = "in" /\ \A s \in Stations : Holds(s, m) <=> s = a
BY DEF OneStation

(***************************************************************************)
(* Nothing is anywhere when the node starts.                               *)
(***************************************************************************)
LEMMA Initially == Init => IInv
<1> SUFFICES ASSUME Init PROVE IInv
  OBVIOUS
<1>1. /\ \A t \in Loops : queue[t] = << >> /\ Members(queue[t]) = {}
      /\ Waiting = {}
  BY DEF Init, Members, Waiting
<1>2. \A b \in Busy : hand[b] = None
  BY DEF Init
<1>3. TypeOK
  <2>1. << >> \in Seq(Msgs) /\ Len(<< >>) = 0 /\ 0 <= Capacity
    BY CapacityAssumption
  <2>2. nature \in [Msgs -> Natures]
    BY MixesAssumption DEF Init
  <2>3. queue \in [Loops -> Seq(Msgs)] /\ \A t \in Loops : Len(queue[t]) <= Capacity
    BY <2>1 DEF Init
  <2>4. fate \in [Msgs -> Fates] /\ sock \in Seq(Msgs)
    BY <2>1 DEF Init, Fates
  <2> QED
    BY <2>2, <2>3, <2>4 DEF Init, TypeOK
<1>4. OneStation
  BY <1>1, <1>2, NoneAssumption
    DEF Init, OneStation, Holds, Stations, Loops, Busy
<1>5. QueuedOnce
  BY <1>1 DEF QueuedOnce, NoneTwice
<1>6. TasksInStep
  BY <1>1, <1>2 DEF Init, TasksInStep, Loops, Busy
<1>7. LockHeldByHandler /\ PlainLostOnly
  BY NoneAssumption DEF Init, LockHeldByHandler, PlainLostOnly
<1> QED
  BY <1>3, <1>4, <1>5, <1>6, <1>7 DEF IInv

-----------------------------------------------------------------------------
(***************************************************************************)
(* The steps after which every message is where it was.                    *)
(***************************************************************************)
LEMMA NothingMoves ==
  ASSUME TypeOK, OneStation, QueuedOnce, UNCHANGED << queue, hand >>,
         \A m \in Msgs : child'[m] = "none" <=> child[m] = "none",
         \A m \in Msgs : fate'[m] = "in" <=> fate[m] = "in"
  PROVE  OneStation' /\ QueuedOnce'
<1>1. ASSUME NEW m \in Msgs, NEW s \in Stations PROVE Holds(s, m)' <=> Holds(s, m)
  <2>1. /\ queue' = queue /\ hand' = hand
        /\ child'[m] = "none" <=> child[m] = "none"
    OBVIOUS
  <2> QED
    BY ONLY <2>1 DEF Holds
<1>2. OneStation'
  BY <1>1, StationsKept
<1> QED
  BY <1>2 DEF QueuedOnce

(***************************************************************************)
(* Closing the socket loses only what nobody took.                         *)
(***************************************************************************)
LEMMA SocketClosed ==
  ASSUME IInv, NEW taken \in SUBSET Waiting, CloseSocket(taken)
  PROVE  /\ sock' \in Seq(Msgs) /\ Waiting' = {}
         /\ fate' \in [Msgs -> Fates]
         /\ \A m \in taken : m \in Msgs => fate'[m] = "in"
         /\ \A m \in Msgs \ taken :
              /\ fate'[m] = "in" <=> fate[m] = "in"
              /\ fate'[m] = "dropped" <=> fate[m] = "dropped"
<1>1. sock' = << >> /\ sock' \in Seq(Msgs) /\ Waiting' = {}
  BY DEF CloseSocket, Waiting
<1>2. \A m \in Waiting : fate[m] = "arrived"
  BY DEF IInv, TasksInStep
<1>3. fate' \in [Msgs -> Fates]
  BY DEF CloseSocket, IInv, TypeOK, Fates
<1>4. /\ \A m \in taken : m \in Msgs => fate'[m] = "in"
      /\ \A m \in Msgs \ taken :
           /\ fate'[m] = "in" <=> fate[m] = "in"
           /\ fate'[m] = "dropped" <=> fate[m] = "dropped"
  BY <1>2 DEF CloseSocket
<1> QED
  BY <1>1, <1>3, <1>4

(***************************************************************************)
(* A datagram that arrives, or is lost, touches the socket and its own     *)
(* fate.                                                                   *)
(***************************************************************************)
LEMMA NetworkSteps ==
  ASSUME IInv, NEW m \in Msgs, Arrive(m) \/ ArriveUnheard(m)
  PROVE  IInv'
<1> USE DEF IInv
<1>1. /\ UNCHANGED << nature, cancelled, signer, listener, loop, queue, hand,
                      signed, child, lock >>
      /\ fate[m] = "unsent"
      /\ \E f \in {"arrived", "lost"} : fate' = [fate EXCEPT ![m] = f]
  BY DEF Arrive, ArriveUnheard
<1>2. fate' \in [Msgs -> Fates] /\ fate \in [Msgs -> Fates]
  BY <1>1 DEF TypeOK, Fates
<1>3. \A x \in Msgs : /\ fate'[x] = "in" <=> fate[x] = "in"
                      /\ fate'[x] = "dropped" <=> fate[x] = "dropped"
  BY <1>1, <1>2
<1>4. OneStation' /\ QueuedOnce'
  BY <1>1, <1>3, NothingMoves
<1>5. sock' \in Seq(Msgs) /\ \A x \in Waiting' : fate'[x] = "arrived"
  <2>1. sock \in Seq(Msgs) /\ \A x \in Waiting : x \in Msgs /\ fate[x] = "arrived"
    BY DEF TypeOK, TasksInStep, Waiting
  <2>2. CASE Arrive(m)
    <3>1. sock' = Append(sock, m) /\ fate' = [fate EXCEPT ![m] = "arrived"]
      BY <2>2 DEF Arrive
    <3>2. sock' \in Seq(Msgs) /\ Members(sock') = Members(sock) \cup {m}
      BY <2>1, <3>1, SeqAppend
    <3> QED
      BY <1>2, <2>1, <3>1, <3>2 DEF Waiting, Members
  <2>3. CASE ArriveUnheard(m)
    BY <1>1, <2>1, <2>3 DEF ArriveUnheard, Waiting
  <2> QED
    BY <2>2, <2>3
<1>6. TypeOK' /\ TasksInStep' /\ LockHeldByHandler'
  BY <1>1, <1>2, <1>5 DEF TypeOK, TasksInStep, LockHeldByHandler
<1>7. PlainLostOnly'
  BY <1>1, <1>3 DEF PlainLostOnly
<1> QED
  BY <1>4, <1>6, <1>7

(***************************************************************************)
(* The steps of task 1.                                                    *)
(***************************************************************************)
LEMMA ListenerSteps ==
  ASSUME IInv, Bind \/ BindFails \/ Take \/ ReceiveFails \/ StopListener
  PROVE  IInv'
<1> USE DEF IInv
<1>1. CASE Bind \/ BindFails
  <2>1. /\ UNCHANGED << nature, fate, cancelled, signer, sock, loop, queue, hand,
                        signed, child, lock >>
        /\ listener = "bind" /\ listener' \in {"listen", "ended"}
    BY <1>1 DEF Bind, BindFails
  <2>2. OneStation' /\ QueuedOnce'
    BY <2>1, NothingMoves
  <2>3. Waiting' = Waiting
    BY <2>1 DEF Waiting
  <2>4. TypeOK' /\ TasksInStep' /\ LockHeldByHandler' /\ PlainLostOnly'
    BY <2>1, <2>3 DEF TypeOK, TasksInStep, LockHeldByHandler, PlainLostOnly
  <2> QED
    BY <2>2, <2>4
<1>2. CASE ReceiveFails \/ StopListener
  <2>1. /\ UNCHANGED << nature, cancelled, signer, loop, queue, hand, signed,
                        child, lock >>
        /\ CloseSocket({}) /\ listener # "push" /\ listener' = "ended"
    BY <1>2 DEF ReceiveFails, StopListener
  <2>2. /\ sock' \in Seq(Msgs) /\ Waiting' = {}
        /\ fate' \in [Msgs -> Fates]
        /\ \A m \in Msgs : /\ fate'[m] = "in" <=> fate[m] = "in"
                           /\ fate'[m] = "dropped" <=> fate[m] = "dropped"
    BY <2>1, SocketClosed
  <2>3. OneStation' /\ QueuedOnce'
    BY <2>1, <2>2, NothingMoves
  <2>4. TypeOK' /\ TasksInStep' /\ LockHeldByHandler' /\ PlainLostOnly'
    BY <2>1, <2>2 DEF TypeOK, TasksInStep, LockHeldByHandler, PlainLostOnly
  <2> QED
    BY <2>3, <2>4
<1>3. CASE Take
  <2>0. PICK m \in Msgs : m = Head(sock) /\ m \in Waiting
    <3>1. sock \in Seq(Msgs) /\ sock # << >>
      BY <1>3 DEF Take, TypeOK
    <3>2. Head(sock) \in Msgs /\ Head(sock) = sock[1] /\ 1 \in 1 .. Len(sock)
      BY <3>1
    <3> QED
      BY <3>2 DEF Waiting
  <2>1. m \in Msgs /\ m \in Waiting /\ fate[m] = "arrived"
    BY <2>0 DEF TasksInStep
  <2>2. /\ UNCHANGED << nature, cancelled, signer, loop, queue, signed, child, lock >>
        /\ hand' = [hand EXCEPT !["listen"] = m] /\ CloseSocket({m})
        /\ listener = "listen" /\ listener' = "push"
    BY <1>3, <2>0 DEF Take
  <2>3. /\ sock' \in Seq(Msgs) /\ Waiting' = {}
        /\ fate' \in [Msgs -> Fates]
        /\ fate'[m] = "in"
        /\ \A x \in Msgs \ {m} : /\ fate'[x] = "in" <=> fate[x] = "in"
                                 /\ fate'[x] = "dropped" <=> fate[x] = "dropped"
    BY <2>1, <2>2, SocketClosed
  <2>4. /\ hand \in [Busy -> Msgs \cup {None}] /\ hand["listen"] = None
        /\ hand' \in [Busy -> Msgs \cup {None}] /\ hand'["listen"] = m
        /\ \A b \in Busy \ {"listen"} : hand'[b] = hand[b]
    BY <2>1, <2>2 DEF TypeOK, TasksInStep, Busy
  <2>5. OneStation'
    <3>1. /\ Members(queue'["handle"]) = Members(queue["handle"])
           /\ Members(queue'["encode"]) = Members(queue["encode"])
          /\ Members(queue'["send"]) = Members(queue["send"]) /\ child' = child
      BY <2>2
    <3>2. /\ hand["listen"] = None /\ hand'["listen"] = m
          /\ hand'["encode"] = hand["encode"] /\ hand'["send"] = hand["send"]
      BY <2>4 DEF Busy
    <3>3. \A s \in Stations : ~ Holds(s, m)
      BY <2>1 DEF OneStation
    <3>4. ASSUME NEW s \in Stations PROVE Holds(s, m)' <=> s = "listening"
      <4>1. ~ Holds(s, m)
        BY <3>3
      <4> QED
        BY ONLY <3>1, <3>2, <4>1 DEF Holds
    <3>5. ASSUME NEW x \in Msgs \ {m}, NEW s \in Stations
          PROVE  Holds(s, x)' <=> Holds(s, x)
      <4>1. x # m /\ x # None
        BY NoneAssumption
      <4> QED
        BY ONLY <3>1, <3>2, <4>1 DEF Holds
    <3>6. "listening" \in Stations
      BY DEF Stations
    <3> QED
      BY <2>3, <3>4, <3>5, <3>6, StationsKept
  <2>6. TypeOK' /\ QueuedOnce' /\ LockHeldByHandler'
    BY <2>2, <2>3, <2>4 DEF TypeOK, QueuedOnce, LockHeldByHandler
  <2>7. TasksInStep'
    <3>1. /\ \A t \in Loops \cap Busy : hand'[t] = hand[t]
          /\ hand'["encode"] = hand["encode"] /\ hand'["listen"] # None
      BY <2>1, <2>4, NoneAssumption DEF Loops, Busy
    <3> QED
      BY <2>2, <2>3, <3>1 DEF TasksInStep
  <2>8. PlainLostOnly'
    BY <2>1, <2>2, <2>3 DEF PlainLostOnly
  <2> QED
    BY <2>5, <2>6, <2>7, <2>8
<1> QED
  BY <1>1, <1>2, <1>3

-----------------------------------------------------------------------------
(***************************************************************************)
(* A message leaves the node: answered or given up by the task or child    *)
(* that has it.                                                            *)
(***************************************************************************)
LEMMA Leaves ==
  ASSUME IInv, NEW m \in Msgs, NEW f \in Fates \ {"in"},
         fate' = [fate EXCEPT ![m] = f], UNCHANGED << sock, queue >>,
         \/ \E b \in Busy : /\ hand[b] = m /\ hand' = [hand EXCEPT ![b] = None]
                            /\ UNCHANGED child
         \/ /\ child[m] # "none" /\ child' = [child EXCEPT ![m] = "none"]
            /\ UNCHANGED hand
  PROVE  /\ OneStation' /\ QueuedOnce'
         /\ hand' \in [Busy -> Msgs \cup {None}]
         /\ child' \in [Msgs -> {"none", "lock", "handling", "push"}]
         /\ fate' \in [Msgs -> Fates]
         /\ fate[m] = "in" /\ fate'[m] = f
         /\ \A x \in Msgs \ {m} : fate'[x] = fate[x]
         /\ \A x \in Waiting' : fate'[x] = "arrived"
<1> USE DEF IInv
<1>1. /\ fate \in [Msgs -> Fates] /\ hand \in [Busy -> Msgs \cup {None}]
      /\ child \in [Msgs -> {"none", "lock", "handling", "push"}]
  BY DEF TypeOK
<1>2. /\ fate' \in [Msgs -> Fates] /\ fate'[m] = f
      /\ \A x \in Msgs \ {m} : fate'[x] = fate[x]
  BY <1>1
<1>3. QueuedOnce'
  BY DEF QueuedOnce
<1>4. /\ fate[m] = "in" /\ OneStation'
      /\ hand' \in [Busy -> Msgs \cup {None}]
      /\ child' \in [Msgs -> {"none", "lock", "handling", "push"}]
  <2>1. ASSUME NEW b \in Busy, hand[b] = m, hand' = [hand EXCEPT ![b] = None],
               UNCHANGED child
        PROVE  <1>4
    <3>1. hand' \in [Busy -> Msgs \cup {None}] /\ hand'[b] = None
          /\ \A c \in Busy \ {b} : hand'[c] = hand[c]
      BY <1>1, <2>1
    <3>2. PICK a \in Stations : /\ Holds(a, m)
                                /\ \A s \in Stations : Holds(s, m) <=> s = a
                                /\ a = CASE b = "listen" -> "listening"
                                         [] b = "encode" -> "encoding"
                                         [] b = "send"   -> "sending"
      <4> DEFINE a == CASE b = "listen" -> "listening"
                        [] b = "encode" -> "encoding"
                        [] b = "send"   -> "sending"
      <4>1. b = "listen" \/ b = "encode" \/ b = "send"
        BY DEF Busy
      <4>2. a \in Stations
        BY <4>1 DEF Stations
      <4>3. Holds(a, m)
        BY ONLY <2>1, <4>1 DEF Holds
      <4> HIDE DEF a
      <4>4. \A s \in Stations : Holds(s, m) <=> s = a
        BY <4>2, <4>3, HeldThere
      <4> QED
        BY <4>2, <4>3, <4>4 DEF a
    <3>3. fate[m] = "in"
      BY <3>2, HeldThere
    <3>4. /\ b = "listen" \/ b = "encode" \/ b = "send"
          /\ \A c \in {"listen", "encode", "send"} : c # b => hand'[c] = hand[c]
      BY <3>1 DEF Busy
    <3>5. ASSUME NEW s \in Stations PROVE ~ Holds(s, m)'
      <4>1. queue' = queue /\ child' = child /\ m # None /\ hand'[b] = None
        BY <2>1, <3>1, NoneAssumption
      <4>2. CASE s = a
        BY ONLY <3>2, <3>4, <4>1, <4>2 DEF Holds
      <4>3. CASE s # a
        <5>1. ~ Holds(s, m)
          BY <3>2, <4>3
        <5> QED
          BY ONLY <3>2, <3>4, <4>1, <4>3, <5>1 DEF Holds
      <4> QED
        BY <4>2, <4>3
    <3>6. ASSUME NEW x \in Msgs \ {m}, NEW s \in Stations
          PROVE  Holds(s, x)' <=> Holds(s, x)
      <4>1. /\ queue' = queue /\ child' = child /\ x # None /\ x # m
            /\ hand'[b] = None /\ hand[b] = m
        BY <2>1, <3>1, NoneAssumption
      <4> QED
        BY ONLY <3>4, <4>1 DEF Holds
    <3>7. OneStation'
      BY <1>2, <3>5, <3>6, StationsKept
    <3> QED
      BY <1>1, <2>1, <3>1, <3>3, <3>7
  <2>2. ASSUME child[m] # "none", child' = [child EXCEPT ![m] = "none"],
               UNCHANGED hand
        PROVE  <1>4
    <3>1. /\ child' \in [Msgs -> {"none", "lock", "handling", "push"}]
          /\ child'[m] = "none" /\ \A x \in Msgs \ {m} : child'[x] = child[x]
      BY <1>1, <2>2
    <3>2. Holds("child", m) /\ "child" \in Stations
      BY <2>2 DEF Holds, Stations
    <3>3. fate[m] = "in" /\ \A s \in Stations : Holds(s, m) <=> s = "child"
      BY <3>2, HeldThere
    <3>4. ASSUME NEW s \in Stations PROVE ~ Holds(s, m)'
      <4>1. queue' = queue /\ hand' = hand /\ (Holds(s, m) <=> s = "child")
        BY <2>2, <3>3
      <4> QED
        BY ONLY <3>1, <4>1 DEF Holds
    <3>5. ASSUME NEW x \in Msgs \ {m}, NEW s \in Stations
          PROVE  Holds(s, x)' <=> Holds(s, x)
      <4>1. queue' = queue /\ hand' = hand /\ child'[x] = child[x]
        BY <2>2, <3>1
      <4> QED
        BY ONLY <4>1 DEF Holds
    <3>6. OneStation'
      BY <1>2, <3>4, <3>5, StationsKept
    <3> QED
      BY <1>1, <2>2, <3>1, <3>3, <3>6
  <2> QED
    BY <2>1, <2>2
<1>5. \A x \in Waiting' : fate'[x] = "arrived"
  <2>1. Waiting' = Waiting /\ \A x \in Waiting : x \in Msgs /\ fate[x] = "arrived"
    BY DEF TypeOK, TasksInStep, Waiting
  <2> QED
    BY <1>2, <1>4, <2>1
<1> QED
  BY <1>2, <1>3, <1>4, <1>5

(***************************************************************************)
(* A message goes into a channel from the task or the child that has it.   *)
(***************************************************************************)
Hands == {"listening", "child", "encoding", "sending"}

Channel(t) == CASE t = "handle" -> "to handle"
                [] t = "encode" -> "to encode"
                [] t = "send"   -> "to send"

(***************************************************************************)
(* Every station is a channel or the hand of a task or of a child.         *)
(***************************************************************************)
LEMMA Channels ==
  /\ \A t \in Loops : Channel(t) \in Stations \ Hands
  /\ \A t, u \in Loops : Channel(t) = Channel(u) => t = u
  /\ \A s \in Stations : s \in Hands \/ \E t \in Loops : s = Channel(t)
  /\ Hands \subseteq Stations
BY DEF Channel, Loops, Stations, Hands

(***************************************************************************)
(* A message is at the station of a channel when it is queued there.       *)
(***************************************************************************)
LEMMA InChannel ==
  \A x \in Msgs, t \in Loops : /\ Holds(Channel(t), x) <=> x \in Members(queue[t])
                               /\ Holds(Channel(t), x)' <=> x \in Members(queue'[t])
<1> TAKE x \in Msgs, t \in Loops
<1>1. t = "handle" \/ t = "encode" \/ t = "send"
  BY DEF Loops
<1> QED
  BY ONLY <1>1 DEF Channel, Holds

(***************************************************************************)
(* A step that sends a message into a channel keeps every message at one   *)
(* station.                                                                *)
(***************************************************************************)
LEMMA GoesIn ==
  ASSUME IInv, NEW m \in Msgs, NEW a \in Hands, Holds(a, m),
         NEW t \in Loops, Room(t), Put(t, m), UNCHANGED fate,
         \A x \in Msgs : \A s \in Hands : Holds(s, x)' <=> Holds(s, x) /\ x # m
  PROVE  /\ OneStation' /\ QueuedOnce'
         /\ queue' \in [Loops -> Seq(Msgs)]
         /\ \A u \in Loops : Len(queue'[u]) <= Capacity
         /\ \A u \in Loops \ {t} : queue'[u] = queue[u]
<1> USE DEF IInv
<1>1. /\ fate[m] = "in"
      /\ \A s \in Stations : Holds(s, m) <=> s = a
  BY HeldThere, Channels
<1>2. \A u \in Loops : m \notin Members(queue[u])
  BY <1>1, InChannel, Channels
<1>3. /\ queue' \in [Loops -> Seq(Msgs)]
      /\ \A u \in Loops : Len(queue'[u]) <= Capacity
      /\ \A u \in Loops :
           Members(queue'[u]) = Members(queue[u]) \cup (IF u = t THEN {m} ELSE {})
      /\ \A u \in Loops \ {t} : queue'[u] = queue[u]
      /\ QueuedOnce'
  BY <1>2, PutQueued DEF Room
<1>4. \A u \in Loops, x \in Msgs :
        Holds(Channel(u), x)' <=> Holds(Channel(u), x) \/ (u = t /\ x = m)
  BY <1>3, InChannel
<1>5. ASSUME NEW s \in Stations PROVE Holds(s, m)' <=> s = Channel(t)
  <2>1. CASE s \in Hands
    BY <2>1, Channels
  <2>2. ASSUME NEW u \in Loops, s = Channel(u)
        PROVE Holds(s, m)' <=> s = Channel(t)
    <3>1. ~ Holds(Channel(u), m)
      BY <1>2, InChannel
    <3>2. Holds(Channel(u), m)' <=> u = t
      BY <1>4, <3>1
    <3> QED
      BY <2>2, <3>2, Channels
  <2> QED
    BY <2>1, <2>2, Channels
<1>6. ASSUME NEW x \in Msgs \ {m}, NEW s \in Stations
      PROVE  Holds(s, x)' <=> Holds(s, x)
  BY <1>4, Channels
<1>7. OneStation'
  BY <1>1, <1>5, <1>6, StationsKept, Channels
<1> QED
  BY <1>3, <1>7

(***************************************************************************)
(* From a channel it goes to the task behind it, or to a child.            *)
(***************************************************************************)
Get(t) == queue' = [queue EXCEPT ![t] = Tail(@)]

(***************************************************************************)
(* A step that receives a message from a channel does so, too.             *)
(***************************************************************************)
LEMMA ComesOut ==
  ASSUME IInv, NEW t \in Loops, queue[t] # << >>, Get(t), UNCHANGED fate,
         NEW m \in Msgs, m = Head(queue[t]), NEW b \in Hands,
         \A x \in Msgs : \A s \in Hands :
           Holds(s, x)' <=> Holds(s, x) \/ (x = m /\ s = b)
  PROVE  /\ OneStation' /\ QueuedOnce'
         /\ queue' \in [Loops -> Seq(Msgs)]
         /\ \A u \in Loops : Len(queue'[u]) <= Capacity
         /\ \A u \in Loops \ {t} : queue'[u] = queue[u]
<1> USE DEF IInv
<1>1. /\ queue' \in [Loops -> Seq(Msgs)]
      /\ \A u \in Loops : Len(queue'[u]) <= Capacity
      /\ m \in Members(queue[t])
      /\ \A u \in Loops :
           Members(queue'[u]) = Members(queue[u]) \ (IF u = t THEN {m} ELSE {})
      /\ \A u \in Loops \ {t} : queue'[u] = queue[u]
      /\ QueuedOnce'
  BY TakeQueued DEF Get
<1>2. /\ fate[m] = "in"
      /\ \A s \in Stations : Holds(s, m) <=> s = Channel(t)
  BY <1>1, InChannel, HeldThere, Channels
<1>3. \A u \in Loops, x \in Msgs :
        Holds(Channel(u), x)' <=> Holds(Channel(u), x) /\ ~ (u = t /\ x = m)
  BY <1>1, InChannel
<1>4. ASSUME NEW s \in Stations PROVE Holds(s, m)' <=> s = b
  <2>1. CASE s \in Hands
    BY <1>2, <2>1, Channels
  <2>2. ASSUME NEW u \in Loops, s = Channel(u) PROVE ~ Holds(s, m)' /\ s # b
    <3>1. Holds(Channel(u), m) <=> u = t
      BY <1>2, Channels
    <3>2. ~ Holds(Channel(u), m)'
      BY <1>3, <3>1
    <3> QED
      BY <2>2, <3>2, Channels
  <2> QED
    BY <2>1, <2>2, Channels
<1>5. ASSUME NEW x \in Msgs \ {m}, NEW s \in Stations
      PROVE  Holds(s, x)' <=> Holds(s, x)
  BY <1>3, Channels
<1>6. OneStation'
  BY <1>2, <1>4, <1>5, StationsKept, Channels
<1> QED
  BY <1>1, <1>6

-----------------------------------------------------------------------------
(***************************************************************************)
(* The steps that put a message into a channel.                            *)
(***************************************************************************)
LEMMA PushSteps ==
  ASSUME IInv, PushHandle \/ (\E m \in Msgs : PushEncode(m)) \/ PushSend
  PROVE  IInv'
<1> USE DEF IInv
<1>0. /\ hand \in [Busy -> Msgs \cup {None}]
      /\ child \in [Msgs -> {"none", "lock", "handling", "push"}]
      /\ "listening" \in Hands /\ "child" \in Hands /\ "encoding" \in Hands
      /\ "handle" \in Loops /\ "encode" \in Loops /\ "send" \in Loops
  BY DEF TypeOK, Hands, Loops
<1>1. CASE PushHandle
  <2>1. PICK m \in Msgs : m = hand["listen"]
    BY <1>0, <1>1 DEF PushHandle, TasksInStep, Busy
  <2>2. /\ UNCHANGED << nature, fate, cancelled, signer, sock, loop, signed,
                        child, lock >>
        /\ hand' = [hand EXCEPT !["listen"] = None] /\ listener' = "bind"
        /\ Put("handle", m) /\ Room("handle")
    BY <1>1, <2>1 DEF PushHandle
  <2>3. /\ hand' \in [Busy -> Msgs \cup {None}] /\ hand'["listen"] = None
        /\ hand'["encode"] = hand["encode"] /\ hand'["send"] = hand["send"]
    BY <1>0, <2>2 DEF Busy
  <2>4. Holds("listening", m)
    BY <2>1 DEF Holds
  <2>5. ASSUME NEW x \in Msgs, NEW s \in Hands
        PROVE  Holds(s, x)' <=> Holds(s, x) /\ x # m
    <3>1. /\ x # None /\ m # None /\ child' = child
          /\ s \in {"listening", "child", "encoding", "sending"}
          /\ hand'["listen"] = None /\ hand["listen"] = m
          /\ hand'["encode"] = hand["encode"] /\ hand'["send"] = hand["send"]
      BY <2>1, <2>2, <2>3, NoneAssumption DEF Hands
    <3>2. Holds(s, m) <=> s = "listening"
      BY <1>0, <2>4, HeldThere, Channels
    <3> QED
      BY ONLY <3>1, <3>2 DEF Holds
  <2>6. /\ OneStation' /\ QueuedOnce'
        /\ queue' \in [Loops -> Seq(Msgs)]
        /\ \A u \in Loops : Len(queue'[u]) <= Capacity
        /\ \A u \in Loops \ {"handle"} : queue'[u] = queue[u]
    BY <1>0, <2>2, <2>4, <2>5, GoesIn
  <2>7. TypeOK' /\ LockHeldByHandler' /\ PlainLostOnly'
    BY <2>2, <2>3, <2>6 DEF TypeOK, LockHeldByHandler, PlainLostOnly
  <2>8. TasksInStep'
    <3>1. Waiting' = Waiting
      BY <2>2 DEF Waiting
    <3> QED
      BY <2>2, <2>3, <2>6, <3>1 DEF TasksInStep, Room, Loops, Busy
  <2> QED
    BY <2>6, <2>7, <2>8
<1>2. ASSUME NEW m \in Msgs, PushEncode(m) PROVE IInv'
  <2>2. /\ UNCHANGED << nature, fate, cancelled, signer, listener, sock, loop,
                        hand, signed, lock >>
        /\ child[m] = "push" /\ child' = [child EXCEPT ![m] = "none"]
        /\ Put("encode", m) /\ Room("encode")
    BY <1>2 DEF PushEncode
  <2>3. /\ child' \in [Msgs -> {"none", "lock", "handling", "push"}]
        /\ child'[m] = "none" /\ \A x \in Msgs \ {m} : child'[x] = child[x]
    BY <1>0, <2>2
  <2>4. Holds("child", m)
    BY <2>2 DEF Holds
  <2>5. ASSUME NEW x \in Msgs, NEW s \in Hands
        PROVE  Holds(s, x)' <=> Holds(s, x) /\ x # m
    <3>1. /\ hand' = hand /\ child'[m] = "none" /\ (x # m => child'[x] = child[x])
          /\ s \in {"listening", "child", "encoding", "sending"}
      BY <2>2, <2>3 DEF Hands
    <3>2. Holds(s, m) <=> s = "child"
      BY <1>0, <2>4, HeldThere, Channels
    <3> QED
      BY ONLY <3>1, <3>2 DEF Holds
  <2>6. /\ OneStation' /\ QueuedOnce'
        /\ queue' \in [Loops -> Seq(Msgs)]
        /\ \A u \in Loops : Len(queue'[u]) <= Capacity
        /\ \A u \in Loops \ {"encode"} : queue'[u] = queue[u]
    BY <1>0, <2>2, <2>4, <2>5, GoesIn
  <2>7. TypeOK' /\ LockHeldByHandler' /\ PlainLostOnly'
    BY <2>2, <2>3, <2>6 DEF TypeOK, LockHeldByHandler, PlainLostOnly
  <2>8. TasksInStep'
    <3>1. Waiting' = Waiting
      BY <2>2 DEF Waiting
    <3> QED
      BY <2>2, <2>6, <3>1 DEF TasksInStep, Room
  <2> QED
    BY <2>6, <2>7, <2>8
<1>3. CASE PushSend
  <2>1. PICK m \in Msgs : m = hand["encode"]
    BY <1>0, <1>3 DEF PushSend, TasksInStep, Busy
  <2>2. /\ UNCHANGED << nature, fate, cancelled, signer, listener, sock, loop,
                        child, lock >>
        /\ hand' = [hand EXCEPT !["encode"] = None] /\ signed' = FALSE
        /\ Put("send", m) /\ Room("send")
    BY <1>3, <2>1 DEF PushSend
  <2>3. /\ hand' \in [Busy -> Msgs \cup {None}] /\ hand'["encode"] = None
        /\ hand'["listen"] = hand["listen"] /\ hand'["send"] = hand["send"]
    BY <1>0, <2>2 DEF Busy
  <2>4. Holds("encoding", m)
    BY <2>1 DEF Holds
  <2>5. ASSUME NEW x \in Msgs, NEW s \in Hands
        PROVE  Holds(s, x)' <=> Holds(s, x) /\ x # m
    <3>1. /\ x # None /\ m # None /\ child' = child
          /\ s \in {"listening", "child", "encoding", "sending"}
          /\ hand'["encode"] = None /\ hand["encode"] = m
          /\ hand'["listen"] = hand["listen"] /\ hand'["send"] = hand["send"]
      BY <2>1, <2>2, <2>3, NoneAssumption DEF Hands
    <3>2. Holds(s, m) <=> s = "encoding"
      BY <1>0, <2>4, HeldThere, Channels
    <3> QED
      BY ONLY <3>1, <3>2 DEF Holds
  <2>6. /\ OneStation' /\ QueuedOnce'
        /\ queue' \in [Loops -> Seq(Msgs)]
        /\ \A u \in Loops : Len(queue'[u]) <= Capacity
        /\ \A u \in Loops \ {"send"} : queue'[u] = queue[u]
    BY <1>0, <2>2, <2>4, <2>5, GoesIn
  <2>7. TypeOK' /\ LockHeldByHandler' /\ PlainLostOnly'
    BY <2>2, <2>3, <2>6 DEF TypeOK, LockHeldByHandler, PlainLostOnly
  <2>8. TasksInStep'
    <3>1. Waiting' = Waiting
      BY <2>2 DEF Waiting
    <3> QED
      BY <2>2, <2>3, <2>6, <3>1 DEF TasksInStep, Room, Loops, Busy
  <2> QED
    BY <2>6, <2>7, <2>8
<1> QED
  BY <1>1, <1>2, <1>3

(***************************************************************************)
(* The steps that take one out.                                            *)
(***************************************************************************)
LEMMA RecvSteps ==
  ASSUME IInv, StartChild \/ Recv("encode") \/ Recv("send")
  PROVE  IInv'
<1> USE DEF IInv
<1>0. /\ hand \in [Busy -> Msgs \cup {None}]
      /\ child \in [Msgs -> {"none", "lock", "handling", "push"}]
      /\ "sending" \in Hands /\ "child" \in Hands /\ "encoding" \in Hands
      /\ "handle" \in Loops /\ "encode" \in Loops /\ "send" \in Loops
  BY DEF TypeOK, Hands, Loops
<1>1. CASE StartChild
  <2>1. PICK m \in Msgs : m = Head(queue["handle"]) /\ m \in Members(queue["handle"])
    BY <1>0, <1>1, TakeQueued DEF StartChild
  <2>2. /\ UNCHANGED << nature, fate, cancelled, signer, listener, sock, loop,
                        hand, signed, lock >>
        /\ loop["handle"] = "running" /\ queue["handle"] # << >>
        /\ Get("handle")
        /\ child' = [child EXCEPT ![m] = "lock"]
    BY <1>1, <2>1 DEF StartChild, Get
  <2>3. /\ child' \in [Msgs -> {"none", "lock", "handling", "push"}]
        /\ child'[m] = "lock" /\ \A x \in Msgs \ {m} : child'[x] = child[x]
    BY <1>0, <2>2
  <2>4. child[m] = "none"
    <3>1. ~ Holds("child", m)
      BY <1>0, <2>1, InChannel, HeldThere, Channels
    <3> QED
      BY <3>1 DEF Holds
  <2>5. ASSUME NEW x \in Msgs, NEW s \in Hands
        PROVE  Holds(s, x)' <=> Holds(s, x) \/ (x = m /\ s = "child")
    <3>1. /\ hand' = hand /\ child'[m] = "lock" /\ (x # m => child'[x] = child[x])
          /\ s \in {"listening", "child", "encoding", "sending"}
      BY <2>2, <2>3 DEF Hands
    <3> QED
      BY ONLY <3>1 DEF Holds
  <2>6. /\ OneStation' /\ QueuedOnce'
        /\ queue' \in [Loops -> Seq(Msgs)]
        /\ \A u \in Loops : Len(queue'[u]) <= Capacity
        /\ \A u \in Loops \ {"handle"} : queue'[u] = queue[u]
    BY <1>0, <2>1, <2>2, <2>5, ComesOut
  <2>7. TypeOK' /\ LockHeldByHandler' /\ PlainLostOnly'
    BY <2>2, <2>3, <2>4, <2>6 DEF TypeOK, LockHeldByHandler, PlainLostOnly
  <2>8. TasksInStep'
    <3>1. Waiting' = Waiting
      BY <2>2 DEF Waiting
    <3> QED
      BY <2>2, <2>6, <3>1 DEF TasksInStep
  <2> QED
    BY <2>6, <2>7, <2>8
<1>2. CASE Recv("encode")
  <2>1. PICK m \in Msgs : m = Head(queue["encode"])
    BY <1>0, <1>2, TakeQueued DEF Recv
  <2>2. /\ UNCHANGED << nature, fate, cancelled, signer, listener, sock, loop,
                        signed, child, lock >>
        /\ loop["encode"] = "running" /\ queue["encode"] # << >>
        /\ hand["encode"] = None /\ hand' = [hand EXCEPT !["encode"] = m]
        /\ Get("encode")
    BY <1>2, <2>1 DEF Recv, Get
  <2>3. /\ hand' \in [Busy -> Msgs \cup {None}] /\ hand'["encode"] = m
        /\ hand'["listen"] = hand["listen"] /\ hand'["send"] = hand["send"]
    BY <1>0, <2>2 DEF Busy
  <2>5. ASSUME NEW x \in Msgs, NEW s \in Hands
        PROVE  Holds(s, x)' <=> Holds(s, x) \/ (x = m /\ s = "encoding")
    <3>1. /\ x # None /\ m # None /\ child' = child
          /\ s \in {"listening", "child", "encoding", "sending"}
          /\ hand["encode"] = None /\ hand'["encode"] = m
          /\ hand'["listen"] = hand["listen"] /\ hand'["send"] = hand["send"]
      BY <2>1, <2>2, <2>3, NoneAssumption DEF Hands
    <3> QED
      BY ONLY <3>1 DEF Holds
  <2>6. /\ OneStation' /\ QueuedOnce'
        /\ queue' \in [Loops -> Seq(Msgs)]
        /\ \A u \in Loops : Len(queue'[u]) <= Capacity
        /\ \A u \in Loops \ {"encode"} : queue'[u] = queue[u]
    BY <1>0, <2>1, <2>2, <2>5, ComesOut
  <2>7. TypeOK' /\ LockHeldByHandler' /\ PlainLostOnly'
    BY <2>2, <2>3, <2>6 DEF TypeOK, LockHeldByHandler, PlainLostOnly
  <2>8. TasksInStep'
    <3>1. Waiting' = Waiting /\ m # None
      BY <2>2, NoneAssumption DEF Waiting
    <3> QED
      BY <2>2, <2>3, <2>6, <3>1 DEF TasksInStep, Loops, Busy
  <2> QED
    BY <2>6, <2>7, <2>8
<1>3. CASE Recv("send")
  <2>1. PICK m \in Msgs : m = Head(queue["send"])
    BY <1>0, <1>3, TakeQueued DEF Recv
  <2>2. /\ UNCHANGED << nature, fate, cancelled, signer, listener, sock, loop,
                        signed, child, lock >>
        /\ loop["send"] = "running" /\ queue["send"] # << >>
        /\ hand["send"] = None /\ hand' = [hand EXCEPT !["send"] = m]
        /\ Get("send")
    BY <1>3, <2>1 DEF Recv, Get
  <2>3. /\ hand' \in [Busy -> Msgs \cup {None}] /\ hand'["send"] = m
        /\ hand'["listen"] = hand["listen"] /\ hand'["encode"] = hand["encode"]
    BY <1>0, <2>2 DEF Busy
  <2>5. ASSUME NEW x \in Msgs, NEW s \in Hands
        PROVE  Holds(s, x)' <=> Holds(s, x) \/ (x = m /\ s = "sending")
    <3>1. /\ x # None /\ m # None /\ child' = child
          /\ s \in {"listening", "child", "encoding", "sending"}
          /\ hand["send"] = None /\ hand'["send"] = m
          /\ hand'["listen"] = hand["listen"] /\ hand'["encode"] = hand["encode"]
      BY <2>1, <2>2, <2>3, NoneAssumption DEF Hands
    <3> QED
      BY ONLY <3>1 DEF Holds
  <2>6. /\ OneStation' /\ QueuedOnce'
        /\ queue' \in [Loops -> Seq(Msgs)]
        /\ \A u \in Loops : Len(queue'[u]) <= Capacity
        /\ \A u \in Loops \ {"send"} : queue'[u] = queue[u]
    BY <1>0, <2>1, <2>2, <2>5, ComesOut
  <2>7. TypeOK' /\ LockHeldByHandler' /\ PlainLostOnly'
    BY <2>2, <2>3, <2>6 DEF TypeOK, LockHeldByHandler, PlainLostOnly
  <2>8. TasksInStep'
    <3>1. Waiting' = Waiting /\ m # None
      BY <2>2, NoneAssumption DEF Waiting
    <3> QED
      BY <2>2, <2>3, <2>6, <3>1 DEF TasksInStep, Loops, Busy
  <2> QED
    BY <2>6, <2>7, <2>8
<1> QED
  BY <1>1, <1>2, <1>3

(***************************************************************************)
(* The steps with which a message leaves the node.                         *)
(***************************************************************************)
LEMMA LeaveSteps ==
  ASSUME IInv,
         \/ PushHandleFails \/ EncodeFails \/ PushSendFails \/ SendTo \/ SendToFails
         \/ \E m \in Msgs : PushEncodeFails(m) \/ HandleFails(m)
  PROVE  IInv'
<1> USE DEF IInv
<1>0. /\ hand \in [Busy -> Msgs \cup {None}]
      /\ child \in [Msgs -> {"none", "lock", "handling", "push"}]
      /\ "dropped" \in Fates \ {"in"}
      /\ "answered" \in Fates \ {"in"}
      /\ "listen" \in Busy /\ "encode" \in Busy /\ "send" \in Busy
  BY DEF TypeOK, Fates, Busy
<1>1. CASE PushHandleFails
  <2>1. PICK m \in Msgs : m = hand["listen"]
    BY <1>0, <1>1 DEF PushHandleFails, TasksInStep
  <2>2. /\ UNCHANGED << nature, cancelled, signer, sock, loop, queue, signed,
                        child, lock >>
        /\ hand' = [hand EXCEPT !["listen"] = None]
        /\ fate' = [fate EXCEPT ![m] = "dropped"]
        /\ listener' = "bind" /\ cancelled
    BY <1>1, <2>1 DEF PushHandleFails, Drop, TasksInStep, Loops
  <2>3. /\ OneStation' /\ QueuedOnce'
        /\ hand' \in [Busy -> Msgs \cup {None}] /\ fate' \in [Msgs -> Fates]
        /\ \A x \in Waiting' : fate'[x] = "arrived"
    BY <1>0, <2>1, <2>2, Leaves
  <2>4. hand'["listen"] = None /\ \A b \in Busy \ {"listen"} : hand'[b] = hand[b]
    BY <1>0, <2>2
  <2>5. TypeOK' /\ LockHeldByHandler' /\ PlainLostOnly'
    BY <2>2, <2>3 DEF TypeOK, LockHeldByHandler, PlainLostOnly
  <2>6. TasksInStep'
    BY <2>2, <2>3, <2>4 DEF TasksInStep, Loops, Busy
  <2> QED
    BY <2>3, <2>5, <2>6
<1>2. CASE EncodeFails
  <2>1. PICK m \in Msgs : m = hand["encode"]
    BY <1>0, <1>2 DEF EncodeFails
  <2>2. /\ UNCHANGED << nature, cancelled, signer, listener, sock, loop, queue,
                        signed, child, lock >>
        /\ hand' = [hand EXCEPT !["encode"] = None]
        /\ fate' = [fate EXCEPT ![m] = "dropped"]
        /\ ~ signed /\ (nature[m] = "oversize" \/ signer = "down")
    BY <1>2, <2>1 DEF EncodeFails, Drop
  <2>3. /\ OneStation' /\ QueuedOnce'
        /\ hand' \in [Busy -> Msgs \cup {None}] /\ fate' \in [Msgs -> Fates]
        /\ \A x \in Msgs \ {m} : fate'[x] = fate[x]
        /\ \A x \in Waiting' : fate'[x] = "arrived"
    BY <1>0, <2>1, <2>2, Leaves
  <2>4. hand'["encode"] = None /\ \A b \in Busy \ {"encode"} : hand'[b] = hand[b]
    BY <1>0, <2>2
  <2>5. TypeOK' /\ LockHeldByHandler' /\ PlainLostOnly'
    BY <2>2, <2>3 DEF TypeOK, LockHeldByHandler, PlainLostOnly
  <2>6. TasksInStep'
    BY <2>2, <2>3, <2>4 DEF TasksInStep, Loops, Busy
  <2> QED
    BY <2>3, <2>5, <2>6
<1>3. CASE PushSendFails
  <2>1. PICK m \in Msgs : m = hand["encode"]
    BY <1>0, <1>3 DEF PushSendFails, TasksInStep
  <2>2. /\ UNCHANGED << nature, cancelled, signer, listener, sock, loop, queue,
                        child, lock >>
        /\ hand' = [hand EXCEPT !["encode"] = None]
        /\ fate' = [fate EXCEPT ![m] = "dropped"]
        /\ signed' = FALSE /\ cancelled
    BY <1>3, <2>1 DEF PushSendFails, Drop, TasksInStep, Loops
  <2>3. /\ OneStation' /\ QueuedOnce'
        /\ hand' \in [Busy -> Msgs \cup {None}] /\ fate' \in [Msgs -> Fates]
        /\ \A x \in Waiting' : fate'[x] = "arrived"
    BY <1>0, <2>1, <2>2, Leaves
  <2>4. hand'["encode"] = None /\ \A b \in Busy \ {"encode"} : hand'[b] = hand[b]
    BY <1>0, <2>2
  <2>5. TypeOK' /\ LockHeldByHandler' /\ PlainLostOnly'
    BY <2>2, <2>3 DEF TypeOK, LockHeldByHandler, PlainLostOnly
  <2>6. TasksInStep'
    BY <2>2, <2>3, <2>4 DEF TasksInStep, Loops, Busy
  <2> QED
    BY <2>3, <2>5, <2>6
<1>4. CASE SendTo \/ SendToFails
  <2>1. PICK m \in Msgs : m = hand["send"]
    BY <1>0, <1>4 DEF SendTo, SendToFails
  <2>2. PICK f \in {"answered", "dropped"} :
          /\ UNCHANGED << nature, cancelled, signer, listener, sock, loop, queue,
                          signed, child, lock >>
          /\ hand' = [hand EXCEPT !["send"] = None]
          /\ fate' = [fate EXCEPT ![m] = f]
          /\ f = "dropped" => nature[m] # "plain"
    BY <1>4, <2>1 DEF SendTo, SendToFails, Drop
  <2>3. /\ OneStation' /\ QueuedOnce'
        /\ hand' \in [Busy -> Msgs \cup {None}] /\ fate' \in [Msgs -> Fates]
        /\ fate'[m] = f /\ \A x \in Msgs \ {m} : fate'[x] = fate[x]
        /\ \A x \in Waiting' : fate'[x] = "arrived"
    BY <1>0, <2>1, <2>2, Leaves
  <2>4. hand'["send"] = None /\ \A b \in Busy \ {"send"} : hand'[b] = hand[b]
    BY <1>0, <2>2
  <2>5. TypeOK' /\ LockHeldByHandler' /\ PlainLostOnly'
    BY <2>2, <2>3 DEF TypeOK, LockHeldByHandler, PlainLostOnly
  <2>6. TasksInStep'
    BY <2>2, <2>3, <2>4 DEF TasksInStep, Loops, Busy
  <2> QED
    BY <2>3, <2>5, <2>6
<1>5. ASSUME NEW m \in Msgs, PushEncodeFails(m) \/ HandleFails(m)
      PROVE  IInv'
  <2>1. /\ UNCHANGED << nature, cancelled, signer, listener, sock, loop, queue,
                        hand, signed >>
        /\ child[m] # "none" /\ child' = [child EXCEPT ![m] = "none"]
        /\ fate' = [fate EXCEPT ![m] = "dropped"]
    BY <1>5 DEF PushEncodeFails, HandleFails, Drop
  <2>2. /\ OneStation' /\ QueuedOnce'
        /\ child' \in [Msgs -> {"none", "lock", "handling", "push"}]
        /\ fate' \in [Msgs -> Fates]
        /\ \A x \in Msgs \ {m} : fate'[x] = fate[x]
        /\ \A x \in Waiting' : fate'[x] = "arrived"
    <3>1. UNCHANGED << sock, queue >> /\ UNCHANGED hand
      BY <2>1
    <3> QED
      BY <1>0, <2>1, <3>1, Leaves
  <2>3. child'[m] = "none" /\ \A x \in Msgs \ {m} : child'[x] = child[x]
    BY <1>0, <2>1
  <2>4. lock' \in Msgs \cup {None} /\ LockHeldByHandler'
    <3>1. CASE PushEncodeFails(m)
      BY <2>3, <3>1 DEF PushEncodeFails, LockHeldByHandler, TypeOK
    <3>2. CASE HandleFails(m)
      <4>1. lock = m /\ lock' = None
        BY <3>2 DEF HandleFails, LockHeldByHandler
      <4>2. \A x \in Msgs : child'[x] # "handling" /\ lock' # x
        BY <2>3, <4>1, NoneAssumption DEF LockHeldByHandler
      <4> QED
        BY <4>1, <4>2 DEF LockHeldByHandler
    <3> QED
      BY <1>5, <3>1, <3>2
  <2>5. nature[m] = "plain" => cancelled
    BY <1>5 DEF PushEncodeFails, HandleFails, TasksInStep, Loops
  <2>6. TypeOK' /\ PlainLostOnly'
    BY <2>1, <2>2, <2>4, <2>5 DEF TypeOK, PlainLostOnly
  <2>7. TasksInStep'
    BY <2>1, <2>2 DEF TasksInStep
  <2> QED
    BY <2>2, <2>4, <2>6, <2>7
<1> QED
  BY <1>1, <1>2, <1>3, <1>4, <1>5

(***************************************************************************)
(* The steps that only change who waits for what.                          *)
(***************************************************************************)
LEMMA QuietSteps ==
  ASSUME IInv,
         \/ Cancel \/ SignerStops \/ Sign \/ UNCHANGED vars
         \/ \E m \in Msgs : LockRegister(m) \/ HandleOk(m)
  PROVE  IInv'
<1> USE DEF IInv
<1>0. child \in [Msgs -> {"none", "lock", "handling", "push"}]
  BY DEF TypeOK
<1>1. CASE Cancel \/ SignerStops \/ Sign \/ UNCHANGED vars
  <2>1. /\ UNCHANGED << nature, fate, listener, sock, loop, queue, hand, child, lock >>
        /\ cancelled' \in BOOLEAN /\ (cancelled => cancelled')
        /\ signer' \in {"up", "down"} /\ (signer = "down" => signer' = "down")
        /\ signed' \in BOOLEAN /\ (signed' => hand["encode"] # None)
    <3>1. cancelled \in BOOLEAN /\ signer \in {"up", "down"} /\ signed \in BOOLEAN
      BY DEF TypeOK
    <3>2. signed => hand["encode"] # None
      BY DEF TasksInStep
    <3>3. CASE Cancel
      BY <3>1, <3>2, <3>3 DEF Cancel
    <3>4. CASE SignerStops
      BY <3>1, <3>2, <3>4 DEF SignerStops
    <3>5. CASE Sign
      BY <3>1, <3>5 DEF Sign
    <3>6. CASE UNCHANGED vars
      BY <3>1, <3>2, <3>6 DEF vars
    <3> QED
      BY <1>1, <3>3, <3>4, <3>5, <3>6
  <2>2. OneStation' /\ QueuedOnce'
    BY <2>1, NothingMoves
  <2>3. TypeOK' /\ LockHeldByHandler' /\ PlainLostOnly'
    BY <2>1 DEF TypeOK, LockHeldByHandler, PlainLostOnly
  <2>4. TasksInStep'
    <3>1. Waiting' = Waiting
      BY <2>1 DEF Waiting
    <3> QED
      BY <2>1, <3>1 DEF TasksInStep
  <2> QED
    BY <2>2, <2>3, <2>4
<1>2. ASSUME NEW m \in Msgs, LockRegister(m) \/ HandleOk(m) PROVE IInv'
  <2>1. /\ UNCHANGED << nature, fate, cancelled, signer, listener, sock, loop,
                        queue, hand, signed >>
        /\ child[m] # "none"
        /\ \E c \in {"handling", "push"} : child' = [child EXCEPT ![m] = c]
        /\ lock' \in {m, None}
    BY <1>2 DEF LockRegister, HandleOk
  <2>2. /\ child' \in [Msgs -> {"none", "lock", "handling", "push"}]
        /\ \A x \in Msgs : child'[x] = "none" <=> child[x] = "none"
    BY <1>0, <2>1
  <2>3. OneStation' /\ QueuedOnce'
    BY <2>1, <2>2, NothingMoves
  <2>4. LockHeldByHandler'
    <3>1. CASE LockRegister(m)
      <4>1. /\ lock = None /\ lock' = m
            /\ child'[m] = "handling" /\ \A x \in Msgs \ {m} : child'[x] = child[x]
        BY <1>0, <3>1 DEF LockRegister
      <4> QED
        BY <4>1, NoneAssumption DEF LockHeldByHandler
    <3>2. CASE HandleOk(m)
      <4>1. /\ lock = m /\ lock' = None
            /\ child'[m] = "push" /\ \A x \in Msgs \ {m} : child'[x] = child[x]
        BY <1>0, <3>2 DEF HandleOk, LockHeldByHandler
      <4> QED
        BY <4>1, NoneAssumption DEF LockHeldByHandler
    <3> QED
      BY <1>2, <3>1, <3>2
  <2>5. TypeOK' /\ PlainLostOnly'
    BY <2>1, <2>2 DEF TypeOK, PlainLostOnly
  <2>6. TasksInStep'
    <3>1. Waiting' = Waiting
      BY <2>1 DEF Waiting
    <3> QED
      BY <2>1, <3>1 DEF TasksInStep
  <2> QED
    BY <2>3, <2>4, <2>5, <2>6
<1> QED
  BY <1>1, <1>2

(***************************************************************************)
(* A loop that ends takes with it the messages of its channel, which are   *)
(* nowhere else.                                                           *)
(***************************************************************************)
LEMMA StopSteps ==
  ASSUME IInv, NEW t \in Loops, Stop(t)
  PROVE  IInv' /\ \A m \in Members(queue[t]) : m \in Msgs /\ fate[m] = "in"
<1> USE DEF IInv
<1>1. /\ UNCHANGED << nature, cancelled, signer, listener, sock, hand, signed,
                      child, lock >>
      /\ cancelled /\ (t \in Busy => hand[t] = None)
      /\ queue' = [queue EXCEPT ![t] = << >>]
      /\ loop' = [loop EXCEPT ![t] = "ended"]
      /\ fate' = [m \in Msgs |-> IF m \in Members(queue[t]) THEN "dropped"
                                 ELSE fate[m]]
  BY DEF Stop, EndLoop, Queued, Members
<1>2. /\ queue' \in [Loops -> Seq(Msgs)]
      /\ \A u \in Loops : Len(queue'[u]) <= Capacity
      /\ \A u \in Loops : Members(queue'[u]) = IF u = t THEN {} ELSE Members(queue[u])
      /\ queue'[t] = << >>
      /\ \A u \in Loops \ {t} : queue'[u] = queue[u]
      /\ QueuedOnce'
  BY <1>1, DropQueued
<1>3. /\ loop' \in [Loops -> {"running", "ended"}]
      /\ \A u \in Loops \ {t} : loop'[u] = loop[u]
  BY <1>1 DEF TypeOK
<1>4. ASSUME NEW m \in Msgs, m \in Members(queue[t])
      PROVE  /\ fate[m] = "in"
             /\ \A s \in Stations : Holds(s, m) <=> s = Channel(t)
  BY <1>4, InChannel, Channels, HeldThere
<1>5. /\ fate' \in [Msgs -> Fates] /\ fate \in [Msgs -> Fates]
      /\ \A m \in Msgs : fate'[m] = IF m \in Members(queue[t]) THEN "dropped"
                                    ELSE fate[m]
  BY <1>1 DEF TypeOK, Fates
<1>6. \A x \in Msgs, s \in Hands : Holds(s, x)' <=> Holds(s, x)
  <2> TAKE x \in Msgs, s \in Hands
  <2>1. s \in {"listening", "child", "encoding", "sending"} /\ hand' = hand
        /\ child' = child
    BY <1>1 DEF Hands
  <2> QED
    BY ONLY <2>1 DEF Holds
<1>7. \A x \in Msgs, u \in Loops :
        Holds(Channel(u), x)' <=> Holds(Channel(u), x) /\ u # t
  BY <1>2, InChannel
<1>8. ASSUME NEW m \in Msgs, m \in Members(queue[t]), NEW s \in Stations
      PROVE  ~ Holds(s, m)'
  BY <1>4, <1>6, <1>7, <1>8, Channels
<1>9. ASSUME NEW m \in Msgs, m \notin Members(queue[t]), NEW s \in Stations
      PROVE  Holds(s, m)' <=> Holds(s, m)
  <2>1. ~ Holds(Channel(t), m)
    BY <1>9, InChannel
  <2> QED
    BY <1>6, <1>7, <2>1, Channels
<1>10. OneStation'
  BY <1>5, <1>8, <1>9, StationsKept
<1>11. TypeOK' /\ LockHeldByHandler' /\ PlainLostOnly'
  BY <1>1, <1>2, <1>3, <1>5 DEF TypeOK, LockHeldByHandler, PlainLostOnly
<1>12. TasksInStep'
  <2>1. Waiting' = Waiting
    BY <1>1 DEF Waiting
  <2>2. \A m \in Waiting' : fate'[m] = "arrived"
    <3>1. \A m \in Waiting : fate[m] = "arrived"
      BY DEF TasksInStep
    <3>2. \A m \in Waiting : m \in Msgs
      BY DEF TypeOK, Waiting
    <3> QED
      BY <1>4, <1>5, <2>1, <3>1, <3>2
  <2> QED
    BY <1>1, <1>2, <1>3, <2>2 DEF TasksInStep
<1>13. \A m \in Members(queue[t]) : m \in Msgs
  BY DEF TypeOK, Members
<1> QED
  BY <1>2, <1>4, <1>10, <1>11, <1>12, <1>13

(***************************************************************************)
(* All steps together: the invariant is inductive.                         *)
(***************************************************************************)
LEMMA NextKeepsInv == IInv /\ [Next]_vars => IInv'
<1> SUFFICES ASSUME IInv, [Next]_vars PROVE IInv'
  OBVIOUS
<1>1. ASSUME NEW m \in Msgs, Arrive(m) \/ ArriveUnheard(m) \/ Child(m) PROVE IInv'
  BY <1>1, NetworkSteps, PushSteps, LeaveSteps, QuietSteps DEF Child
<1>2. CASE Listener \/ BindFails \/ ReceiveFails \/ StopListener
  BY <1>2, ListenerSteps, PushSteps, LeaveSteps DEF Listener
<1>3. CASE StartChild \/ Encoder \/ Sender
  BY <1>3, RecvSteps, PushSteps, LeaveSteps, QuietSteps DEF Encoder, Sender
<1>4. ASSUME NEW t \in Loops, RecvNone(t) \/ Stop(t) PROVE IInv'
  BY <1>4, StopSteps, QuietSteps DEF RecvNone
<1>5. CASE Cancel \/ SignerStops \/ UNCHANGED vars
  BY <1>5, QuietSteps
<1> QED
  BY <1>1, <1>2, <1>3, <1>4, <1>5 DEF Next

(***************************************************************************)
(* The inductive invariant.                                                *)
(***************************************************************************)
THEOREM PipelineInductive == Spec => []IInv
BY Initially, NextKeepsInv, PTL DEF Spec

-----------------------------------------------------------------------------
(***************************************************************************)
(* The places of a message, one by one; and that two of them are one.      *)
(***************************************************************************)
HandOf(b) == CASE b = "listen" -> "listening"
               [] b = "encode" -> "encoding"
               [] b = "send"   -> "sending"

(***************************************************************************)
(* The stations that are hands, by whose hand it is.                       *)
(***************************************************************************)
LEMMA HandsOfTasks ==
  ASSUME NEW m \in Msgs
  PROVE  /\ \A b \in Busy : HandOf(b) \in Hands \ {"child"}
         /\ \A b, c \in Busy : HandOf(b) = HandOf(c) => b = c
         /\ \A b \in Busy : hand[b] = m => Holds(HandOf(b), m)
         /\ child[m] # "none" => Holds("child", m)
         /\ "child" \in Hands
         /\ \A s \in Hands : Holds(s, m) =>
              \/ \E b \in Busy : s = HandOf(b) /\ hand[b] = m
              \/ s = "child" /\ child[m] # "none"
<1>1. /\ \A b \in Busy : HandOf(b) \in Hands \ {"child"}
      /\ \A b, c \in Busy : HandOf(b) = HandOf(c) => b = c
      /\ "child" \in Hands
  BY DEF HandOf, Hands, Busy
<1>2. ASSUME NEW b \in Busy, hand[b] = m PROVE Holds(HandOf(b), m)
  <2>1. b = "listen" \/ b = "encode" \/ b = "send"
    BY DEF Busy
  <2> QED
    BY ONLY <1>2, <2>1 DEF HandOf, Holds
<1>3. child[m] # "none" => Holds("child", m)
  BY ONLY TRUE DEF Holds
<1>4. ASSUME NEW s \in Hands, Holds(s, m)
      PROVE  \/ \E b \in Busy : s = HandOf(b) /\ hand[b] = m
             \/ s = "child" /\ child[m] # "none"
  <2>1. /\ s \in {"listening", "child", "encoding", "sending"}
        /\ "listen" \in Busy /\ "encode" \in Busy /\ "send" \in Busy
        /\ HandOf("listen") = "listening" /\ HandOf("encode") = "encoding"
        /\ HandOf("send") = "sending"
    BY DEF Hands, Busy, HandOf
  <2>2. \/ s = "listening" /\ hand["listen"] = m
        \/ s = "child" /\ child[m] # "none"
        \/ s = "encoding" /\ hand["encode"] = m
        \/ s = "sending" /\ hand["send"] = m
    BY ONLY <1>4, <2>1 DEF Holds
  <2> QED
    BY ONLY <2>1, <2>2
<1> QED
  BY <1>1, <1>2, <1>3, <1>4

(***************************************************************************)
(* Cardinality counts what IInv says of stations: a message that has been  *)
(* accepted is in one place.                                               *)
(***************************************************************************)
LEMMA OnePlace ==
  ASSUME IInv, NEW m \in Msgs
  PROVE  Cardinality(Places(m)) = IF fate[m] = "in" THEN 1 ELSE 0
<1> DEFINE Rank(t) == {j \in 1 .. Len(queue[t]) : queue[t][j] = m}
<1>1. \A p : p \in Places(m) <=>
        \/ \E b \in Busy : p = << b >> /\ hand[b] = m
        \/ p = << "child", m >> /\ child[m] # "none"
        \/ \E t \in Loops : \E i \in Rank(t) : p = << t, i >>
  BY DEF Places
<1>2. \A t \in Loops : /\ m \in Members(queue[t]) <=> Rank(t) # {}
                       /\ \A i, j \in Rank(t) : i = j
  BY DEF IInv, QueuedOnce, NoneTwice, Members
<1> HIDE DEF Rank
<1>3. ASSUME NEW b \in Busy, hand[b] = m
      PROVE  fate[m] = "in" /\ Places(m) = {<< b >>}
  <2>1. /\ fate[m] = "in"
        /\ \A s \in Stations : Holds(s, m) <=> s = HandOf(b)
    BY <1>3, HandsOfTasks, Channels, HeldThere DEF IInv
  <2>2. \A c \in Busy : hand[c] = m => c = b
    BY <2>1, HandsOfTasks, Channels
  <2>3. child[m] = "none"
    BY <2>1, HandsOfTasks, Channels
  <2>4. \A t \in Loops : Rank(t) = {}
    BY <1>2, <2>1, InChannel, HandsOfTasks, Channels
  <2>5. \A p : p \in Places(m) <=> p = << b >>
    BY <1>1, <1>3, <2>2, <2>3, <2>4
  <2> QED
    BY <2>1, <2>5
<1>4. ASSUME child[m] # "none"
      PROVE  fate[m] = "in" /\ Places(m) = {<< "child", m >>}
  <2>1. /\ fate[m] = "in"
        /\ \A s \in Stations : Holds(s, m) <=> s = "child"
    BY <1>4, HandsOfTasks, Channels, HeldThere DEF IInv
  <2>2. \A c \in Busy : hand[c] # m
    BY <2>1, HandsOfTasks, Channels
  <2>3. \A t \in Loops : Rank(t) = {}
    BY <1>2, <2>1, InChannel, HandsOfTasks, Channels
  <2>4. \A p : p \in Places(m) <=> p = << "child", m >>
    BY <1>1, <1>4, <2>2, <2>3
  <2> QED
    BY <2>1, <2>4
<1>5. ASSUME NEW t \in Loops, NEW i \in Rank(t)
      PROVE  fate[m] = "in" /\ Places(m) = {<< t, i >>}
  <2>1. /\ fate[m] = "in"
        /\ \A s \in Stations : Holds(s, m) <=> s = Channel(t)
    BY <1>2, <1>5, InChannel, Channels, HeldThere DEF IInv
  <2>2. \A c \in Busy : hand[c] # m
    BY <2>1, HandsOfTasks, Channels
  <2>3. child[m] = "none"
    BY <2>1, HandsOfTasks, Channels
  <2>4. \A u \in Loops : Rank(u) # {} => u = t
    BY <1>2, <2>1, InChannel, Channels
  <2>5. \A p : p \in Places(m) <=> p = << t, i >>
    BY <1>1, <1>2, <1>5, <2>2, <2>3, <2>4
  <2> QED
    BY <2>1, <2>5
<1>6. ASSUME \A b \in Busy : hand[b] # m, child[m] = "none",
             \A t \in Loops : Rank(t) = {}
      PROVE  fate[m] # "in" /\ Places(m) = {}
  <2>1. Places(m) = {}
    BY <1>1, <1>6
  <2>2. ASSUME NEW s \in Stations PROVE ~ Holds(s, m)
    <3>1. CASE s \in Hands
      BY <1>6, <3>1, HandsOfTasks
    <3>2. ASSUME NEW t \in Loops, s = Channel(t) PROVE ~ Holds(s, m)
      BY <1>2, <1>6, <3>2, InChannel
    <3> QED
      BY <3>1, <3>2, Channels
  <2> QED
    BY <2>1, <2>2 DEF IInv, OneStation
<1>7. (\E p : Places(m) = {p}) => Cardinality(Places(m)) = 1
  BY FS_Singleton
<1>8. Places(m) = {} => Cardinality(Places(m)) = 0
  BY FS_EmptySet
<1> QED
  BY <1>3, <1>4, <1>5, <1>6, <1>7, <1>8

(***************************************************************************)
(* The pipeline loses no message on an error path, answers none twice,     *)
(* keeps its channels within their capacity and gives the mutex back:      *)
(* for any messages, in any order of arrival, and every capacity.          *)
(***************************************************************************)
THEOREM PipelineInvAlways == Spec => []PipelineInv
<1>1. ASSUME IInv, NEW m \in Msgs
      PROVE  Cardinality(Places(m)) = IF fate[m] = "in" THEN 1 ELSE 0
  BY <1>1, OnePlace
<1>2. ASSUME IInv PROVE EachInOnePlace
  <2>1. \A m \in Msgs : Cardinality(Places(m)) = IF fate[m] = "in" THEN 1 ELSE 0
    BY <1>1, <1>2
  <2>2. \A t \in Loops : loop[t] = "ended" => queue[t] = << >>
    BY <1>2 DEF IInv, TasksInStep
  <2>3. \A t \in Loops \cap Busy : hand[t] # None => loop[t] = "running"
    BY <1>2 DEF IInv, TasksInStep
  <2> QED
    BY ONLY <2>1, <2>2, <2>3 DEF EachInOnePlace
<1>3. IInv => PipelineInv
  BY <1>2 DEF IInv, PipelineInv
<1> QED
  BY <1>3, PipelineInductive, PTL

(***************************************************************************)
(* A plain message, whose handler succeeds and whose response fits and can *)
(* be sent, is given up only after a cancellation, or when nobody signs    *)
(* any more: the other messages cannot make the node drop it.              *)
(***************************************************************************)
THEOREM PlainLostOnlyAlways == Spec => []PlainLostOnly
BY PipelineInductive, PTL DEF IInv

-----------------------------------------------------------------------------
(***************************************************************************)
(* What a step does to the fate of the messages: on the network side       *)
(* nothing that a caller who reached the socket could see; else one        *)
(* message is accepted, answered or given up, or a loop ends.              *)
(***************************************************************************)
Outside == {"unsent", "arrived", "lost"}

SameCalls(other) ==
  \A m \in Msgs \ other :
    fate'[m] = fate[m] \/ (fate[m] \in Outside /\ fate'[m] \in Outside)

(***************************************************************************)
(* Every step is one of these four.                                        *)
(***************************************************************************)
LEMMA FateSteps ==
  ASSUME IInv, [Next]_vars
  PROVE  \/ UNCHANGED loop /\ SameCalls({})
         \/ /\ UNCHANGED loop
            /\ \E m \in Msgs : /\ fate[m] \in Outside /\ fate'[m] = "in"
                               /\ SameCalls({m})
         \/ /\ UNCHANGED loop
            /\ \E m \in Msgs :
                 /\ fate[m] = "in"
                 /\ fate'[m] = "dropped"
                      \/ (fate'[m] = "answered" /\ loop["send"] = "running")
                 /\ SameCalls({m})
         \/ \E t \in Loops : Stop(t)
<1> USE DEF IInv
<1>0. /\ fate \in [Msgs -> Fates] /\ hand \in [Busy -> Msgs \cup {None}]
      /\ child \in [Msgs -> {"none", "lock", "handling", "push"}]
      /\ "listen" \in Busy /\ "encode" \in Busy /\ "send" \in Busy
  BY DEF TypeOK, Busy
<1>1. ASSUME UNCHANGED << fate, loop >> PROVE UNCHANGED loop /\ SameCalls({})
  BY <1>1 DEF SameCalls
<1>2. ASSUME NEW m \in Msgs, Arrive(m) \/ ArriveUnheard(m)
      PROVE  UNCHANGED loop /\ SameCalls({})
  <2>1. /\ UNCHANGED loop /\ fate[m] = "unsent"
        /\ \E f \in Outside : fate' = [fate EXCEPT ![m] = f]
    BY <1>2 DEF Arrive, ArriveUnheard, Outside
  <2> QED
    BY <1>0, <2>1 DEF SameCalls, Outside
<1>3. CASE Take \/ ReceiveFails \/ StopListener
  <2>1. \A m \in Waiting : fate[m] = "arrived"
    BY DEF TasksInStep
  <2>2. ASSUME NEW taken, CloseSocket(taken) PROVE SameCalls(taken)
    BY <2>1, <2>2 DEF CloseSocket, SameCalls, Outside
  <2>3. UNCHANGED loop
    BY <1>3 DEF Take, ReceiveFails, StopListener
  <2>4. CASE Take
    <3>1. sock \in Seq(Msgs) /\ sock # << >>
      BY <2>4 DEF Take, TypeOK
    <3>2. Head(sock) \in Msgs /\ Head(sock) = sock[1] /\ 1 \in 1 .. Len(sock)
      BY <3>1
    <3>3. PICK m \in Msgs : m = Head(sock) /\ m \in Waiting
      BY <3>2 DEF Waiting
    <3>4. CloseSocket({m})
      BY <2>4, <3>3 DEF Take
    <3>5. fate[m] \in Outside /\ fate'[m] = "in"
      BY <2>1, <3>3, <3>4 DEF CloseSocket, Outside
    <3> QED
      BY <2>2, <2>3, <3>4, <3>5
  <2>5. CASE ReceiveFails \/ StopListener
    BY <2>2, <2>3, <2>5 DEF ReceiveFails, StopListener
  <2> QED
    BY <1>3, <2>4, <2>5
<1>4. ASSUME NEW m \in Msgs, NEW f \in Fates, fate' = [fate EXCEPT ![m] = f]
      PROVE  fate'[m] = f /\ SameCalls({m})
  BY <1>0, <1>4 DEF SameCalls
<1>5. ASSUME NEW b \in Busy, hand[b] # None
      PROVE  \E m \in Msgs : hand[b] = m /\ fate[m] = "in"
  <2>1. PICK m \in Msgs : hand[b] = m
    BY <1>0, <1>5
  <2>2. fate[m] = "in"
    BY <2>1, HandsOfTasks, Channels, HeldThere
  <2> QED
    BY <2>1, <2>2
<1>6. "dropped" \in Fates /\ "answered" \in Fates
  BY DEF Fates
<1>7. CASE PushHandleFails
  <2>1. PICK m \in Msgs : hand["listen"] = m /\ fate[m] = "in"
    BY <1>0, <1>5, <1>7 DEF PushHandleFails, TasksInStep
  <2>2. UNCHANGED loop /\ fate' = [fate EXCEPT ![m] = "dropped"]
    BY <1>7, <2>1 DEF PushHandleFails, Drop
  <2> QED
    BY <1>4, <1>6, <2>1, <2>2
<1>8. CASE EncodeFails \/ PushSendFails
  <2>1. PICK m \in Msgs : hand["encode"] = m /\ fate[m] = "in"
    BY <1>0, <1>5, <1>8 DEF EncodeFails, PushSendFails, TasksInStep
  <2>2. UNCHANGED loop /\ fate' = [fate EXCEPT ![m] = "dropped"]
    BY <1>8, <2>1 DEF EncodeFails, PushSendFails, Drop
  <2> QED
    BY <1>4, <1>6, <2>1, <2>2
<1>9. CASE SendTo \/ SendToFails
  <2>1. PICK m \in Msgs : hand["send"] = m /\ fate[m] = "in"
    BY <1>0, <1>5, <1>9 DEF SendTo, SendToFails
  <2>2. PICK f \in {"answered", "dropped"} :
          UNCHANGED loop /\ fate' = [fate EXCEPT ![m] = f]
    BY <1>9, <2>1 DEF SendTo, SendToFails, Drop
  <2>3. loop["send"] = "running"
    BY <1>9 DEF SendTo, SendToFails, TasksInStep, Loops, Busy
  <2>4. fate'[m] = f /\ SameCalls({m})
    BY <1>4, <1>6, <2>2
  <2> QED
    BY <2>1, <2>2, <2>3, <2>4
<1>10. ASSUME NEW m \in Msgs, HandleFails(m) \/ PushEncodeFails(m)
       PROVE  /\ UNCHANGED loop /\ fate[m] = "in"
              /\ fate'[m] = "dropped" /\ SameCalls({m})
  <2>1. /\ child[m] # "none" /\ UNCHANGED loop
        /\ fate' = [fate EXCEPT ![m] = "dropped"]
    BY <1>10 DEF HandleFails, PushEncodeFails, Drop
  <2>2. fate[m] = "in"
    BY <2>1, HandsOfTasks, Channels, HeldThere
  <2> QED
    BY <1>4, <1>6, <2>1, <2>2
<1>11. \/ UNCHANGED << fate, loop >>
       \/ \E m \in Msgs : Arrive(m) \/ ArriveUnheard(m)
       \/ Take \/ ReceiveFails \/ StopListener
       \/ PushHandleFails \/ EncodeFails \/ PushSendFails \/ SendTo \/ SendToFails
       \/ \E m \in Msgs : HandleFails(m) \/ PushEncodeFails(m)
       \/ \E t \in Loops : Stop(t)
  BY DEF Next, vars, Child, Listener, Encoder, Sender, Bind, BindFails,
         PushHandle,
         StartChild, Recv, RecvNone, Cancel, SignerStops, LockRegister, HandleOk,
         PushEncode, Sign, PushSend
<1> QED
  BY <1>1, <1>2, <1>3, <1>7, <1>8, <1>9, <1>10, <1>11

(***************************************************************************)
(* What each step is to the Service.                                       *)
(***************************************************************************)
LEMMA Refines ==
  ASSUME IInv, IInv', [Next]_vars
  PROVE  [Serves!Next]_(Serves!vars)
<1> DEFINE call == [m \in Msgs |-> CallOf(m)]
           up   == loop["send"] = "running"
<1>1. \A m \in Msgs :
        /\ call[m] = CallOf(m) /\ call'[m] = CallOf(m)'
        /\ fate[m] \in Fates /\ fate'[m] \in Fates
  BY DEF IInv, TypeOK
<1>2. \A m \in Msgs :
        /\ fate[m] \in Outside => call[m] = "none"
        /\ fate'[m] \in Outside => call'[m] = "none"
        /\ fate[m] = "in" => call[m] = "open"
        /\ fate'[m] = "in" => call'[m] = "open"
        /\ fate'[m] = "answered" => call'[m] = "answered"
        /\ fate'[m] = "dropped" => call'[m] = "failed"
        /\ fate'[m] = fate[m] => call'[m] = call[m]
  BY <1>1 DEF CallOf, Fates, Outside
<1>3. ASSUME NEW other \in SUBSET Msgs, SameCalls(other)
      PROVE  \A m \in Msgs \ other : call'[m] = call[m]
  BY <1>2, <1>3 DEF SameCalls
<1>4. CASE UNCHANGED loop /\ SameCalls({})
  <2>1. call' = call /\ up' = up
    BY <1>3, <1>4
  <2> QED
    BY <2>1 DEF Serves!vars
<1>5. ASSUME NEW m \in Msgs, UNCHANGED loop, SameCalls({m}),
             fate[m] \in Outside, fate'[m] = "in"
      PROVE  Serves!Begin(m)
  <2>1. call[m] = "none" /\ call'[m] = "open" /\ up' = up
    BY <1>2, <1>5
  <2>2. \A x \in Msgs \ {m} : call'[x] = call[x]
    BY <1>3, <1>5
  <2>3. call' = [call EXCEPT ![m] = "open"]
    BY <2>1, <2>2
  <2> QED
    BY <2>1, <2>3 DEF Serves!Begin
<1>6. ASSUME NEW m \in Msgs, UNCHANGED loop, SameCalls({m}), up,
             fate[m] = "in", fate'[m] = "answered"
      PROVE  Serves!Answer(m)
  <2>1. call[m] = "open" /\ call'[m] = "answered" /\ up' = up
    BY <1>2, <1>6
  <2>2. \A x \in Msgs \ {m} : call'[x] = call[x]
    BY <1>3, <1>6
  <2>3. call' = [call EXCEPT ![m] = "answered"]
    BY <2>1, <2>2
  <2> QED
    BY <1>6, <2>1, <2>3 DEF Serves!Answer
<1>7. ASSUME NEW m \in Msgs, UNCHANGED loop, SameCalls({m}),
             fate[m] = "in", fate'[m] = "dropped"
      PROVE  Serves!Fail({m})
  <2>1. /\ call' = [x \in Msgs |-> IF x \in {m} THEN "failed" ELSE call[x]]
        /\ call[m] = "open" /\ up' = up
    BY <1>2, <1>3, <1>7
  <2> QED
    BY <2>1 DEF Serves!Fail
<1>8. ASSUME NEW t \in Loops, Stop(t)
      PROVE  Members(queue[t]) \in SUBSET Msgs /\ Serves!Fail(Members(queue[t]))
  <2> DEFINE failing == Members(queue[t])
  <2>1. \A m \in failing : m \in Msgs /\ fate[m] = "in"
    BY <1>8, StopSteps
  <2>2. /\ fate' = [m \in Msgs |-> IF m \in failing THEN "dropped" ELSE fate[m]]
        /\ loop' = [loop EXCEPT ![t] = "ended"]
        /\ loop \in [Loops -> {"running", "ended"}] /\ "send" \in Loops
    BY <1>8 DEF Stop, EndLoop, Queued, Members, IInv, TypeOK, Loops
  <2> HIDE DEF failing
  <2>3. call' = [m \in Msgs |-> IF m \in failing THEN "failed" ELSE call[m]]
    BY <1>2, <2>2
  <2>4. up' = up \/ up' = FALSE
    BY <2>2
  <2>5. \A m \in failing : m \in Msgs /\ call[m] = "open"
    BY <1>2, <2>1
  <2> HIDE DEF call, up
  <2>6. Members(queue[t]) = failing
    BY DEF failing
  <2>7. Serves!Fail(failing)
    BY <2>3, <2>4, <2>5 DEF Serves!Fail, call, up
  <2> QED
    BY <2>5, <2>6, <2>7
<1> QED
  BY <1>4, <1>5, <1>6, <1>7, <1>8, FateSteps DEF Serves!Next

(***************************************************************************)
(* The node as a whole is a Service to whoever reaches its socket: what it *)
(* accepted is answered at most once, and not after task 4 has ended.      *)
(***************************************************************************)
THEOREM NodeImplementsService == Spec => ServesMessages
<1>1. Init => Serves!Init
  BY DEF Init, Serves!Init, CallOf, Loops
<1>2. IInv /\ IInv' /\ [Next]_vars => [Serves!Next]_(Serves!vars)
  BY Refines
<1> QED
  BY <1>1, <1>2, PipelineInductive, PTL DEF Spec, ServesMessages, Serves!Spec
-----------------------------------------------------------------------------
(***************************************************************************)
(* The other half of node.rs: make_new, on a state of its own.             *)
(***************************************************************************)
(***************************************************************************)
(* What makes the invariants of make_new inductive: where a datagram comes *)
(* from, whose turn on the port it is, and what a call has found out when  *)
(* it waits for the introduction.                                          *)
(***************************************************************************)
LiveSeen == \A a \in alive : Host[a] \in been_up

NetFromSeen ==
  \A d \in net : d.host \in HostsSeen /\ (d.addr # 0 => d.host = Host[d.addr])

CallInStep ==
  /\ pc # "idle" => friend \notin {"stranger", "no address"} /\ result = "none"
  /\ pc = "listening" => Available # {} /\ friend # "no name"

IntroInv ==
  /\ IntroTypeOK
  /\ LiveSeen
  /\ NetFromSeen
  /\ PortFree
  /\ CallInStep
  /\ AvailableHostSeen
  /\ IntroducedByFriend

(***************************************************************************)
(* Whatever a step puts on the network comes from a host at which a node   *)
(* has been up, under one of its addresses.                                *)
(***************************************************************************)
LEMMA Sent ==
  ASSUME NetFromSeen, net \in SUBSET Datagram, alive \in SUBSET Addrs,
         UNCHANGED been_up, been_up \in SUBSET {Host[a] : a \in Addrs},
         NEW d, net' = net \cup {d},
         d.host \in HostsSeen, d.addr \in Sources(d.host), d.port \in Ports,
         d.kind \in Kinds, d.asked \in BOOLEAN,
         d = [port |-> d.port, host |-> d.host, addr |-> d.addr,
              kind |-> d.kind, asked |-> d.asked]
  PROVE  NetFromSeen' /\ net' \in SUBSET Datagram
<1>1. d.addr \in Addrs \cup {0} /\ (d.addr # 0 => d.host = Host[d.addr])
  BY DEF Sources
<1>2. d.host \in Strangers \cup {Host[a] : a \in Addrs}
  BY DEF HostsSeen
<1>3. d \in Datagram
  BY <1>1, <1>2 DEF Datagram
<1>4. HostsSeen' = HostsSeen
  BY DEF HostsSeen
<1> QED
  BY <1>1, <1>3, <1>4 DEF NetFromSeen

(***************************************************************************)
(* A request of make_new, answered or lost, leaves such datagrams only.    *)
(***************************************************************************)
LEMMA RequestSent ==
  ASSUME IntroInv, UNCHANGED been_up, NEW a, NEW kind \in Kinds,
  Request(a, kind)
  PROVE  NetFromSeen' /\ net' \in SUBSET Datagram
<1>1. /\ NetFromSeen /\ net \in SUBSET Datagram /\ alive \in SUBSET Addrs
      /\ LiveSeen /\ been_up \in SUBSET {Host[x] : x \in Addrs}
  BY DEF IntroInv, IntroTypeOK
<1>2. CASE net' = net
  BY <1>1, <1>2 DEF NetFromSeen, HostsSeen
<1>3. ASSUME NEW s \in Sources(Host[a]), a \in alive,
             net' = net \cup {[port |-> "check", host |-> Host[a], addr |-> s,
                               kind |-> kind, asked |-> TRUE]}
      PROVE  NetFromSeen' /\ net' \in SUBSET Datagram
  <2> DEFINE d == [port |-> "check", host |-> Host[a], addr |-> s,
                   kind |-> kind, asked |-> TRUE]
  <2>1. /\ d.host = Host[a] /\ d.addr = s /\ d.port = "check" /\ d.kind = kind
        /\ d.asked = TRUE
        /\ d = [port |-> d.port, host |-> d.host, addr |-> d.addr,
                kind |-> d.kind, asked |-> d.asked]
    OBVIOUS
  <2>2. d.host \in HostsSeen /\ "check" \in Ports
    BY <1>1, <1>3 DEF HostsSeen, LiveSeen, Ports
  <2>3. net' = net \cup {d}
    BY <1>3
  <2> HIDE DEF d
  <2> QED
    BY <1>1, <1>3, <2>1, <2>2, <2>3, Sent
<1>4. a \notin alive => Answers(a, kind) = {}
  BY DEF Answers
<1> QED
  BY <1>2, <1>3, <1>4 DEF Request, Answers

(***************************************************************************)
(* Before the first call there is no datagram and no socket.               *)
(***************************************************************************)
LEMMA IntroInitially == IntroInit => IntroInv
<1> SUFFICES ASSUME IntroInit PROVE IntroInv
  OBVIOUS
<1>1. IntroTypeOK
  BY DEF IntroInit, IntroTypeOK
<1>2. LiveSeen /\ NetFromSeen /\ PortFree /\ CallInStep /\ IntroducedByFriend
  BY DEF IntroInit, LiveSeen, NetFromSeen, PortFree, CallInStep,
         IntroducedByFriend
<1>3. AvailableHostSeen
  BY DEF IntroInit, AvailableHostSeen, Available
<1> QED
  BY <1>1, <1>2, <1>3 DEF IntroInv

(***************************************************************************)
(* Every step of make_new, of its probes and of the network keeps the      *)
(* invariant.                                                              *)
(***************************************************************************)
LEMMA IntroStep ==
  ASSUME IntroInv, [IntroNext]_introVars
  PROVE  IntroInv'
<1> USE DEF IntroInv
<1>0. /\ probe \in [Addrs -> {"new", "open", "ok", "err"}]
      /\ net \in SUBSET Datagram /\ alive \in SUBSET Addrs
      /\ been_up \in SUBSET {Host[a] : a \in Addrs}
  BY DEF IntroTypeOK
<1>1. ASSUME UNCHANGED been_up, net' = net \/ \E d \in net : net' = net \ {d}
      PROVE  NetFromSeen' /\ net' \in SUBSET Datagram
  BY <1>0, <1>1 DEF NetFromSeen, HostsSeen
<1>2. CASE MakeNew
  <2>1. UNCHANGED << alive, been_up, net, friend >> /\ introduced' = {}
    BY <1>2 DEF MakeNew
  <2>2. NetFromSeen' /\ net' \in SUBSET Datagram
    BY <1>1, <2>1
  <2>3. LiveSeen'
    BY <2>1 DEF LiveSeen
  <2>4. IntroTypeOK' /\ CallInStep' /\ IntroducedByFriend'
    BY <1>2, <2>1, <2>2 DEF MakeNew, IntroTypeOK, CallInStep,
                            IntroducedByFriend
  <2>5. PortFree' /\ AvailableHostSeen'
    BY <1>2 DEF MakeNew, PortFree, AvailableHostSeen, Available
  <2> QED
    BY <2>2, <2>3, <2>4, <2>5
<1>3. CASE MakeNewFails \/ SendRequestFails \/ ListenFails
  <2>1. /\ UNCHANGED << alive, friend, probe, net, been_up >> /\ pc' = "idle"
        /\ result' = "err" /\ introduced' = {} /\ pc # "probing"
    BY <1>3 DEF MakeNewFails, SendRequestFails, ListenFails, Return, ReturnErr
  <2>2. NetFromSeen' /\ net' \in SUBSET Datagram
    BY <1>1, <2>1
  <2>3. IntroTypeOK' /\ PortFree' /\ CallInStep' /\ IntroducedByFriend'
    BY <2>1, <2>2 DEF IntroTypeOK, PortFree, CallInStep, IntroducedByFriend
  <2>4. AvailableHostSeen' /\ LiveSeen'
    BY <2>1 DEF AvailableHostSeen, Available, HostsSeen, LiveSeen
  <2> QED
    BY <2>2, <2>3, <2>4
<1>4. CASE ProbesDone
  <2>1. /\ UNCHANGED << alive, friend, probe, result, net, been_up, introduced >>
        /\ pc' = "checked" /\ pc = "probing" /\ \A a \in Addrs : probe[a] # "open"
    BY <1>4 DEF ProbesDone, history
  <2>2. NetFromSeen' /\ net' \in SUBSET Datagram
    BY <1>1, <2>1
  <2>3. IntroTypeOK' /\ PortFree' /\ CallInStep' /\ IntroducedByFriend'
    BY <2>1, <2>2 DEF IntroTypeOK, PortFree, CallInStep, IntroducedByFriend
  <2>4. AvailableHostSeen' /\ LiveSeen'
    BY <2>1 DEF AvailableHostSeen, Available, HostsSeen, LiveSeen
  <2> QED
    BY <2>2, <2>3, <2>4
<1>5. ASSUME NEW a \in Addrs, NEW p \in {"open", "ok", "err"}, Probed(a, p),
             UNCHANGED << alive, friend, pc, result, history >>, pc = "probing",
             p = "open" => \A b \in Addrs : probe[b] # "open",
             p = "ok" => Host[a] \in HostsSeen,
             NetFromSeen' /\ net' \in SUBSET Datagram
      PROVE  IntroInv'
  <2>1. /\ probe' \in [Addrs -> {"new", "open", "ok", "err"}] /\ probe'[a] = p
        /\ \A b \in Addrs \ {a} : probe'[b] = probe[b]
        /\ UNCHANGED << been_up, introduced >>
    BY <1>0, <1>5 DEF Probed, history
  <2>2. IntroTypeOK' /\ CallInStep' /\ IntroducedByFriend'
    BY <1>5, <2>1 DEF IntroTypeOK, CallInStep, IntroducedByFriend
  <2>3. PortFree' /\ LiveSeen'
    BY <1>5, <2>1 DEF PortFree, LiveSeen
  <2>4. AvailableHostSeen'
    BY <1>5, <2>1 DEF AvailableHostSeen, Available, HostsSeen
  <2> QED
    BY <1>5, <2>2, <2>3, <2>4
<1>6. ASSUME NEW a \in Addrs, ProbeSends(a) PROVE IntroInv'
  <2>1. NetFromSeen' /\ net' \in SUBSET Datagram
    BY <1>6, RequestSent DEF ProbeSends, Kinds, history
  <2> QED
    BY <1>5, <1>6, <2>1 DEF ProbeSends
<1>7. ASSUME NEW a \in Addrs, ProbeFails(a) \/ ProbeTimeout(a)
      PROVE  IntroInv'
  <2>1. NetFromSeen' /\ net' \in SUBSET Datagram
    BY <1>1, <1>7 DEF ProbeFails, ProbeTimeout, history
  <2>2. pc = "probing"
    BY <1>7 DEF ProbeFails, ProbeTimeout, PortFree
  <2> QED
    BY <1>5, <1>7, <2>1, <2>2 DEF ProbeFails, ProbeTimeout
<1>8. ASSUME NEW a \in Addrs, NEW d \in net, ProbeHears(a, d)
      PROVE  IntroInv'
  <2>1. NetFromSeen' /\ net' \in SUBSET Datagram
    BY <1>1, <1>8 DEF ProbeHears, history
  <2>2. pc = "probing"
    BY <1>8 DEF ProbeHears, PortFree
  <2>3. d.host \in HostsSeen
    BY DEF NetFromSeen
  <2>4. CASE d.host = Host[a] /\ d.kind = "Empty"
    BY <1>5, <1>8, <2>1, <2>2, <2>3, <2>4 DEF ProbeHears
  <2>5. CASE ~ (d.host = Host[a] /\ d.kind = "Empty")
    BY <1>5, <1>8, <2>1, <2>2, <2>5 DEF ProbeHears
  <2> QED
    BY <2>4, <2>5
<1>9. CASE SendRequest
  <2>1. NetFromSeen' /\ net' \in SUBSET Datagram
    BY <1>9, RequestSent DEF SendRequest, Kinds, history
  <2>2. /\ UNCHANGED << alive, friend, probe, result, been_up, introduced >>
        /\ pc = "checked" /\ pc' = "listening" /\ Available # {}
        /\ friend # "no name"
    BY <1>9 DEF SendRequest, history
  <2>3. IntroTypeOK' /\ PortFree' /\ IntroducedByFriend'
    BY <2>1, <2>2 DEF IntroTypeOK, PortFree, IntroducedByFriend, CallInStep
  <2>4. AvailableHostSeen' /\ CallInStep' /\ LiveSeen'
    BY <2>2 DEF AvailableHostSeen, Available, HostsSeen, CallInStep, LiveSeen
  <2> QED
    BY <2>1, <2>3, <2>4
<1>10. ASSUME NEW d \in net, Listen(d) PROVE IntroInv'
  <2> DEFINE good == d.addr = 1 /\ d.kind = "IntroduceResp"
  <2>1. /\ UNCHANGED << alive, friend, probe, been_up >>
        /\ pc = "listening" /\ pc' = "idle" /\ net' = net \ {d}
        /\ result' = IF good THEN "ok" ELSE "err"
        /\ introduced' = IF good THEN {d} ELSE {}
    BY <1>10 DEF Listen, ReturnIf, Return, ReturnErr
  <2>2. NetFromSeen' /\ net' \in SUBSET Datagram
    BY <1>1, <2>1
  <2>3. introduced' \in SUBSET Datagram
    BY <1>0, <2>1
  <2>4. IntroTypeOK' /\ PortFree' /\ CallInStep' /\ LiveSeen'
    <3> HIDE DEF good
    <3> QED
      BY <2>1, <2>2, <2>3 DEF IntroTypeOK, PortFree, CallInStep, LiveSeen
  <2>5. AvailableHostSeen'
    BY <2>1 DEF AvailableHostSeen, Available, HostsSeen
  <2>6. IntroducedByFriend'
    <3>1. Available # {} /\ friend = "known"
      BY <2>1 DEF CallInStep, IntroTypeOK, Friends
    <3>2. d.addr = 1 => d.host = Host[1] /\ Host[1] \in HostsSeen
      BY DEF NetFromSeen
    <3>3. Available' = Available /\ HostsSeen' = HostsSeen
      BY <2>1 DEF Available, HostsSeen
    <3> QED
      BY <2>1, <3>1, <3>2, <3>3 DEF IntroducedByFriend
  <2> QED
    BY <2>2, <2>4, <2>5, <2>6
<1>11. ASSUME Stray \/ (\E d \in net : Lose(d)) \/ UNCHANGED introVars
       PROVE  IntroInv'
  <2>1. UNCHANGED << alive, friend, pc, probe, result, been_up, introduced >>
    BY <1>11 DEF Stray, Lose, introVars, history
  <2>2. NetFromSeen' /\ net' \in SUBSET Datagram
    <3>1. CASE Stray
      <4>0. PICK h \in LiveHosts, p \in Ports, k \in Kinds :
              \E s \in Sources(h) :
                net' = net \cup {[port |-> p, host |-> h, addr |-> s, kind |-> k,
                                  asked |-> FALSE]}
        BY <3>1 DEF Stray
      <4>1. PICK s \in Sources(h) :
              net' = net \cup {[port |-> p, host |-> h, addr |-> s, kind |-> k,
                                asked |-> FALSE]}
        BY <4>0
      <4> DEFINE d == [port |-> p, host |-> h, addr |-> s, kind |-> k, asked |-> FALSE]
      <4>2. /\ d.host = h /\ d.addr = s /\ d.port = p /\ d.kind = k
            /\ d.asked = FALSE
            /\ d = [port |-> d.port, host |-> d.host, addr |-> d.addr,
                    kind |-> d.kind, asked |-> d.asked]
        OBVIOUS
      <4>3. net' = net \cup {d}
        BY <4>1
      <4>4. h \in HostsSeen
        BY DEF LiveHosts, HostsSeen, LiveSeen
      <4> HIDE DEF d
      <4> QED
        BY <1>0, <2>1, <4>2, <4>3, <4>4, Sent
    <3> QED
      BY <1>1, <1>11, <2>1, <3>1 DEF Lose, introVars
  <2>3. /\ IntroTypeOK' /\ PortFree' /\ CallInStep' /\ LiveSeen'
        /\ IntroducedByFriend' /\ AvailableHostSeen'
    BY <2>1, <2>2 DEF IntroTypeOK, PortFree, CallInStep, LiveSeen,
                      IntroducedByFriend, AvailableHostSeen, Available, HostsSeen
  <2> QED
    BY <2>2, <2>3
<1>12. ASSUME NEW a \in Addrs, NodeUp(a) \/ NodeDown(a) PROVE IntroInv'
  <2>1. /\ UNCHANGED << friend, pc, probe, result, net, introduced >>
        /\ alive' \in SUBSET Addrs
        /\ been_up \subseteq been_up'
        /\ been_up' \in SUBSET {Host[x] : x \in Addrs}
    BY <1>0, <1>12 DEF NodeUp, NodeDown, history
  <2>2. LiveSeen'
    BY <1>12 DEF NodeUp, NodeDown, history, LiveSeen
  <2>3. HostsSeen \subseteq HostsSeen'
    BY <2>1 DEF HostsSeen
  <2>4. NetFromSeen' /\ AvailableHostSeen'
    BY <2>1, <2>3 DEF NetFromSeen, AvailableHostSeen, Available
  <2>5. IntroTypeOK' /\ PortFree' /\ CallInStep' /\ IntroducedByFriend'
    BY <2>1, <2>3 DEF IntroTypeOK, PortFree, CallInStep, IntroducedByFriend,
                      Available
  <2> QED
    BY <2>2, <2>4, <2>5
<1> QED
  BY <1>2, <1>3, <1>4, <1>6, <1>7, <1>8, <1>9, <1>10, <1>11, <1>12 DEF IntroNext

(***************************************************************************)
(* The invariant holds in every state, with any list of addresses, any     *)
(* hosts at them, and any number of datagrams under way.                   *)
(***************************************************************************)
THEOREM IntroInductive == IntroSpec => []IntroInv
BY IntroInitially, IntroStep, PTL DEF IntroSpec

(***************************************************************************)
(* The probes of one call have UDP_CHECK_PORT in turn and leave no socket  *)
(* behind (udp.rs:94, 113): two are never bound together, and none is when *)
(* the request of the call is sent.                                        *)
(***************************************************************************)
THEOREM ProbeInvAlways == IntroSpec => []ProbeInv
BY IntroInductive, PTL DEF IntroInv, ProbeInv

(***************************************************************************)
(* An address is found available only if a node has been up at its host,   *)
(* whatever else comes to the port of the probe, with hosts that stop and  *)
(* start and datagrams that come late (udp.rs:121-135).                    *)
(***************************************************************************)
THEOREM AvailableHostSeenAlways == IntroSpec => []AvailableHostSeen
BY IntroInductive, PTL DEF IntroInv

(***************************************************************************)
(* A call returns somebody only after a known friend has answered its own  *)
(* check, and from a datagram whose source is the friend's first address,  *)
(* ip and port (node.rs:605-617); not necessarily the answer to its own    *)
(* request.                                                                *)
(***************************************************************************)
THEOREM IntroducedByFriendAlways == IntroSpec => []IntroducedByFriend
BY IntroInductive, PTL DEF IntroInv
=============================================================================
