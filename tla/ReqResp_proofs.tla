--------------------------- MODULE ReqResp_proofs ---------------------------
(***************************************************************************)
(* What holds of ReqResp for any number of clients, every capacity and     *)
(* every kind of loop; and that a worker implements the safety part of     *)
(* Service.  Liveness is left to TLC.                                      *)
(***************************************************************************)
EXTENDS ReqResp, TLAPS

(***************************************************************************)
(* What the invariants of the runs lack to be inductive: how far a client  *)
(* is tells the state of its oneshot, only a running worker has anything   *)
(* in hand or in its queue, and it stops only when told to.                *)
(***************************************************************************)
ClientsInStep ==
  \A c \in Clients :
    /\ client[c] = "idle" => oneshot[c] = "none"
    /\ client[c] = "sending" => oneshot[c] = "open"

StoppedIsEmpty ==
  /\ worker = "stopped" => queue = << >> /\ hand = Nobody /\ cancelled
  /\ good \in SUBSET Clients

IInv ==
  /\ TypeOK
  /\ ClientsInStep
  /\ StoppedIsEmpty
  /\ NoSilence
  /\ HandledOnce
  /\ GoodServed

-----------------------------------------------------------------------------
(***************************************************************************)
(* The members of the queue when something is sent and when it is taken.   *)
(***************************************************************************)
LEMMA QueueAppend ==
  ASSUME NEW c \in Clients, queue \in Seq(Clients), queue' = Append(queue, c)
  PROVE  /\ queue' \in Seq(Clients) /\ Len(queue') = Len(queue) + 1
         /\ \A i \in 1 .. Len(queue) : queue'[i] = queue[i]
         /\ queue'[Len(queue) + 1] = c
         /\ Queued' = Queued \cup {c}
<1>1. /\ queue' \in Seq(Clients) /\ Len(queue') = Len(queue) + 1
      /\ \A i \in 1 .. Len(queue) : queue'[i] = queue[i]
      /\ queue'[Len(queue) + 1] = c
  OBVIOUS
<1>2. Len(queue) \in Nat
  OBVIOUS
<1>3. Queued' = Queued \cup {c}
  <2> DEFINE n == Len(queue)
  <2>1. \A i : i \in 1 .. n + 1 <=> i \in 1 .. n \/ i = n + 1
    BY <1>2
  <2>2. Queued' = {queue'[i] : i \in 1 .. n + 1}
    BY <1>1 DEF Queued
  <2> QED
    <3> HIDE DEF n
    <3>1. Queued = {queue[i] : i \in 1 .. n}
      BY DEF Queued, n
    <3>2. /\ \A i \in 1 .. n : queue'[i] = queue[i]
          /\ queue'[n + 1] = c
      BY <1>1 DEF n
    <3> QED
      BY <2>1, <2>2, <3>1, <3>2
<1> QED
  BY <1>1, <1>3

LEMMA QueueTail ==
  ASSUME queue \in Seq(Clients), queue # << >>, queue' = Tail(queue)
  PROVE  /\ queue' \in Seq(Clients) /\ Len(queue') = Len(queue) - 1
         /\ Len(queue) \in Nat \ {0}
         /\ \A i \in 1 .. Len(queue) - 1 : queue'[i] = queue[i + 1]
         /\ Head(queue) = queue[1] /\ Head(queue) \in Clients
         /\ Queued = Queued' \cup {Head(queue)}
<1>1. /\ queue' \in Seq(Clients) /\ Len(queue') = Len(queue) - 1
      /\ Len(queue) \in Nat \ {0}
      /\ \A i \in 1 .. Len(queue) - 1 : queue'[i] = queue[i + 1]
      /\ Head(queue) = queue[1] /\ Head(queue) \in Clients
  OBVIOUS
<1>2. Queued = Queued' \cup {Head(queue)}
  <2> DEFINE n == Len(queue)
  <2>1. /\ \A i : i \in 1 .. n => i = 1 \/ (i - 1 \in 1 .. n - 1 /\ i = (i - 1) + 1)
        /\ \A i : i \in 1 .. n - 1 => i + 1 \in 1 .. n
        /\ 1 \in 1 .. n
    BY <1>1
  <2>2. Queued' = {queue'[i] : i \in 1 .. n - 1}
    BY <1>1 DEF Queued
  <2> QED
    <3> HIDE DEF n
    <3>1. Queued = {queue[i] : i \in 1 .. n}
      BY DEF Queued, n
    <3>2. /\ \A i \in 1 .. n - 1 : queue'[i] = queue[i + 1]
          /\ Head(queue) = queue[1]
      BY <1>1 DEF n
    <3>3. ASSUME NEW i \in 1 .. n PROVE queue[i] \in Queued' \cup {Head(queue)}
      <4>1. CASE i = 1
        BY <3>2, <4>1
      <4>2. CASE i - 1 \in 1 .. n - 1 /\ i = (i - 1) + 1
        <5>1. queue'[i - 1] = queue[i]
          BY <3>2, <4>2
        <5> QED
          BY <2>2, <4>2, <5>1
      <4> QED
        BY <2>1, <4>1, <4>2
    <3>4. ASSUME NEW i \in 1 .. n - 1 PROVE queue'[i] \in Queued
      <4>1. i + 1 \in 1 .. n /\ queue'[i] = queue[i + 1]
        BY <2>1, <3>2
      <4> QED
        BY <3>1, <4>1
    <3>5. Head(queue) \in Queued
      BY <2>1, <3>1, <3>2
    <3> QED
      BY <2>2, <3>1, <3>3, <3>4, <3>5
<1> QED
  BY <1>1, <1>2

-----------------------------------------------------------------------------
LEMMA Initially == Init => IInv
<1> SUFFICES ASSUME Init PROVE IInv
  OBVIOUS
<1>1. queue = << >> /\ Queued = {}
  BY DEF Init, Queued
<1>2. good \in SUBSET Clients
  BY DEF Init, GoodRequests
<1>3. TypeOK
  <2>1. queue \in Seq(Clients) /\ Len(queue) <= Capacity
    BY <1>1, CapacityAssumption
  <2>2. /\ client \in [Clients -> ClientStates]
        /\ oneshot \in [Clients -> OneshotStates]
    BY DEF Init, ClientStates, OneshotStates
  <2> QED
    BY <1>2, <2>1, <2>2 DEF Init, TypeOK
<1>4. ClientsInStep /\ StoppedIsEmpty /\ NoSilence /\ GoodServed
  BY <1>2 DEF Init, ClientsInStep, StoppedIsEmpty, NoSilence, GoodServed
<1>5. HandledOnce
  BY <1>1, NobodyAssumption DEF Init, HandledOnce
<1> QED
  BY <1>3, <1>4, <1>5 DEF IInv

(***************************************************************************)
(* No step breaks the invariant: one lemma for the clients' steps, one for *)
(* the worker's.                                                           *)
(***************************************************************************)
LEMMA ClientSteps ==
  ASSUME IInv, NEW c \in Clients,
         \/ NewRequest(c) \/ SendToWorker(c) \/ SendRefused(c)
         \/ Receive(c) \/ DropResponse(c)
  PROVE  IInv'
<1> USE DEF IInv
<1>1. CASE NewRequest(c)
  <2>1. Queued' = Queued
    BY <1>1 DEF NewRequest, Queued
  <2>2. c \notin Queued \cup {hand}
    BY <1>1, NobodyAssumption DEF NewRequest, HandledOnce, TypeOK
  <2>3. TypeOK'
    BY <1>1 DEF NewRequest, TypeOK, ClientStates, OneshotStates
  <2>4. (ClientsInStep /\ StoppedIsEmpty /\ NoSilence /\ GoodServed)'
    BY <1>1, <2>1 DEF NewRequest, TypeOK, ClientsInStep, StoppedIsEmpty,
                      NoSilence, GoodServed
  <2>5. HandledOnce'
    BY <1>1, <2>1, <2>2 DEF NewRequest, HandledOnce, TypeOK
  <2> QED
    BY <2>3, <2>4, <2>5
<1>2. CASE SendToWorker(c)
  <2>1. queue' = Append(queue, c)
    BY <1>2 DEF SendToWorker
  <2>2. c \notin Queued \cup {hand}
    BY <1>2, NobodyAssumption DEF SendToWorker, HandledOnce, TypeOK
  <2>3. TypeOK'
    BY <1>2, <2>1, QueueAppend, CapacityAssumption
      DEF SendToWorker, TypeOK, ClientStates
  <2>4. Queued' = Queued \cup {c}
    BY <2>1, QueueAppend DEF TypeOK
  <2>5. (ClientsInStep /\ StoppedIsEmpty /\ NoSilence /\ GoodServed)'
    BY <1>2, <2>4 DEF SendToWorker, TypeOK, ClientsInStep, StoppedIsEmpty,
                      NoSilence, GoodServed
  <2>6. \A i, j \in 1 .. Len(queue') : queue'[i] = queue'[j] => i = j
    <3> DEFINE n == Len(queue)
    <3>1. /\ n \in Nat /\ Len(queue') = n + 1
          /\ \A i \in 1 .. n : queue'[i] = queue[i] /\ queue[i] \in Queued
          /\ queue'[n + 1] = c
      BY <2>1, QueueAppend DEF TypeOK, Queued
    <3>2. \A i, j \in 1 .. n : queue[i] = queue[j] => i = j
      BY DEF HandledOnce
    <3> HIDE DEF n
    <3>3. \A i \in 1 .. n + 1 : i \in 1 .. n \/ i = n + 1
      BY <3>1
    <3> QED
      BY <2>2, <3>1, <3>2, <3>3
  <2>7. HandledOnce'
    BY <1>2, <2>2, <2>4, <2>6 DEF SendToWorker, HandledOnce, TypeOK, ClientsInStep
  <2> QED
    BY <2>3, <2>5, <2>7
<1>3. CASE SendRefused(c)
  <2>1. Queued' = Queued
    BY <1>3 DEF SendRefused, Queued
  <2>2. c \notin Queued \cup {hand} /\ cancelled
    BY <1>3, NobodyAssumption DEF SendRefused, HandledOnce, StoppedIsEmpty, TypeOK
  <2>3. TypeOK'
    BY <1>3 DEF SendRefused, TypeOK, ClientStates, OneshotStates
  <2>4. (ClientsInStep /\ StoppedIsEmpty /\ NoSilence /\ GoodServed)'
    BY <1>3, <2>1, <2>2 DEF SendRefused, TypeOK, ClientsInStep, StoppedIsEmpty,
                            NoSilence, GoodServed
  <2>5. HandledOnce'
    BY <1>3, <2>1, <2>2 DEF SendRefused, HandledOnce, TypeOK
  <2> QED
    BY <2>3, <2>4, <2>5
<1>4. CASE Receive(c)
  <2>1. Queued' = Queued
    BY <1>4 DEF Receive, Queued
  <2>2. c \notin Queued \cup {hand}
    BY <1>4, NobodyAssumption DEF Receive, HandledOnce, TypeOK
  <2>3. TypeOK'
    BY <1>4 DEF Receive, TypeOK, ClientStates
  <2>4. (ClientsInStep /\ StoppedIsEmpty /\ NoSilence /\ GoodServed)'
    BY <1>4, <2>1 DEF Receive, TypeOK, ClientsInStep, StoppedIsEmpty,
                      NoSilence, GoodServed
  <2>5. HandledOnce'
    BY <1>4, <2>1, <2>2 DEF Receive, HandledOnce, TypeOK
  <2> QED
    BY <2>3, <2>4, <2>5
<1>5. CASE DropResponse(c)
  <2>1. Queued' = Queued
    BY <1>5 DEF DropResponse, Queued
  <2>2. TypeOK'
    BY <1>5 DEF DropResponse, TypeOK, ClientStates
  <2>3. (ClientsInStep /\ StoppedIsEmpty /\ NoSilence /\ GoodServed)'
    BY <1>5, <2>1 DEF DropResponse, TypeOK, ClientsInStep, StoppedIsEmpty,
                      NoSilence, GoodServed
  <2>4. HandledOnce'
    BY <1>5, <2>1 DEF DropResponse, HandledOnce, TypeOK
  <2> QED
    BY <2>2, <2>3, <2>4
<1> QED
  BY <1>1, <1>2, <1>3, <1>4, <1>5

LEMMA WorkerSteps ==
  ASSUME IInv, RecvWork \/ SendBack \/ DropRequest \/ RecvNone \/ Cancel \/ Stop
  PROVE  IInv'
<1> USE DEF IInv
<1>1. CASE RecvWork
  <2>1. /\ queue' \in Seq(Clients) /\ Len(queue') = Len(queue) - 1
        /\ Len(queue) \in Nat \ {0}
        /\ \A i \in 1 .. Len(queue) - 1 : queue'[i] = queue[i + 1]
        /\ Head(queue) = queue[1] /\ Head(queue) \in Clients
        /\ Queued = Queued' \cup {Head(queue)}
    BY <1>1, QueueTail DEF RecvWork, TypeOK
  <2>2. TypeOK'
    BY <1>1, <2>1, CapacityAssumption DEF RecvWork, TypeOK
  <2>3. (ClientsInStep /\ StoppedIsEmpty /\ NoSilence /\ GoodServed)'
    BY <1>1, <2>1, NobodyAssumption
      DEF RecvWork, TypeOK, ClientsInStep, StoppedIsEmpty, NoSilence, GoodServed
  <2>4. /\ \A i, j \in 1 .. Len(queue') : queue'[i] = queue'[j] => i = j
        /\ \A i \in 1 .. Len(queue') : queue'[i] # Head(queue)
    <3> DEFINE n == Len(queue)
    <3>1. \A i, j \in 1 .. n : queue[i] = queue[j] => i = j
      BY DEF HandledOnce
    <3>2. /\ n \in Nat \ {0} /\ Len(queue') = n - 1
          /\ \A i \in 1 .. n - 1 : queue'[i] = queue[i + 1]
          /\ Head(queue) = queue[1]
      BY <2>1
    <3> HIDE DEF n
    <3>3. /\ \A i \in 1 .. n - 1 : i + 1 \in 1 .. n /\ i + 1 # 1
          /\ 1 \in 1 .. n
          /\ \A i, j \in 1 .. n - 1 : i + 1 = j + 1 => i = j
      BY <3>2
    <3>4. ASSUME NEW i \in 1 .. n - 1, NEW j \in 1 .. n - 1, queue'[i] = queue'[j]
          PROVE  i = j
      <4>1. queue[i + 1] = queue[j + 1]
        BY <3>2, <3>4
      <4> QED
        BY <3>1, <3>3, <4>1
    <3>5. ASSUME NEW i \in 1 .. n - 1 PROVE queue'[i] # Head(queue)
      <4>1. queue'[i] = queue[i + 1] /\ i + 1 \in 1 .. n /\ i + 1 # 1 /\ 1 \in 1 .. n
        BY <3>2, <3>3
      <4> QED
        BY <3>1, <3>2, <4>1
    <3> QED
      BY <3>2, <3>4, <3>5
  <2>5. hand' = Head(queue) /\ hand' \notin Queued'
    BY <1>1, <2>4 DEF RecvWork, Queued
  <2>6. HandledOnce'
    BY <1>1, <2>1, <2>4, <2>5 DEF RecvWork, HandledOnce, TypeOK
  <2> QED
    BY <2>2, <2>3, <2>6
<1>2. CASE SendBack \/ DropRequest
  <2>1. Queued' = Queued /\ hand \in Clients /\ hand' = Nobody
    BY <1>2 DEF SendBack, DropRequest, Queued, TypeOK
  <2>2. hand \notin Queued /\ Nobody \notin Queued
    BY NobodyAssumption DEF HandledOnce, Queued, TypeOK
  <2>3. TypeOK'
    BY <1>2 DEF SendBack, DropRequest, TypeOK, OneshotStates
  <2>4. (ClientsInStep /\ StoppedIsEmpty /\ NoSilence /\ GoodServed)'
    BY <1>2, <2>1, NobodyAssumption
      DEF SendBack, DropRequest, TypeOK, ClientsInStep, StoppedIsEmpty,
          NoSilence, GoodServed, HandledOnce
  <2>5. queue' = queue /\ client' = client
    BY <1>2 DEF SendBack, DropRequest
  <2>6. \A c \in Queued : c \in Clients /\ c # hand
    BY <2>2 DEF Queued, TypeOK
  <2>7. \A c \in Queued : oneshot'[c] = oneshot[c]
    BY <1>2, <2>1, <2>6 DEF SendBack, DropRequest, TypeOK
  <2>8. HandledOnce'
    BY <2>1, <2>2, <2>5, <2>7 DEF HandledOnce
  <2> QED
    BY <2>3, <2>4, <2>8
<1>3. CASE RecvNone
  BY <1>3 DEF RecvNone, vars, TypeOK, ClientsInStep, StoppedIsEmpty, NoSilence,
              HandledOnce, GoodServed, Queued
<1>4. CASE Cancel
  BY <1>4 DEF Cancel, TypeOK, ClientsInStep, StoppedIsEmpty, NoSilence,
              HandledOnce, GoodServed, Queued
<1>5. CASE Stop
  <2>1. /\ queue' = << >> /\ Queued' = {} /\ hand = Nobody /\ hand' = hand
        /\ worker' = "stopped" /\ cancelled /\ cancelled' = cancelled
        /\ client' = client /\ good' = good /\ kind' = kind
        /\ oneshot' = [c \in Clients |-> IF c \in Queued THEN "dropped" ELSE oneshot[c]]
    BY <1>5 DEF Stop, DropReceiver, Queued
  <2>2. TypeOK'
    BY <2>1, CapacityAssumption DEF TypeOK, OneshotStates
  <2>3. (StoppedIsEmpty /\ GoodServed)'
    BY <2>1 DEF StoppedIsEmpty, GoodServed
  <2>4. ClientsInStep'
    BY <2>1 DEF ClientsInStep, HandledOnce
  <2>5. NoSilence'
    BY <2>1, NobodyAssumption DEF NoSilence
  <2>6. HandledOnce'
    BY <2>1, NobodyAssumption DEF HandledOnce
  <2> QED
    BY <2>2, <2>3, <2>4, <2>5, <2>6
<1> QED
  BY <1>1, <1>2, <1>3, <1>4, <1>5

LEMMA Invariance == Spec => []IInv
<1>1. IInv /\ [Next]_vars => IInv'
  <2> SUFFICES ASSUME IInv, [Next]_vars PROVE IInv'
    OBVIOUS
  <2>1. CASE UNCHANGED vars
    BY <2>1 DEF IInv, vars, TypeOK, ClientsInStep, StoppedIsEmpty, NoSilence,
                HandledOnce, GoodServed, Queued
  <2> QED
    BY <2>1, ClientSteps, WorkerSteps DEF Next
<1> QED
  BY Initially, <1>1, PTL DEF Spec

-----------------------------------------------------------------------------
(***************************************************************************)
(* Type correctness: the channel never holds more than its capacity.       *)
(***************************************************************************)
THEOREM TypeCorrect == Spec => []TypeOK
BY Invariance, PTL DEF IInv

(***************************************************************************)
(* A client that waits is waited for: for every capacity and number of     *)
(* clients, whatever fails or is cancelled (req_resp.rs:170, 194).         *)
(***************************************************************************)
THEOREM NoSilenceEver == Spec => []NoSilence
BY Invariance, PTL DEF IInv

(***************************************************************************)
(* No request is handled twice, or after it was answered or dropped.       *)
(***************************************************************************)
THEOREM HandledOnceAlways == Spec => []HandledOnce
BY Invariance, PTL DEF IInv

(***************************************************************************)
(* The channel stays within its capacity and holds every request once.     *)
(***************************************************************************)
THEOREM QueueInvAlways == Spec => []QueueInv
BY Invariance, PTL DEF IInv, QueueInv

(***************************************************************************)
(* Requests on which the worker's function succeeds are lost only to a     *)
(* cancellation.                                                           *)
(***************************************************************************)
THEOREM GoodServedAlways == Spec => []GoodServed
BY Invariance, PTL DEF IInv

-----------------------------------------------------------------------------
(***************************************************************************)
(* What each step is to the Service.                                       *)
(***************************************************************************)
LEMMA Refines ==
  ASSUME IInv, IInv', [Next]_vars
  PROVE  [Serves!Next]_(Serves!vars)
<1> DEFINE call == [c \in Clients |-> CallOf(c)]
           up   == worker = "running"
<1>1. \A c \in Clients :
        /\ call[c] = CallOf(c) /\ call'[c] = CallOf(c)'
        /\ oneshot[c] \in OneshotStates /\ oneshot'[c] \in OneshotStates
  BY DEF IInv, TypeOK
<1>2. \A c \in Clients :
        /\ call[c] = "none" <=> oneshot[c] = "none"
        /\ call[c] = "open" <=> oneshot[c] = "open"
        /\ call'[c] = "open" <=> oneshot'[c] = "open"
        /\ call'[c] = "answered" <=> oneshot'[c] = "value"
        /\ call'[c] = "failed" <=> oneshot'[c] = "dropped"
        /\ oneshot'[c] = oneshot[c] => call'[c] = call[c]
  BY <1>1 DEF CallOf, OneshotStates
<1>3. CASE oneshot' = oneshot /\ worker' = worker
  BY <1>3 DEF Serves!vars, CallOf
<1>4. ASSUME NEW c \in Clients, NewRequest(c) PROVE Serves!Begin(c)
  <2>1. call[c] = "none" /\ up' = up
    BY <1>2, <1>4 DEF NewRequest, IInv, ClientsInStep
  <2>2. call' = [call EXCEPT ![c] = "open"]
    BY <1>2, <1>4 DEF NewRequest, IInv, TypeOK
  <2> QED
    BY <2>1, <2>2 DEF Serves!Begin
<1>5. ASSUME SendBack PROVE hand \in Clients /\ Serves!Answer(hand)
  <2>1. hand \in Clients /\ oneshot[hand] = "open" /\ up /\ up' = up
    BY <1>5, NobodyAssumption
      DEF SendBack, IInv, TypeOK, HandledOnce, StoppedIsEmpty
  <2>2. call' = [call EXCEPT ![hand] = "answered"]
    BY <1>2, <1>5, <2>1 DEF SendBack, IInv, TypeOK
  <2> QED
    BY <1>2, <2>1, <2>2 DEF Serves!Answer
<1>6. ASSUME NEW failing \in SUBSET Clients,
             \A c \in failing : oneshot[c] = "open",
             oneshot' = [c \in Clients |-> IF c \in failing THEN "dropped" ELSE oneshot[c]],
             up' = up \/ up' = FALSE
      PROVE  Serves!Fail(failing)
  <2>1. call' = [c \in Clients |-> IF c \in failing THEN "failed" ELSE call[c]]
    BY <1>2, <1>6
  <2> QED
    BY <1>2, <1>6, <2>1 DEF Serves!Fail
<1>7. ASSUME NEW c \in Clients, SendRefused(c) PROVE Serves!Fail({c})
  <2>1. /\ oneshot[c] = "open" /\ up' = up
        /\ oneshot' = [x \in Clients |-> IF x \in {c} THEN "dropped" ELSE oneshot[x]]
    BY <1>7 DEF SendRefused, IInv, TypeOK, ClientsInStep
  <2> QED
    BY <1>6, <2>1
<1>8. ASSUME DropRequest PROVE hand \in Clients /\ Serves!Fail({hand})
  <2>1. /\ hand \in Clients /\ oneshot[hand] = "open" /\ up' = up
        /\ oneshot' = [x \in Clients |-> IF x \in {hand} THEN "dropped" ELSE oneshot[x]]
    BY <1>8, NobodyAssumption DEF DropRequest, IInv, TypeOK, HandledOnce
  <2> QED
    BY <1>6, <2>1
<1>9. ASSUME Stop PROVE Queued \in SUBSET Clients /\ Serves!Fail(Queued)
  <2>1. /\ Queued \in SUBSET Clients
        /\ \A c \in Queued : oneshot[c] = "open"
        /\ oneshot' = [c \in Clients |-> IF c \in Queued THEN "dropped" ELSE oneshot[c]]
        /\ up' = FALSE
    BY <1>9 DEF Stop, DropReceiver, Queued, IInv, TypeOK, HandledOnce
  <2> QED
    BY <1>6, <2>1
<1>10. \/ oneshot' = oneshot /\ worker' = worker
       \/ \E c \in Clients : NewRequest(c) \/ SendRefused(c)
       \/ SendBack \/ DropRequest \/ Stop
  BY DEF Next, vars, SendToWorker, Receive, DropResponse, RecvWork, RecvNone, Cancel
<1> QED
  BY <1>3, <1>4, <1>5, <1>7, <1>8, <1>9, <1>10 DEF Serves!Next

(***************************************************************************)
(* A worker, a signer and a handler loop are a Service to any number of    *)
(* clients: every call is answered at most once, and never after the       *)
(* service closed.                                                         *)
(***************************************************************************)
THEOREM ImplementsService == Spec => ServesSafely
<1>1. Init => Serves!Init
  BY DEF Init, Serves!Init, CallOf
<1>2. IInv /\ IInv' /\ [Next]_vars => [Serves!Next]_(Serves!vars)
  BY Refines
<1> QED
  BY <1>1, <1>2, Invariance, PTL DEF Spec, ServesSafely, Serves!Spec
=============================================================================
