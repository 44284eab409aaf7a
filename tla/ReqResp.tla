------------------------------ MODULE ReqResp ------------------------------
(***************************************************************************)
(* A task that serves requests, and the tasks that call it                 *)
(* (src/src/req_resp.rs): an mpsc channel of bounded capacity carries the  *)
(* requests, each with the sending half of a oneshot channel for its       *)
(* answer.  The loops of this shape in the code are                        *)
(*   "worker"    Worker::run, a task function               (req_resp.rs)  *)
(*   "signer"    SignHandle::spawn_new, the signing task    (identity.rs)  *)
(*   "handler"   spawn_run of PayloadHandler and of                        *)
(*               AsyncPayloadHandler, handlers by payload   (register.rs)  *)
(*                                                                         *)
(* A request is named by the client that makes it.  A send takes its place *)
(* in the queue in one step, so that dropping the receiver drops           *)
(* everything that was sent before.                                        *)
(***************************************************************************)
EXTENDS Naturals, Sequences, FiniteSets

CONSTANTS
  Clients,     \* tasks that hold a RequestWorker or a SignHandle
  Capacity,    \* of the mpsc channel
  Nobody       \* no request in the worker's hands

ASSUME CapacityAssumption == Capacity \in Nat \ {0}
ASSUME NobodyAssumption == Nobody \notin Clients

VARIABLES
  kind,        \* which of the loops the worker runs
  good,        \* the requests on which the worker's function returns Ok
  client,      \* what each client does
  oneshot,     \* the oneshot channel of each request
  queue,       \* the mpsc channel
  hand,        \* the request that the worker has received
  worker,      \* "running" or "stopped"
  cancelled    \* the CancellationToken

vars == << kind, good, client, oneshot, queue, hand, worker, cancelled >>

Kinds == {"worker", "signer", "handler"}

ClientStates == {"idle", "sending", "waiting", "gone",
                 "answered", "failed", "refused"}

OneshotStates == {"none", "open", "value", "dropped"}

Queued == {queue[i] : i \in 1 .. Len(queue)}

(***************************************************************************)
(* An identity signs everything or, being a clone without the secret key,  *)
(* nothing (identity.rs:237).  A task function or a handler fails as it    *)
(* likes, and a payload without a handler always does (register.rs:424).   *)
(***************************************************************************)
GoodRequests(k) == IF k = "signer" THEN {Clients, {}} ELSE SUBSET Clients

Init ==
  /\ kind \in Kinds
  /\ good \in GoodRequests(kind)
  /\ client = [c \in Clients |-> "idle"]
  /\ oneshot = [c \in Clients |-> "none"]
  /\ queue = << >>
  /\ hand = Nobody
  /\ worker = "running"
  /\ cancelled = FALSE

-----------------------------------------------------------------------------
(***************************************************************************)
(* The clients.                                                            *)
(***************************************************************************)

(***************************************************************************)
(* Request::new: the oneshot is made before there is room for the request. *)
(***************************************************************************)
NewRequest(c) ==
  /\ client[c] = "idle"
  /\ client' = [client EXCEPT ![c] = "sending"]
  /\ oneshot' = [oneshot EXCEPT ![c] = "open"]
  /\ UNCHANGED << kind, good, queue, hand, worker, cancelled >>

(***************************************************************************)
(* send_to_worker: the send waits for room.  When the receiver is gone the *)
(* request comes back in the error and is dropped.                         *)
(***************************************************************************)
SendToWorker(c) ==
  /\ client[c] = "sending"
  /\ worker = "running"
  /\ Len(queue) < Capacity
  /\ queue' = Append(queue, c)
  /\ client' = [client EXCEPT ![c] = "waiting"]
  /\ UNCHANGED << kind, good, oneshot, hand, worker, cancelled >>

SendRefused(c) ==
  /\ client[c] = "sending"
  /\ worker = "stopped"
  /\ client' = [client EXCEPT ![c] = "refused"]
  /\ oneshot' = [oneshot EXCEPT ![c] = "dropped"]
  /\ UNCHANGED << kind, good, queue, hand, worker, cancelled >>

(***************************************************************************)
(* Response::response, SignHandle::sign: the value, or the error of a      *)
(* sender that was dropped.                                                *)
(***************************************************************************)
Receive(c) ==
  /\ client[c] = "waiting"
  /\ oneshot[c] \in {"value", "dropped"}
  /\ client' = [client EXCEPT ![c] =
                  IF oneshot[c] = "value" THEN "answered" ELSE "failed"]
  /\ UNCHANGED << kind, good, oneshot, queue, hand, worker, cancelled >>

(***************************************************************************)
(* let _ = Request::send(..).await: the Response is dropped, the request   *)
(* stays where it is (node.rs:272).                                        *)
(***************************************************************************)
DropResponse(c) ==
  /\ client[c] = "waiting"
  /\ client' = [client EXCEPT ![c] = "gone"]
  /\ UNCHANGED << kind, good, oneshot, queue, hand, worker, cancelled >>

-----------------------------------------------------------------------------
(***************************************************************************)
(* Mutant of RecvWork: the request is looked at and left in the queue.     *)
(***************************************************************************)
PeekWork ==
  /\ worker = "running"
  /\ hand = Nobody
  /\ queue # << >>
  /\ hand' = Head(queue)
  /\ UNCHANGED << kind, good, client, oneshot, queue, worker, cancelled >>

(***************************************************************************)
(* The worker.  select! waits for a request or for the token; while a      *)
(* request is in hand the token is not looked at.                          *)
(***************************************************************************)
RecvWork ==
  /\ worker = "running"
  /\ hand = Nobody
  /\ queue # << >>
  /\ hand' = Head(queue)
  /\ queue' = Tail(queue)
  /\ UNCHANGED << kind, good, client, oneshot, worker, cancelled >>

(***************************************************************************)
(* The function or handler returned Ok: its value goes back through the    *)
(* oneshot of the request, whether or not somebody waits for it.           *)
(***************************************************************************)
SendBack ==
  /\ hand \in good
  /\ oneshot' = [oneshot EXCEPT ![hand] = "value"]
  /\ hand' = Nobody
  /\ UNCHANGED << kind, good, client, queue, worker, cancelled >>

(***************************************************************************)
(* Mutant of DropRequest: the loop goes on with the request still in hand. *)
(***************************************************************************)
DropRequestKept ==
  /\ hand \in Clients \ good
  /\ hand' = Nobody
  /\ UNCHANGED << kind, good, client, oneshot, queue, worker, cancelled >>

(***************************************************************************)
(* It returned an error: the request is dropped, and its sender with it.   *)
(***************************************************************************)
DropRequest ==
  /\ hand \in Clients \ good
  /\ oneshot' = [oneshot EXCEPT ![hand] = "dropped"]
  /\ hand' = Nobody
  /\ UNCHANGED << kind, good, client, queue, worker, cancelled >>

(***************************************************************************)
(* No sender is left, and recv returns None at once.  Worker::run and      *)
(* spawn_run continue their loop, which polls again without waiting; the   *)
(* signer's pattern Some(request) disables that branch of select!, and it  *)
(* waits for the token alone.                                              *)
(***************************************************************************)
RecvNone ==
  /\ kind # "signer"
  /\ worker = "running"
  /\ hand = Nobody
  /\ queue = << >>
  /\ \A c \in Clients : client[c] \notin {"idle", "sending"}
  /\ UNCHANGED vars

Cancel ==
  /\ ~ cancelled
  /\ cancelled' = TRUE
  /\ UNCHANGED << kind, good, client, oneshot, queue, hand, worker >>

(***************************************************************************)
(* The receiver is dropped, with every request still in the queue.         *)
(***************************************************************************)
DropReceiver ==
  /\ worker' = "stopped"
  /\ queue' = << >>
  /\ oneshot' = [c \in Clients |->
                    IF c \in Queued THEN "dropped" ELSE oneshot[c]]
  /\ UNCHANGED << kind, good, client, hand, cancelled >>

(***************************************************************************)
(* Mutants of Stop: the token is looked at while a request is in hand, or  *)
(* not at all; the loop ends with the last sender instead.                 *)
(***************************************************************************)
StopInHand ==
  /\ worker = "running"
  /\ cancelled
  /\ DropReceiver

StopUnasked ==
  /\ worker = "running"
  /\ hand = Nobody
  /\ DropReceiver

StopWithLastSender ==
  /\ worker = "running"
  /\ hand = Nobody
  /\ \A c \in Clients : client[c] \notin {"idle", "sending"}
  /\ DropReceiver

(***************************************************************************)
(* The loop breaks on the token, and the task ends.                        *)
(***************************************************************************)
Stop ==
  /\ worker = "running"
  /\ hand = Nobody
  /\ cancelled
  /\ DropReceiver

-----------------------------------------------------------------------------
Next ==
  \/ \E c \in Clients :
       \/ NewRequest(c) \/ SendToWorker(c) \/ SendRefused(c)
       \/ Receive(c) \/ DropResponse(c)
  \/ RecvWork \/ SendBack \/ DropRequest \/ RecvNone
  \/ Cancel \/ Stop

(***************************************************************************)
(* The runtime polls every task that can go on, and handlers return.  The  *)
(* permits of the channel are given out in the order in which senders came *)
(* (hence strong fairness of a send that waits for room), and select!      *)
(* picks at random among its ready branches, so a token that is cancelled  *)
(* is not passed over for ever.  Nobody has to call or to cancel.          *)
(***************************************************************************)
Fairness ==
  /\ \A c \in Clients :
       /\ SF_vars(SendToWorker(c))
       /\ WF_vars(SendRefused(c))
       /\ WF_vars(Receive(c))
  /\ WF_vars(RecvWork)
  /\ WF_vars(SendBack \/ DropRequest)
  /\ SF_vars(Stop)

Spec == Init /\ [][Next]_vars /\ Fairness

TypeOK ==
  /\ kind \in Kinds
  /\ good \in SUBSET Clients
  /\ client \in [Clients -> ClientStates]
  /\ oneshot \in [Clients -> OneshotStates]
  /\ queue \in Seq(Clients)
  /\ Len(queue) <= Capacity
  /\ hand \in Clients \cup {Nobody}
  /\ worker \in {"running", "stopped"}
  /\ cancelled \in BOOLEAN

-----------------------------------------------------------------------------
(***************************************************************************)
(* Never silence: a client that waits has been answered, or its oneshot    *)
(* was dropped, or its request is with a worker that runs.  A failing task *)
(* (req_resp.rs:170, identity.rs:104) and a cancelled one (req_resp.rs:194) *)
(* tell the client by what they drop, and by nothing else.                 *)
(***************************************************************************)
NoSilence ==
  \A c \in Clients :
    client[c] = "waiting" /\ oneshot[c] = "open" =>
      /\ worker = "running"
      /\ c \in Queued \cup {hand}

(***************************************************************************)
(* A request whose sender was given away is in one place only: no request  *)
(* is handled twice, and none that was answered or dropped is handled      *)
(* again.                                                                  *)
(***************************************************************************)
HandledOnce ==
  /\ \A i, j \in 1 .. Len(queue) : queue[i] = queue[j] => i = j
  /\ hand \notin Queued
  /\ \A c \in Queued \cup ({hand} \ {Nobody}) :
       oneshot[c] = "open" /\ client[c] \in {"waiting", "gone"}

(***************************************************************************)
(* The channel stays within its capacity and holds every request once.     *)
(***************************************************************************)
QueueInv ==
  /\ TypeOK
  /\ HandledOnce

(***************************************************************************)
(* A request on which the worker's function succeeds fails only because    *)
(* the worker was cancelled: queueing, waiting for room and callers that   *)
(* went away cost nobody else an answer (req_resp.rs:157-203).             *)
(***************************************************************************)
GoodServed ==
  \A c \in good : oneshot[c] = "dropped" => cancelled

(***************************************************************************)
(* A cancelled worker stops, even while requests keep coming, and even     *)
(* when all senders are gone and its loop spins (req_resp.rs:185,          *)
(* register.rs:250).                                                       *)
(***************************************************************************)
CancelStops == cancelled ~> worker = "stopped"

(***************************************************************************)
(* One worker is a Service to its clients: a call is open from             *)
(* Request::new until its oneshot is used or dropped.  Liveness included:  *)
(* no oneshot stays open.                                                  *)
(***************************************************************************)
CallOf(c) == CASE oneshot[c] = "none"    -> "none"
               [] oneshot[c] = "open"    -> "open"
               [] oneshot[c] = "value"   -> "answered"
               [] oneshot[c] = "dropped" -> "failed"

Serves == INSTANCE Service WITH
  Calls <- Clients,
  call  <- [c \in Clients |-> CallOf(c)],
  up    <- (worker = "running")

ServesSafely == Serves!Spec
ServesFairly == Serves!FairSpec
=============================================================================
