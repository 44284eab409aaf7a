---------------------------- MODULE NodePipeline ----------------------------
(***************************************************************************)
(* How a node answers the messages of the network (src/src/nodes/node.rs): *)
(* four tasks in a row, each with a bounded channel in front of it.        *)
(*   1 listen   binds a socket, receives one datagram, closes the socket   *)
(*   2 handle   starts a child task for every message; the children share  *)
(*              the handlers behind one mutex       (network/register.rs)  *)
(*   3 encode   encodes the response and has it signed by the signer task  *)
(*   4 send     sends it back                           (network/udp.rs)   *)
(* All four look at one CancellationToken.  The signer has its own: it is  *)
(* the Service of ReqResp, and here it only answers or is gone.            *)
(***************************************************************************)
EXTENDS Naturals, Sequences, FiniteSets

CONSTANTS
  Msgs,       \* the messages sent to the node, one datagram each
  Capacity,   \* CHANNEL_CAPACITY, of each of the three channels
  None,       \* no message
  Mixes       \* which messages may come together

(***************************************************************************)
(* "failing" has no handler, or one that returns an error; "stuck" has one *)
(* that never returns, such as one that waits for the register itself;     *)
(* "oversize" has a response that does not fit a datagram; "unreachable"   *)
(* has one that udp_send_to cannot send, since its port is taken or the    *)
(* send returns an error; "garbage" does not decode.                       *)
(***************************************************************************)
Natures == {"plain", "failing", "stuck", "oversize", "unreachable", "garbage"}

ASSUME CapacityAssumption == Capacity \in Nat \ {0}
ASSUME MixesAssumption == Mixes \subseteq [Msgs -> Natures]
ASSUME NoneAssumption == None \notin Msgs

VARIABLES
  nature,     \* what will become of each message
  fate,       \* what has become of it
  cancelled,  \* the token of the four tasks
  signer,     \* "up" or "down"
  listener,   \* where task 1 is
  sock,       \* the datagrams that wait in its socket
  loop,       \* are tasks 2, 3 and 4 running
  queue,      \* their channels
  hand,       \* the message that tasks 1, 3 and 4 are busy with
  signed,     \* has task 3 got its signature
  child,      \* the child task of each message
  lock        \* the mutex of the AsyncRegister: the message being handled

vars == << nature, fate, cancelled, signer, listener, sock, loop, queue,
           hand, signed, child, lock >>

Fates == {"unsent", "arrived", "lost", "in", "answered", "dropped"}

Loops == {"handle", "encode", "send"}

Busy == {"listen", "encode", "send"}

Queued(t) == {queue[t][i] : i \in 1 .. Len(queue[t])}

Waiting == {sock[i] : i \in 1 .. Len(sock)}

Init ==
  /\ nature \in Mixes
  /\ fate = [m \in Msgs |-> "unsent"]
  /\ cancelled = FALSE
  /\ signer = "up"
  /\ listener = "bind"
  /\ sock = << >>
  /\ loop = [t \in Loops |-> "running"]
  /\ queue = [t \in Loops |-> << >>]
  /\ hand = [t \in Busy |-> None]
  /\ signed = FALSE
  /\ child = [m \in Msgs |-> "none"]
  /\ lock = None

-----------------------------------------------------------------------------
(***************************************************************************)
(* The network: a datagram is kept only while a socket is bound.           *)
(***************************************************************************)
Arrive(m) ==
  /\ fate[m] = "unsent"
  /\ listener = "listen"
  /\ sock' = Append(sock, m)
  /\ fate' = [fate EXCEPT ![m] = "arrived"]
  /\ UNCHANGED << nature, cancelled, signer, listener, loop, queue, hand,
                  signed, child, lock >>

ArriveUnheard(m) ==
  /\ fate[m] = "unsent"
  /\ listener # "listen"
  /\ fate' = [fate EXCEPT ![m] = "lost"]
  /\ UNCHANGED << nature, cancelled, signer, listener, sock, loop, queue,
                  hand, signed, child, lock >>

(***************************************************************************)
(* Closing the socket loses the datagrams in it; the one that was taken    *)
(* goes on.                                                                *)
(***************************************************************************)
CloseSocket(taken) ==
  /\ sock' = << >>
  /\ fate' = [m \in Msgs |-> IF m \in taken THEN "in"
                             ELSE IF m \in Waiting THEN "lost"
                             ELSE fate[m]]

-----------------------------------------------------------------------------
(***************************************************************************)
(* Task 1.  Every error of udp_recv_from ends it, the timeout of an idle   *)
(* socket and a datagram that does not decode included.                    *)
(***************************************************************************)
Bind ==
  /\ listener = "bind"
  /\ listener' = "listen"
  /\ UNCHANGED << nature, fate, cancelled, signer, sock, loop, queue, hand,
                  signed, child, lock >>

BindFails ==
  /\ listener = "bind"
  /\ listener' = "ended"
  /\ UNCHANGED << nature, fate, cancelled, signer, sock, loop, queue, hand,
                  signed, child, lock >>

Take ==
  /\ listener = "listen"
  /\ sock # << >>
  /\ nature[Head(sock)] # "garbage"
  /\ hand' = [hand EXCEPT !["listen"] = Head(sock)]
  /\ CloseSocket({Head(sock)})
  /\ listener' = "push"
  /\ UNCHANGED << nature, cancelled, signer, loop, queue, signed, child, lock >>

ReceiveFails ==
  /\ listener = "listen"
  /\ \A i \in 1 .. Len(sock) : i = 1 => nature[sock[i]] = "garbage"
  /\ CloseSocket({})
  /\ listener' = "ended"
  /\ UNCHANGED << nature, cancelled, signer, loop, queue, hand, signed,
                  child, lock >>

StopListener ==
  /\ cancelled
  /\ listener \in {"bind", "listen"}
  /\ CloseSocket({})
  /\ listener' = "ended"
  /\ UNCHANGED << nature, cancelled, signer, loop, queue, hand, signed,
                  child, lock >>

-----------------------------------------------------------------------------
(***************************************************************************)
(* The channels.  A send waits for room, and fails when the receiver is    *)
(* gone; the loop that received None goes round until it is cancelled.     *)
(***************************************************************************)
Room(t) == loop[t] = "running" /\ Len(queue[t]) < Capacity

Put(t, m) == queue' = [queue EXCEPT ![t] = Append(@, m)]

Drop(m) == fate' = [fate EXCEPT ![m] = "dropped"]

PushHandle ==
  /\ listener = "push"
  /\ Room("handle")
  /\ Put("handle", hand["listen"])
  /\ hand' = [hand EXCEPT !["listen"] = None]
  /\ listener' = "bind"
  /\ UNCHANGED << nature, fate, cancelled, signer, sock, loop, signed,
                  child, lock >>

(***************************************************************************)
(* Mutant of PushHandleFails: try_send, which fails on a full channel.     *)
(***************************************************************************)
PushHandleTries ==
  /\ listener = "push"
  /\ ~ Room("handle")
  /\ Drop(hand["listen"])
  /\ hand' = [hand EXCEPT !["listen"] = None]
  /\ listener' = "bind"
  /\ UNCHANGED << nature, cancelled, signer, sock, loop, queue, signed,
                  child, lock >>

PushHandleFails ==
  /\ listener = "push"
  /\ loop["handle"] = "ended"
  /\ Drop(hand["listen"])
  /\ hand' = [hand EXCEPT !["listen"] = None]
  /\ listener' = "bind"
  /\ UNCHANGED << nature, cancelled, signer, sock, loop, queue, signed,
                  child, lock >>

SendersGone(t) ==
  CASE t = "handle" -> listener = "ended"
    [] t = "encode" -> loop["handle"] = "ended" /\ \A m \in Msgs : child[m] = "none"
    [] t = "send"   -> loop["encode"] = "ended"

RecvNone(t) ==
  /\ loop[t] = "running"
  /\ t \in Busy => hand[t] = None
  /\ queue[t] = << >>
  /\ SendersGone(t)
  /\ UNCHANGED vars

(***************************************************************************)
(* Tasks 2, 3 and 4 look at the token only when they wait for a message,   *)
(* and take the messages in their channel with them.                       *)
(***************************************************************************)
EndLoop(t) ==
  /\ loop' = [loop EXCEPT ![t] = "ended"]
  /\ fate' = [m \in Msgs |-> IF m \in Queued(t) THEN "dropped" ELSE fate[m]]
  /\ queue' = [queue EXCEPT ![t] = << >>]
  /\ UNCHANGED << nature, cancelled, signer, listener, sock, hand, signed,
                  child, lock >>

(***************************************************************************)
(* Mutants of Stop: the token is looked at in the middle of a message, or  *)
(* only when there is one.                                                 *)
(***************************************************************************)
StopBusy(t) ==
  /\ cancelled
  /\ loop[t] = "running"
  /\ EndLoop(t)

StopOnMessage(t) ==
  /\ cancelled
  /\ loop[t] = "running"
  /\ t \in Busy => hand[t] = None
  /\ queue[t] # << >>
  /\ EndLoop(t)

Stop(t) ==
  /\ cancelled
  /\ loop[t] = "running"
  /\ t \in Busy => hand[t] = None
  /\ EndLoop(t)

Cancel ==
  /\ ~ cancelled
  /\ cancelled' = TRUE
  /\ UNCHANGED << nature, fate, signer, listener, sock, loop, queue, hand,
                  signed, child, lock >>

SignerStops ==
  /\ signer = "up"
  /\ signer' = "down"
  /\ UNCHANGED << nature, fate, cancelled, listener, sock, loop, queue, hand,
                  signed, child, lock >>

-----------------------------------------------------------------------------
(***************************************************************************)
(* Task 2 and its children.  A child holds the mutex of the register while *)
(* the handler runs, and lets go of it before it waits for task 3.         *)
(***************************************************************************)
\* Mutant of StartChild: the loop awaits the handler itself.
StartChildAwaited ==
  /\ loop["handle"] = "running"
  /\ queue["handle"] # << >>
  /\ \A m \in Msgs : child[m] = "none"
  /\ queue' = [queue EXCEPT !["handle"] = Tail(@)]
  /\ child' = [child EXCEPT ![Head(queue["handle"])] = "lock"]
  /\ UNCHANGED << nature, fate, cancelled, signer, listener, sock, loop, hand,
                  signed, lock >>

StartChild ==
  /\ loop["handle"] = "running"
  /\ queue["handle"] # << >>
  /\ queue' = [queue EXCEPT !["handle"] = Tail(@)]
  /\ child' = [child EXCEPT ![Head(queue["handle"])] = "lock"]
  /\ UNCHANGED << nature, fate, cancelled, signer, listener, sock, loop, hand,
                  signed, lock >>

LockRegister(m) ==
  /\ child[m] = "lock"
  /\ lock = None
  /\ lock' = m
  /\ child' = [child EXCEPT ![m] = "handling"]
  /\ UNCHANGED << nature, fate, cancelled, signer, listener, sock, loop, queue,
                  hand, signed >>

HandleOk(m) ==
  /\ child[m] = "handling"
  /\ nature[m] \in {"plain", "oversize", "unreachable"}
  /\ lock' = None
  /\ child' = [child EXCEPT ![m] = "push"]
  /\ UNCHANGED << nature, fate, cancelled, signer, listener, sock, loop, queue,
                  hand, signed >>

(***************************************************************************)
(* Mutant of HandleFails: the error leaves the mutex locked.               *)
(***************************************************************************)
HandleFailsLocked(m) ==
  /\ child[m] = "handling"
  /\ nature[m] = "failing"
  /\ child' = [child EXCEPT ![m] = "none"]
  /\ Drop(m)
  /\ UNCHANGED << nature, cancelled, signer, listener, sock, loop, queue,
                  hand, signed, lock >>

HandleFails(m) ==
  /\ child[m] = "handling"
  /\ nature[m] = "failing"
  /\ lock' = None
  /\ child' = [child EXCEPT ![m] = "none"]
  /\ Drop(m)
  /\ UNCHANGED << nature, cancelled, signer, listener, sock, loop, queue,
                  hand, signed >>

PushEncode(m) ==
  /\ child[m] = "push"
  /\ Room("encode")
  /\ Put("encode", m)
  /\ child' = [child EXCEPT ![m] = "none"]
  /\ UNCHANGED << nature, fate, cancelled, signer, listener, sock, loop, hand,
                  signed, lock >>

PushEncodeFails(m) ==
  /\ child[m] = "push"
  /\ loop["encode"] = "ended"
  /\ Drop(m)
  /\ child' = [child EXCEPT ![m] = "none"]
  /\ UNCHANGED << nature, cancelled, signer, listener, sock, loop, queue,
                  hand, signed, lock >>

-----------------------------------------------------------------------------
(***************************************************************************)
(* Task 3 waits for the signature, and then for room in the channel of     *)
(* task 4.                                                                 *)
(***************************************************************************)
Recv(t) ==
  /\ loop[t] = "running"
  /\ hand[t] = None
  /\ queue[t] # << >>
  /\ hand' = [hand EXCEPT ![t] = Head(queue[t])]
  /\ queue' = [queue EXCEPT ![t] = Tail(@)]
  /\ UNCHANGED << nature, fate, cancelled, signer, listener, sock, loop,
                  signed, child, lock >>

Sign ==
  /\ hand["encode"] # None
  /\ ~ signed
  /\ nature[hand["encode"]] # "oversize"
  /\ signer = "up"
  /\ signed' = TRUE
  /\ UNCHANGED << nature, fate, cancelled, signer, listener, sock, loop, queue,
                  hand, child, lock >>

EncodeFails ==
  /\ hand["encode"] # None
  /\ ~ signed
  /\ nature[hand["encode"]] = "oversize" \/ signer = "down"
  /\ Drop(hand["encode"])
  /\ hand' = [hand EXCEPT !["encode"] = None]
  /\ UNCHANGED << nature, cancelled, signer, listener, sock, loop, queue,
                  signed, child, lock >>

(***************************************************************************)
(* Mutant of PushSend: the bytes of the message before go out again.       *)
(***************************************************************************)
PushSendKeeps ==
  /\ signed
  /\ Room("send")
  /\ Put("send", hand["encode"])
  /\ signed' = FALSE
  /\ UNCHANGED << nature, fate, cancelled, signer, listener, sock, loop, hand,
                  child, lock >>

PushSend ==
  /\ signed
  /\ Room("send")
  /\ Put("send", hand["encode"])
  /\ hand' = [hand EXCEPT !["encode"] = None]
  /\ signed' = FALSE
  /\ UNCHANGED << nature, fate, cancelled, signer, listener, sock, loop,
                  child, lock >>

PushSendFails ==
  /\ signed
  /\ loop["send"] = "ended"
  /\ Drop(hand["encode"])
  /\ hand' = [hand EXCEPT !["encode"] = None]
  /\ signed' = FALSE
  /\ UNCHANGED << nature, cancelled, signer, listener, sock, loop, queue,
                  child, lock >>

(***************************************************************************)
(* Task 4: udp_send_to, which binds a socket for every response.           *)
(***************************************************************************)
SendTo ==
  /\ hand["send"] # None
  /\ nature[hand["send"]] # "unreachable"
  /\ fate' = [fate EXCEPT ![hand["send"]] = "answered"]
  /\ hand' = [hand EXCEPT !["send"] = None]
  /\ UNCHANGED << nature, cancelled, signer, listener, sock, loop, queue,
                  signed, child, lock >>

(***************************************************************************)
(* Mutant of SendToFails: the error ends task 4, and its channel with it.  *)
(***************************************************************************)
SendToFailsEnds ==
  /\ hand["send"] # None
  /\ nature[hand["send"]] = "unreachable"
  /\ loop' = [loop EXCEPT !["send"] = "ended"]
  /\ fate' = [m \in Msgs |-> IF m \in Queued("send") \cup {hand["send"]}
                             THEN "dropped" ELSE fate[m]]
  /\ queue' = [queue EXCEPT !["send"] = << >>]
  /\ hand' = [hand EXCEPT !["send"] = None]
  /\ UNCHANGED << nature, cancelled, signer, listener, sock, signed, child,
                  lock >>

SendToFails ==
  /\ hand["send"] # None
  /\ nature[hand["send"]] = "unreachable"
  /\ Drop(hand["send"])
  /\ hand' = [hand EXCEPT !["send"] = None]
  /\ UNCHANGED << nature, cancelled, signer, listener, sock, loop, queue,
                  signed, child, lock >>

-----------------------------------------------------------------------------
Listener == Bind \/ Take \/ PushHandle \/ PushHandleFails

Child(m) ==
  \/ LockRegister(m) \/ HandleOk(m) \/ HandleFails(m)
  \/ PushEncode(m) \/ PushEncodeFails(m)

Encoder == Recv("encode") \/ Sign \/ EncodeFails \/ PushSend \/ PushSendFails

Sender == Recv("send") \/ SendTo \/ SendToFails

Next ==
  \/ \E m \in Msgs : Arrive(m) \/ ArriveUnheard(m) \/ Child(m)
  \/ Listener \/ BindFails \/ ReceiveFails \/ StopListener
  \/ StartChild \/ Encoder \/ Sender
  \/ \E t \in Loops : RecvNone(t) \/ Stop(t)
  \/ Cancel \/ SignerStops

(***************************************************************************)
(* Every task that can go on is polled, and select! picks at random among  *)
(* its ready branches, so the token is not passed over for ever.  Nothing  *)
(* need arrive, time out, fail to bind or be cancelled, and a stuck        *)
(* handler need not return.                                                *)
(***************************************************************************)
Fairness ==
  /\ WF_vars(Listener) /\ WF_vars(StopListener)
  /\ WF_vars(StartChild) /\ \A m \in Msgs : WF_vars(Child(m))
  /\ WF_vars(Encoder) /\ WF_vars(Sender)
  /\ \A t \in Loops : WF_vars(Stop(t))

Spec == Init /\ [][Next]_vars /\ Fairness

TypeOK ==
  /\ nature \in [Msgs -> Natures]
  /\ fate \in [Msgs -> Fates]
  /\ cancelled \in BOOLEAN
  /\ signer \in {"up", "down"}
  /\ listener \in {"bind", "listen", "push", "ended"}
  /\ sock \in Seq(Msgs)
  /\ loop \in [Loops -> {"running", "ended"}]
  /\ queue \in [Loops -> Seq(Msgs)]
  /\ \A t \in Loops : Len(queue[t]) <= Capacity
  /\ hand \in [Busy -> Msgs \cup {None}]
  /\ signed \in BOOLEAN
  /\ child \in [Msgs -> {"none", "lock", "handling", "push"}]
  /\ lock \in Msgs \cup {None}

-----------------------------------------------------------------------------
(***************************************************************************)
(* A message that was accepted and not yet answered or given up is in one  *)
(* place of the node, and nothing else is anywhere: no task loses one on   *)
(* its error paths, none comes out twice, none is kept after its task      *)
(* ended (node.rs:247-282, 322-367, 396-444, 479-528).                     *)
(***************************************************************************)
Places(m) ==
  UNION { {<< t >> : t \in {b \in Busy : hand[b] = m}},
          {<< "child", c >> : c \in {x \in {m} : child[x] # "none"}},
          UNION {{<< t, i >> : i \in {j \in 1 .. Len(queue[t]) : queue[t][j] = m}}
                   : t \in Loops} }

EachInOnePlace ==
  /\ \A m \in Msgs : Cardinality(Places(m)) = IF fate[m] = "in" THEN 1 ELSE 0
  /\ \A t \in Loops : loop[t] = "ended" => queue[t] = << >>
  /\ \A t \in Loops \cap Busy : hand[t] # None => loop[t] = "running"

(***************************************************************************)
(* The mutex is held exactly while one handler runs: every way out of      *)
(* handle gives it back (register.rs:169-181), also when task 2 is gone.   *)
(***************************************************************************)
LockHeldByHandler ==
  \A m \in Msgs : child[m] = "handling" <=> lock = m

(***************************************************************************)
(* The invariant of the pipeline: its channels stay within their capacity, *)
(* and messages and mutex have one owner each.                             *)
(***************************************************************************)
PipelineInv ==
  /\ TypeOK
  /\ EachInOnePlace
  /\ LockHeldByHandler

(***************************************************************************)
(* A message that was accepted, whose handler succeeds and whose response  *)
(* fits and can be sent, is given up only after somebody cancelled or the  *)
(* signer has gone: full channels, other messages that fail, responses of  *)
(* others that cannot be sent (node.rs:508-512), and a listener that died  *)
(* cost it nothing.                                                        *)
(***************************************************************************)
PlainLostOnly ==
  \A m \in Msgs :
    nature[m] = "plain" /\ fate[m] = "dropped" => cancelled \/ signer = "down"

(***************************************************************************)
(* Unless a handler is stuck with the mutex, everything that was accepted  *)
(* comes to an end, failing handlers, a dead signer and a cancelled task   *)
(* in the middle of the row included.                                      *)
(***************************************************************************)
NothingStuck == \A m \in Msgs : nature[m] # "stuck"

AcceptedEnds ==
  \A m \in Msgs : fate[m] = "in" /\ NothingStuck ~> fate[m] # "in"

(***************************************************************************)
(* Handlers never hold up the listener, a stuck one neither: task 2 starts *)
(* children without a bound, so its channel always drains (node.rs:360).   *)
(***************************************************************************)
ListenerNotHeld == listener = "push" ~> listener # "push"

(***************************************************************************)
(* A cancelled node stops all four tasks, also when they spin on a channel *)
(* without senders or wait for one that is full.                           *)
(***************************************************************************)
CancelStops ==
  cancelled ~> listener = "ended" /\ \A t \in Loops : loop[t] = "ended"

(***************************************************************************)
(* The node is a Service to whoever reached its socket: the call is open   *)
(* once the datagram was received, and the service is up while task 4 is.  *)
(***************************************************************************)
CallOf(m) == CASE fate[m] \in {"unsent", "arrived", "lost"} -> "none"
               [] fate[m] = "in"                            -> "open"
               [] fate[m] = "answered"                      -> "answered"
               [] fate[m] = "dropped"                       -> "failed"

Serves == INSTANCE Service WITH
  Calls <- Msgs,
  call  <- [m \in Msgs |-> CallOf(m)],
  up    <- (loop["send"] = "running")

ServesMessages == Serves!Spec
=============================================================================
