----------------------------- MODULE Introduce -----------------------------
(***************************************************************************)
(* A node asks a friend to introduce somebody new: Node::make_new          *)
(* (src/src/nodes/node.rs), which first finds out at which of the friend's *)
(* addresses somebody answers, with check_addresses_available              *)
(* (src/src/network/udp.rs).                                               *)
(*                                                                         *)
(* The probes of all addresses are futures of one join_all: one task polls *)
(* them in their order, and each binds the same port.  A datagram is kept  *)
(* in `net' until the port it was sent to takes it, or it is lost.  Peers  *)
(* that run the pipeline of node.rs answer to where the request came from, *)
(* and start and stop whenever they like.                                  *)
(*                                                                         *)
(* been_up and introduced are history variables.                           *)
(***************************************************************************)
EXTENDS Naturals, FiniteSetsExt

CONSTANTS
  N,           \* length of the friend's list of addresses
  Host,        \* the ip of each of them
  Strangers,   \* ips of other nodes that send us messages
  NetBound     \* bound on the datagrams under way

Addrs == 1 .. N

ASSUME NAssumption == N \in Nat
ASSUME HostAssumption == DOMAIN Host = Addrs
ASSUME NetBoundAssumption == NetBound \in Nat

VARIABLES
  alive,       \* the addresses at which a node listens
  friend,      \* what we know of the introducer
  pc,          \* where make_new is
  probe,       \* the futures of join_all, one for each address
  result,      \* of the last call
  net,         \* the datagrams on their way to us
  been_up,     \* the hosts at which a node has listened
  introduced   \* the datagram with the introduction the last call returned

history == << been_up, introduced >>
introVars == << alive, friend, pc, probe, result, net, history >>

Friends == {"stranger", "no address", "no name", "known"}

Ports == {"check", "recv"}           \* UDP_CHECK_PORT, UDP_RECV_PORT

Kinds == {"Empty", "IntroduceResp", "undecodable"}

LiveHosts == {Host[a] : a \in alive} \cup Strangers

HostsSeen == been_up \cup Strangers

(***************************************************************************)
(* A source is an ip and a port: an address of the list, or 0 for another  *)
(* port of that ip.                                                        *)
(***************************************************************************)
Sources(h) == {a \in Addrs : Host[a] = h} \cup {0}

Datagram == [port : Ports, host : Strangers \cup {Host[a] : a \in Addrs},
             addr : Addrs \cup {0}, kind : Kinds, asked : BOOLEAN]

IntroInit ==
  /\ alive \in SUBSET Addrs
  /\ friend \in Friends
  /\ pc = "idle"
  /\ probe = [a \in Addrs |-> "new"]
  /\ result = "none"
  /\ net = {}
  /\ been_up = {Host[a] : a \in alive}
  /\ introduced = {}

(***************************************************************************)
(* The results are collected in the order of the list.                     *)
(***************************************************************************)
Available == {a \in Addrs : probe[a] = "ok"}

-----------------------------------------------------------------------------
(***************************************************************************)
(* A node starts or stops, between two calls or during one.  What it has   *)
(* sent is still under way when it has stopped.                            *)
(***************************************************************************)
NodeUp(a) ==
  /\ a \notin alive
  /\ alive' = alive \cup {a}
  /\ been_up' = been_up \cup {Host[a]}
  /\ UNCHANGED << friend, pc, probe, result, net, introduced >>

NodeDown(a) ==
  /\ a \in alive
  /\ alive' = alive \ {a}
  /\ UNCHANGED << friend, pc, probe, result, net, history >>

-----------------------------------------------------------------------------
(***************************************************************************)
(* A request that reaches a node is answered by its pipeline: from its     *)
(* bind address for sending, whatever that is, to the port from which the  *)
(* request came, which is UDP_CHECK_PORT for both requests of make_new.    *)
(***************************************************************************)
Answers(a, kind) ==
  {[port |-> "check", host |-> Host[a], addr |-> s, kind |-> kind, asked |-> TRUE]
     : s \in IF a \in alive THEN Sources(Host[a]) ELSE {}}

Request(a, kind) ==
  \/ net' = net                                      \* lost, on either way
  \/ /\ Cardinality(net) < NetBound
     /\ \E d \in Answers(a, kind) : net' = net \cup {d}

Stray ==
  /\ Cardinality(net) < NetBound
  /\ \E h \in LiveHosts, p \in Ports, k \in Kinds : \E s \in Sources(h) :
       net' = net \cup {[port |-> p, host |-> h, addr |-> s, kind |-> k,
                         asked |-> FALSE]}
  /\ UNCHANGED << alive, friend, pc, probe, result, history >>

Lose(d) ==
  /\ net' = net \ {d}
  /\ UNCHANGED << alive, friend, pc, probe, result, history >>

-----------------------------------------------------------------------------
Return(r, from) ==
  /\ pc' = "idle"
  /\ result' = r
  /\ introduced' = from
  /\ UNCHANGED << alive, friend, probe, been_up >>

ReturnErr == Return("err", {})

(***************************************************************************)
(* What a datagram that is listened to makes of the call.                  *)
(***************************************************************************)
ReturnIf(good, d) == IF good THEN Return("ok", {d}) ELSE ReturnErr

(***************************************************************************)
(* The introducer must be a friend with addresses; to make the probe       *)
(* message it has to be signed, which may fail.                            *)
(***************************************************************************)
MakeNew ==
  /\ pc = "idle"
  /\ friend \notin {"stranger", "no address"}
  /\ N > 0
  /\ pc' = "probing"
  /\ probe' = [a \in Addrs |-> "new"]
  /\ result' = "none"
  /\ introduced' = {}
  /\ UNCHANGED << alive, friend, net, been_up >>

MakeNewFails ==
  /\ pc = "idle"
  /\ ReturnErr
  /\ UNCHANGED net

(***************************************************************************)
(* check_addr_available: the first poll of each future.  Only one socket   *)
(* can be bound to UDP_CHECK_PORT.                                         *)
(***************************************************************************)
Probed(a, p) == probe' = [probe EXCEPT ![a] = p]

ProbeSends(a) ==
  /\ pc = "probing"
  /\ probe[a] = "new"
  /\ \A b \in 1 .. a - 1 : probe[b] # "new"
  /\ \A b \in Addrs : probe[b] # "open"
  /\ Request(a, "Empty")
  /\ Probed(a, "open")
  /\ UNCHANGED << alive, friend, pc, result, history >>

(***************************************************************************)
(* bind fails because another probe or another program has the port, or    *)
(* send_to fails.                                                          *)
(***************************************************************************)
ProbeFails(a) ==
  /\ pc = "probing"
  /\ probe[a] = "new"
  /\ \A b \in 1 .. a - 1 : probe[b] # "new"
  /\ Probed(a, "err")
  /\ UNCHANGED << alive, friend, pc, result, net, history >>

ProbeTimeout(a) ==
  /\ probe[a] = "open"
  /\ Probed(a, "err")
  /\ UNCHANGED << alive, friend, pc, result, net, history >>

(***************************************************************************)
(* Mutant of ProbeHears: whoever answers first will do.                    *)
(***************************************************************************)
ProbeHearsAnybody(a, d) ==
  /\ probe[a] = "open"
  /\ d.port = "check"
  /\ Probed(a, IF d.kind = "Empty" THEN "ok" ELSE "err")
  /\ net' = net \ {d}
  /\ UNCHANGED << alive, friend, pc, result, history >>

(***************************************************************************)
(* The first datagram decides: it must come from the ip that was probed    *)
(* and be an Empty message to us.                                          *)
(***************************************************************************)
ProbeHears(a, d) ==
  /\ probe[a] = "open"
  /\ d.port = "check"
  /\ Probed(a, IF d.host = Host[a] /\ d.kind = "Empty" THEN "ok" ELSE "err")
  /\ net' = net \ {d}
  /\ UNCHANGED << alive, friend, pc, result, history >>

(***************************************************************************)
(* Mutants of ProbesDone: the open probe is not awaited; an answer is      *)
(* awaited although all probes have failed.                                *)
(***************************************************************************)
ProbesDoneEarly ==
  /\ pc = "probing"
  /\ \A a \in Addrs : probe[a] # "new"
  /\ pc' = "checked"
  /\ UNCHANGED << alive, friend, probe, result, net, history >>

ProbesDoneOnAnswer ==
  /\ pc = "probing"
  /\ Available # {}
  /\ pc' = "checked"
  /\ UNCHANGED << alive, friend, probe, result, net, history >>

ProbesDone ==
  /\ pc = "probing"
  /\ \A a \in Addrs : probe[a] \notin {"new", "open"}
  /\ pc' = "checked"
  /\ UNCHANGED << alive, friend, probe, result, net, history >>

-----------------------------------------------------------------------------
(***************************************************************************)
(* udp_send_to sends the request to the first available address, from      *)
(* UDP_CHECK_PORT, which must be free again.                               *)
(***************************************************************************)
SendRequest ==
  /\ pc = "checked"
  /\ Available # {}
  /\ friend # "no name"
  /\ \A a \in Addrs : probe[a] # "open"
  /\ Request(Min(Available), "IntroduceResp")
  /\ pc' = "listening"
  /\ UNCHANGED << alive, friend, probe, result, history >>

(***************************************************************************)
(* There is no available address, the introducer's name is missing, or     *)
(* udp_send_to fails.                                                      *)
(***************************************************************************)
SendRequestFails ==
  /\ pc = "checked"
  /\ ReturnErr
  /\ UNCHANGED net

(***************************************************************************)
(* udp_recv_from on UDP_RECV_PORT: a timeout, or the port is taken.        *)
(***************************************************************************)
ListenFails ==
  /\ pc = "listening"
  /\ ReturnErr
  /\ UNCHANGED net

(***************************************************************************)
(* Mutant of Listen: only the ip of the source is compared, as the probes  *)
(* do.                                                                     *)
(***************************************************************************)
ListenToHost(d) ==
  /\ pc = "listening"
  /\ d.port = "recv"
  /\ ReturnIf(d.host = Host[1] /\ d.kind = "IntroduceResp", d)
  /\ net' = net \ {d}

(***************************************************************************)
(* One datagram decides: it must come from the first address of the list,  *)
(* ip and port, whichever the request was sent to, and carry an            *)
(* introduction.  Nothing ties it to the request.                          *)
(***************************************************************************)
Listen(d) ==
  /\ pc = "listening"
  /\ d.port = "recv"
  /\ ReturnIf(d.addr = 1 /\ d.kind = "IntroduceResp", d)
  /\ net' = net \ {d}

-----------------------------------------------------------------------------
IntroNext ==
  \/ MakeNew \/ MakeNewFails \/ ProbesDone
  \/ \E a \in Addrs : ProbeSends(a) \/ ProbeFails(a) \/ ProbeTimeout(a)
  \/ SendRequest \/ SendRequestFails \/ ListenFails
  \/ Stray \/ \E a \in Addrs : NodeUp(a) \/ NodeDown(a)
  \/ \E d \in net : Listen(d) \/ Lose(d) \/ \E a \in Addrs : ProbeHears(a, d)

(***************************************************************************)
(* The task is polled, and time passes: both waits have a timeout.         *)
(***************************************************************************)
IntroFairness ==
  /\ \A a \in Addrs :
       WF_introVars(ProbeSends(a) \/ ProbeFails(a)) /\ WF_introVars(ProbeTimeout(a))
  /\ WF_introVars(ProbesDone) /\ WF_introVars(SendRequest \/ SendRequestFails)
  /\ WF_introVars(ListenFails)

IntroSpec == IntroInit /\ [][IntroNext]_introVars /\ IntroFairness

IntroTypeOK ==
  /\ alive \in SUBSET Addrs
  /\ friend \in Friends
  /\ pc \in {"idle", "probing", "checked", "listening"}
  /\ probe \in [Addrs -> {"new", "open", "ok", "err"}]
  /\ result \in {"none", "ok", "err"}
  /\ net \in SUBSET Datagram
  /\ been_up \in SUBSET {Host[a] : a \in Addrs}
  /\ introduced \in SUBSET Datagram

-----------------------------------------------------------------------------
(***************************************************************************)
(* An address is found available only if a node has been up at its host:   *)
(* whatever other nodes send to the fixed port, and whichever probe has    *)
(* the port when it comes, a host that never listened is not available     *)
(* (udp.rs:121-135).  The host may be down by now, also since before the   *)
(* call: an answer that was under way when it stopped is taken.            *)
(***************************************************************************)
AvailableHostSeen == \A a \in Available : Host[a] \in HostsSeen

(***************************************************************************)
(* The check leaves no socket behind, and never two of them: whoever       *)
(* binds UDP_CHECK_PORT next, the request of this call or the probes of    *)
(* the next one, does not meet a socket of our own (udp.rs:94, 113).       *)
(***************************************************************************)
PortFree ==
  /\ \A a, b \in Addrs : probe[a] = "open" /\ probe[b] = "open" => a = b
  /\ pc # "probing" => \A a \in Addrs : probe[a] # "open"

(***************************************************************************)
(* The probes of one call come to a result each and have the port in turn. *)
(***************************************************************************)
ProbeInv ==
  /\ IntroTypeOK
  /\ PortFree

(***************************************************************************)
(* When a call returns somebody, a known friend had answered the check of  *)
(* this very call, and the introduction came from the first address of the *)
(* friend, ip and port, where the probes compare the ip alone; from a host *)
(* at which a node has been up (node.rs:605-617).  It may come unasked, and *)
(* another address may have answered the check.                            *)
(***************************************************************************)
IntroducedByFriend ==
  result = "ok" =>
    /\ friend = "known" /\ Available # {}
    /\ \E d \in introduced : d.addr = 1 /\ d.host = Host[1]
    /\ Host[1] \in HostsSeen

(***************************************************************************)
(* Every call returns, whatever is lost (node.rs:565-624).                 *)
(***************************************************************************)
CallEnds == pc # "idle" ~> pc = "idle"

(***************************************************************************)
(* "send the message to the introducer, then wait for the response"        *)
(* (node.rs:597): the response comes to the port on which make_new waits.  *)
(***************************************************************************)
ResponseComesToPort ==
  \A d \in net : d.asked /\ d.kind = "IntroduceResp" => d.port = "recv"
=============================================================================
