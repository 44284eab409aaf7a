------------------------------ MODULE Service ------------------------------
(***************************************************************************)
(* What a task that serves requests promises to whoever calls it: a call   *)
(* that was begun is answered, once, or it fails; once the service is      *)
(* closed nothing is answered any more; and no call stays open for ever.   *)
(*                                                                         *)
(* ReqResp (one worker task and its callers, src/src/req_resp.rs) and      *)
(* NodePipeline (the four tasks of a node, src/src/nodes/node.rs) both     *)
(* implement it.                                                           *)
(***************************************************************************)
EXTENDS Naturals

CONSTANT Calls

VARIABLES call, up

vars == << call, up >>

CallStates == {"none", "open", "answered", "failed"}

Init ==
  /\ call = [c \in Calls |-> "none"]
  /\ up = TRUE

Begin(c) ==
  /\ call[c] = "none"
  /\ call' = [call EXCEPT ![c] = "open"]
  /\ UNCHANGED up

Answer(c) ==
  /\ up
  /\ call[c] = "open"
  /\ call' = [call EXCEPT ![c] = "answered"]
  /\ UNCHANGED up

(***************************************************************************)
(* Any number of open calls fail at once, and the service may close with   *)
(* them.                                                                   *)
(***************************************************************************)
Fail(failing) ==
  /\ \A c \in failing : call[c] = "open"
  /\ call' = [c \in Calls |-> IF c \in failing THEN "failed" ELSE call[c]]
  /\ up' \in {up, FALSE}

Next ==
  \/ \E c \in Calls : Begin(c) \/ Answer(c)
  \/ \E failing \in SUBSET Calls : Fail(failing)

Ends(c) == Next /\ call[c] = "open" /\ call'[c] # "open"

Spec == Init /\ [][Next]_vars

FairSpec == Spec /\ \A c \in Calls : WF_vars(Ends(c))
=============================================================================
