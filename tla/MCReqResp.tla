----------------------------- MODULE MCReqResp -----------------------------
(***************************************************************************)
(* ReqResp with three clients on a queue of one: a client that             *)
(* waits for room, one that waits for its answer, one in hand.             *)
(***************************************************************************)
EXTENDS ReqResp
=============================================================================
