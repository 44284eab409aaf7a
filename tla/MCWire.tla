------------------------------- MODULE MCWire -------------------------------
EXTENDS Wire

(***************************************************************************)
(* With H = 2 and MAX = 7: messages smaller than a header, as large as one *)
(* and larger; one that udp_send_to cannot send (6), for the padding needs *)
(* 8 cells, and one that does not encode; one for another node, and one in *)
(* the name of a node that did not sign it.                                *)
(***************************************************************************)
MCMessage(sender, signer, receiver, size) ==
  [sender |-> sender, signer |-> signer, receiver |-> receiver, size |-> size]

MCMsgs ==
  {MCMessage("p", "p", "q", 1), MCMessage("p", "p", "q", 2),
   MCMessage("p", "p", "q", 3), MCMessage("p", "p", "q", 4),
   MCMessage("p", "p", "q", 6), MCMessage("q", "q", "p", 3),
   MCMessage("q", "p", "q", 3)}
=============================================================================
