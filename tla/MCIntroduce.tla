---------------------------- MODULE MCIntroduce ----------------------------
(***************************************************************************)
(* A friend with three addresses, two of them on one host, as in the tests *)
(* of node.rs, and one other node that sends us messages.                  *)
(***************************************************************************)
EXTENDS Introduce

CONSTANTS h1, h2, h3

MCHost == << h1, h1, h2 >>
=============================================================================
