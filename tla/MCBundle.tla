------------------------------ MODULE MCBundle ------------------------------
EXTENDS Bundle

(***************************************************************************)
(* An empty chain, one that fits the first buffer, one that does not, and  *)
(* one that reaches past the last u64.                                     *)
(***************************************************************************)
MCChains == {"empty", "b", "large", "late"}

MCSize == [empty |-> 1, b |-> 2, large |-> 3, late |-> 1]

MCOrigin == [empty |-> 0, b |-> 1, large |-> 2, late |-> 6]

MCGap == [empty |-> 0, b |-> 1, large |-> 5, late |-> 3]

MCVectors == {<< "b" >>, << "empty", "b" >>, << "b", "empty" >>, << "large", "empty" >>, << "large", "large" >>}
=============================================================================
