----------------------------- MODULE ByteStream -----------------------------
(***************************************************************************)
(* What the producer and the consumer of src/src/fpsc promise each other:  *)
(* every byte accepted is delivered at most once, in order, and never more *)
(* than Capacity bytes are under way.  A session may be closed and another *)
(* opened.                                                                 *)
(***************************************************************************)
EXTENDS Naturals, Sequences

CONSTANT Capacity

VARIABLES accepted, delivered

vars == << accepted, delivered >>

Init == accepted = << >> /\ delivered = << >>

Extends(s, t) ==
  Len(s) <= Len(t) /\ \A i \in 1 .. Len(s) : t[i] = s[i]

Accept ==
  /\ Extends(accepted, accepted')
  /\ Len(accepted') <= Len(delivered) + Capacity
  /\ UNCHANGED delivered

Deliver ==
  /\ Extends(delivered, delivered')
  /\ Extends(delivered', accepted)
  /\ UNCHANGED accepted

Open == accepted' = << >> /\ delivered' = << >>

Next == Accept \/ Deliver \/ Open

Spec == Init /\ [][Next]_vars
=============================================================================
