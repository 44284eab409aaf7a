---------------------------- MODULE MCBlockChain ----------------------------
(***************************************************************************)
(* BlockChain on small instances.  A hash is the record of what was        *)
(* hashed: no two inputs share one.                                        *)
(***************************************************************************)
EXTENDS BlockChain, TLC

MCHash(x) == [sha256 |-> x]

(***************************************************************************)
(* With two timestamps, origin 1 and time_gap 1 make time_start + time_gap *)
(* wrap around; with time_gap 0 the window is one timestamp.               *)
(***************************************************************************)
MCLimits == {[max_len |-> 3, time_gap |-> 1], [max_len |-> 2, time_gap |-> 0],
             [max_len |-> 0, time_gap |-> 1]}

(***************************************************************************)
(* Nothing tells one datum from another.                                   *)
(***************************************************************************)
MCSymmetry == Permutations(Data)
=============================================================================
