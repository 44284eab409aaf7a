--------------------------- MODULE MCChainExecutor ---------------------------
(***************************************************************************)
(* ChainExecutor on small instances.  A hash is the record of what was     *)
(* hashed.                                                                 *)
(***************************************************************************)
EXTENDS ChainExecutor, TLC

MCHash(x) == [sha256 |-> x]

MCMainLimit == [max_len |-> 3, time_gap |-> 1]
MCSideLimit == [max_len |-> 2, time_gap |-> 1]

(***************************************************************************)
(* Nothing tells one datum from another.  chain_buf never changes, and     *)
(* only add_block reads it, whose result nothing reads.                    *)
(***************************************************************************)
MCSymmetry == Permutations(Data)

MCView == << main, sides, draft, writes >>
=============================================================================
