--------------------------- MODULE MCNodePipeline ---------------------------
(***************************************************************************)
(* Three messages on channels with room for one: one being encoded, one in *)
(* the channel and one that waits for room.  They come in every order, so  *)
(* that one mix stands for its permutations.                               *)
(***************************************************************************)
EXTENDS NodePipeline

MCMixes == { << "plain", "plain",   "plain" >>,
             << "plain", "plain",   "failing" >>,
             << "plain", "plain",   "stuck" >>,
             << "plain", "plain",   "unreachable" >>,
             << "plain", "garbage", "oversize" >> }
=============================================================================
