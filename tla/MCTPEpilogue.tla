---------------------------- MODULE MCTPEpilogue ----------------------------
(* Two ranks and three fused launches.  On the first grid the chunk counts   *)
(* differ, so that a pad is the final one of a launch and an inner one of    *)
(* the next; on the second, several compute blocks share a chunk, of the     *)
(* communication blocks the last to finish completes the rank, and a         *)
(* tp_nchunk above the cap is refused.                                       *)
EXTENDS TPEpilogue

MCNChunks == {1, 2}
MCGrids == {<< 1, 1, 2 >>, << 2, 2, 1 >>}

=============================================================================
