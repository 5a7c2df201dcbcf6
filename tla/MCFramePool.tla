---------------------------- MODULE MCFramePool ----------------------------
(* The frame pool's promise on a small pool.                                *)
EXTENDS FramePool

MCNodeRange == [node \in {1} |-> <<1, 2>>]
=============================================================================
