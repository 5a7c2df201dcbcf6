--------------------------- MODULE MCFrameLending ---------------------------
(* One cell's frame, lent to another.  No NUMA nodes are described.         *)
EXTENDS FrameLending

NoNodes == [node \in {} |-> <<0, 0>>]
=============================================================================
