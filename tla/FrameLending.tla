---------------------------- MODULE FrameLending ----------------------------
(* The frame pool beside the mappings that take no reference.  A grant      *)
(* shared with a peer (SYS_GRANT_SHARE) and a channel inherited by a        *)
(* spawned child map a frame of another cell without a frames:: call; the   *)
(* exit of the cell that borrowed it frees every leaf of its address space. *)
EXTENDS FramePool

CONSTANT Borrowers    \* leaf entries that map another cell's frames

VARIABLE lent         \* the frame each borrower maps, 0 when unmapped

lendingVars == <<pool, maps, writable, call, lent>>

(* share_ro_into and share_rw_into, one leaf; map_channel_into does the     *)
(* same with the frames of a channel.                                       *)
share_into(m, b) ==
    /\ ~Busy(m) /\ maps[m] # NoFrame /\ lent[b] = NoFrame
    /\ lent' = [lent EXCEPT ![b] = maps[m]]
    /\ UNCHANGED vars

(* process_exit of the borrowing cell, free_user_frames at this leaf.       *)
exit_borrower(c, b) ==
    /\ call[c].st = "idle" /\ lent[b] # NoFrame
    /\ call' = [call EXCEPT ![c] = Called("free", 0, 0, lent[b])]
    /\ lent' = [lent EXCEPT ![b] = NoFrame]
    /\ UNCHANGED <<pool, maps, writable>>

LendingInit == Init /\ lent = [b \in Borrowers |-> NoFrame]

LendingNext ==
    \/ Next /\ UNCHANGED lent
    \/ \E b \in Borrowers : \/ \E m \in Mappings : share_into(m, b)
                            \/ \E c \in Cpus : exit_borrower(c, b)

LendingSpec == LendingInit /\ [][LendingNext]_lendingVars

----------------------------------------------------------------------------
(* A shared grant's frames are "owned by the client, so never freed twice"  *)
(* (user.rs, grant_share): no release hits the "double free" assertion.     *)
NeverFreedTwice == ~pool.panicked
=============================================================================
