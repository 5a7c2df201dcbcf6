----------------------------- MODULE MCProgress -----------------------------
(* What comes to an end, one component explored at a time: a call of the    *)
(* frame pool under flat combining, and the waits of native cells (on s1,   *)
(* s2, ..., in the order NativeProc declares its variables).                *)
EXTENDS FrameCombining

(* No NUMA nodes are described.                                             *)
NoNodes == [node \in {} |-> <<0, 0>>]

(* A parent and its children, none of which polls.                          *)
LiveBoots ==
    {[launched |-> {0}, vcores |-> 1, spawners |-> {0}, net_irq |-> TRUE, dispatch |-> FALSE,
      funded |-> TRUE,
      issued |-> [c \in 0 .. 2 |-> IF c = 0 THEN {"spawn", "wait", "sleep", "exit"}
                                            ELSE {"sleep", "exit", "fault"}]]}

VARIABLES part, s1, s2, s3, s4, s5, s6, s7, s8, s9, s10, s11, s12

Native == INSTANCE NativeProc WITH
    MaxCells <- 3, MaxVcores <- 1, Boots <- LiveBoots, Codes <- {7}, Clients <- {"CellSleep"},
    MaxNow <- 2, MaxBytes <- 0, MaxFrames <- 0,
    boot <- s1, procs <- s2, present <- s3, ent <- s4, wait <- s5, ret <- s6, cpu <- s7,
    slot <- s8, now <- s9, bytes <- s10, eof <- s11, frames <- s12

native == <<s1, s2, s3, s4, s5, s6, s7, s8, s9, s10, s11, s12>>
all == <<part, vars, native>>

MCInit == Init /\ Native!Init /\ part \in {"pool", "cells"}

Pool_(A) == part = "pool" /\ A /\ UNCHANGED <<part, native>>
Cells_(A) == part = "cells" /\ A /\ UNCHANGED <<part, vars>>

MCNext == Pool_(Next) \/ Cells_(Native!Next)

(* The fairness of FrameCombining and of NativeProc.                        *)
MCFairSpec ==
    /\ MCInit /\ [][MCNext]_all
    /\ \A c \in Cpus : WF_all(Pool_(Proceed(c))) /\ WF_all(Pool_(Combine(c)))
    /\ WF_all(Cells_(Native!Scheduler))
    /\ WF_all(Cells_(Native!Tick /\ UNCHANGED <<s1, s2, s3, s4, s5, s6, s7, s8>>))
    /\ WF_all(Cells_(\E c \in Native!Cells : Native!HandsOff(c)))

(* A context that went to sleep runs again, unless the run ends first       *)
(* (nproc.rs, block_timer, wake_satisfiable and reschedule).                *)
SleepersRun ==
    \A c \in Native!Cells, v \in Native!Vcores :
        (part = "cells" /\ Native!Asleep(c, v)) ~> Native!GetsCpu(c, v)

(* Whoever waits for a child that has exited gets the CPU and the code      *)
(* (nproc.rs, process_exit and complete_block).                             *)
WaitersRun ==
    \A c \in Native!Cells, v \in Native!Vcores :
        (part = "cells" /\ Native!ChildExited(c, v)) ~> Native!GetsCpu(c, v)
=============================================================================
