---------------------------- MODULE MCNativeProc ----------------------------
(* Boots of NativeProc.                                                     *)
EXTENDS NativeProc

Boot(launched, vcores, spawners, issued) ==
    [launched |-> launched, vcores |-> vcores, spawners |-> spawners, issued |-> issued,
     net_irq |-> TRUE, dispatch |-> FALSE, funded |-> TRUE]
Calls(first, others) == [c \in Cells |-> IF c = 0 THEN first ELSE others]

(* Cell 0 runs a tree of children that sleep, read, yield, exit and fault.  *)
Tree == Boot({0}, 1, {0}, Calls({"spawn", "wait", "sleep", "yield", "exit"},
                                {"sleep", "input", "yield", "exit", "fault", "wait"}))
(* Two launched cells of two contexts that sleep and read.                  *)
Sleepers == Boot({0, 1}, 2, {}, Calls({"sleep", "input", "exit", "preempt"},
                                      {"sleep", "input", "exit", "preempt"}))
(* One receiver on a polled NIC beside two sleepers, in any pick order.     *)
Receiver == [Boot({0, 1, 2}, 1, {}, Calls({"net", "yield", "preempt"}, {"sleep", "yield", "exit_group"}))
                EXCEPT !.net_irq = FALSE, !.dispatch = TRUE]
(* Peers that hand the CPU to each other directly and never block; the      *)
(* third has none.                                                          *)
Switchers == Boot({0, 1, 2}, 1, {}, Calls({"switch", "yield", "exit"}, {"switch", "yield", "exit"}))

SafeBoots == {Tree, Sleepers, Receiver, Switchers}

(* One cell of two contexts that sleep and yield to each other.             *)
YieldBoots == {Boot({0}, 2, {}, Calls({"sleep", "yield", "exit"}, {}))}

(* Two cells that yield to each other.                                      *)
HandOnBoots == {Boot({0, 1}, 1, {}, Calls({"yield"}, {"yield"}))}
=============================================================================
