------------------------------ MODULE MCReactor ------------------------------
(* Programs for three strands.  A call is a pair of its name and whether a  *)
(* timeout is around it.                                                    *)
EXTENDS Reactor

CONSTANTS A, B

Plain(S) == {<<c, FALSE>> : c \in S}
Timed(S) == {<<c, TRUE>> : c \in S}
Program(r, a, b) == [t \in Tasks |-> CASE t = Root -> r [] t = A -> a [] t = B -> b]

(* A channel and joins, under timeouts too.                                 *)
Messages == Program(Plain({"join", "yield"}) \union Timed({"join"}),
                    Plain({"send", "yield"}), Plain({"recv"}) \union Timed({"recv"}))
(* Joins given up by a strand that their end still wakes.                   *)
Abandons == Program(Plain({"send"}) \union Timed({"join"}), Plain({"recv"}), Plain({"net"}))
(* A contended mutex.                                                       *)
Locks == Program(Plain({"lock"}), Plain({"lock", "yield"}), Plain({"lock", "net"}))
(* Each blocking request has one strand that makes it.                      *)
Blocks == Program(Plain({"queue", "wait"}), Plain({"queue", "timer"}), Plain({"queue", "console", "net"}))
(* Messages with the peer cell.                                             *)
Peers == Program(Plain({"yield"}), Plain({"csend", "queue"}), Plain({"crecv"}) \union Timed({"crecv"}))

(* Two strands that sleep, and a lock waited for under a timeout.           *)
TwoSleepers == Program(Plain({"yield"}), Plain({"timer"}), Plain({"timer", "yield"}))
TimedLock == Program(Plain({"lock", "yield"}), Plain({"lock", "net"}), Timed({"lock"}))

AllPrograms == {Messages, Abandons, Locks, Blocks, Peers, TwoSleepers, TimedLock}
Sleepers == {TwoSleepers}
GiveUp == {TimedLock}
=============================================================================
