----------------------------- MODULE NativeProc -----------------------------
(* Native processes (kernel/src/nproc.rs): SYS_SPAWN and SYS_WAIT, the      *)
(* waits on a timer, the console and the network, and the scheduler that    *)
(* parks, wakes and resumes the execution contexts (vcores) of the cells on *)
(* one CPU.  Contexts run one at a time and enter the kernel at a call, a   *)
(* fault or a preemption; the clock, the console and the NIC go their own   *)
(* way.                                                                     *)
EXTENDS Integers, FiniteSets

CONSTANTS
    MaxCells,    \* MAX_CELLS: the slots of the cell table
    MaxVcores,   \* the most contexts of a cell
    Boots,       \* the machines and programs to start
    Codes,       \* exit codes
    Clients,     \* the arbiter's slots a sleep may name
    MaxNow,      \* bound: the latest deadline; the clock stops one tick after
    MaxBytes,    \* bound: bytes in the console ring
    MaxFrames    \* bound: frames in the receive queue

Cells == 0 .. MaxCells - 1
Vcores == 0 .. MaxVcores - 1
Nobody == -1

ASSUME ConstantsAssumption ==
    /\ MaxCells \in Nat \ {0} /\ MaxVcores \in Nat \ {0}
    /\ \A b \in Boots :
         /\ b.launched \subseteq Cells /\ 0 \in b.launched /\ b.spawners \subseteq b.launched
         /\ b.vcores \in 1 .. MaxVcores
         /\ b.issued \in [Cells -> SUBSET {"spawn", "wait", "sleep", "input", "net", "yield",
                                           "switch", "exit", "exit_group", "fault", "preempt"}]
         /\ b.net_irq \in BOOLEAN /\ b.dispatch \in BOOLEAN /\ b.funded \in BOOLEAN
    /\ Codes \subseteq Nat /\ MaxNow \in Nat /\ MaxBytes \in Nat /\ MaxFrames \in Nat

(* A boot: the cells the launcher installed, their contexts (a spawned cell *)
(* has one), those holding the cell-spawn capability, the calls each cell   *)
(* makes; whether the NIC interrupts (net_irq_enabled), whether the ready   *)
(* queue orders the picks (dispatch::enabled), and whether the cells can    *)
(* fund their wait records.                                                 *)
VARIABLES
    boot,     \* the boot, fixed from the start
    procs,    \* PROCS: each cell's process entry
    present,  \* the cells that exist
    ent,      \* each context's scheduler entity
    wait,     \* each context's wait record
    ret,      \* each context's return register
    cpu,      \* what the CPU is doing, and the context it is in
    slot,     \* the timer arbiter's deadlines, by client
    now,      \* ktimer::now_ns()
    bytes,    \* bytes buffered in the console ring
    eof,      \* the console script is exhausted
    frames    \* frames in the receive queue

vars == <<boot, procs, present, ent, wait, ret, cpu, slot, now, bytes, eof, frames>>
world == <<boot, now, bytes, eof, frames>>

(* Return registers: one the kernel has not written since the trap, in a    *)
(* call that waits (UNSET) or that hands the CPU on (HANDED).               *)
UNSET == -1
HANDED == -4
MAX == -2
FAULT_EXIT == -3
Disarmed == -1

----------------------------------------------------------------------------
(* What a context waits for.  Deadlines are absolute; 0 on a receive means  *)
(* no deadline.                                                             *)
Block(on, child, until, client) ==
    [on |-> on, child |-> child, until |-> until, client |-> client]
None == Block("none", 0, 0, "RxDeadline")
EMPTY == [block |-> None, child |-> 0]

Proc(state, parent, code) == [state |-> state, parent |-> parent, code |-> code]
FreeProc == Proc("Free", Nobody, 0)

NVcores(c) == IF c \in boot.launched THEN boot.vcores ELSE 1

parked(c, v) == ent[c][v] = "parked"

(* user::vcore_on_this_cpu, with the one CPU owning every context.          *)
live(c, v) == ent[c][v] \in {"runnable", "parked"}

(* entity::all_parked, asked of the cell once context v has parked.         *)
all_parked(c, v) == \A w \in Vcores \ {v} : live(c, w) => parked(c, w)

(* sources_of, as the set of sources.                                       *)
sources_of(b) ==
    CASE b.on = "none" -> {}
      [] b.on = "wait" -> {"PEER"}
      [] b.on = "timer" -> {"TIMER"}
      [] b.on = "console" -> {"CONSOLE"}
      [] b.on = "net" -> {"NET"} \cup (IF b.until # 0 THEN {"TIMER"} ELSE {})
WAITABLE == {"TIMER", "NET", "CONSOLE"}

blocked_sources ==
    UNION {sources_of(wait[p[1]][p[2]].block) :
              p \in {q \in Cells \X Vcores : parked(q[1], q[2])}}

reached(t) == t <= now

SatisfiableBySlot(b) ==
    CASE b.on = "none" -> FALSE
      [] b.on = "wait" -> procs[b.child].state = "Zombie"
      [] b.on = "timer" -> slot[b.client] = Disarmed \/ reached(slot[b.client])
      [] b.on = "console" -> bytes > 0 \/ eof
      [] b.on = "net" -> frames > 0 \/ (b.until # 0 /\ reached(b.until))

SatisfiableAfterReap(b) ==
    CASE b.on = "none" -> FALSE
      [] b.on = "wait" -> procs[b.child].state = "Free"
      [] b.on = "timer" -> reached(b.until)
      [] b.on = "console" -> bytes > 0 \/ eof
      [] b.on = "net" -> frames > 0 \/ (b.until # 0 /\ reached(b.until))

satisfiable(b) ==
    CASE b.on = "none" -> FALSE
      [] b.on = "wait" -> procs[b.child].state = "Zombie"
      [] b.on = "timer" -> reached(b.until)
      [] b.on = "console" -> bytes > 0 \/ eof
      [] b.on = "net" -> frames > 0 \/ (b.until # 0 /\ reached(b.until))

EnterableLive(c) == {v \in Vcores : live(c, v)}

(* The contexts of c that may be entered; runnable_vcore scans them from    *)
(* the context the CPU is in.                                               *)
Enterable(c) == {v \in Vcores : live(c, v) /\ ~parked(c, v)}
FirstFrom(n, from, S) ==
    LET Step(k) == (from + k) % n
    IN Step(CHOOSE k \in 0 .. n : Step(k) \in S /\ \A j \in 0 .. n : Step(j) \in S => k <= j)
runnable_vcore(c) == FirstFrom(NVcores(c), cpu.v, Enterable(c))

(* dispatch::pick: round-robin after the leaving cell; the ready queue may  *)
(* choose any other eligible cell.                                          *)
Picks(leaving, S) == IF boot.dispatch THEN S ELSE {FirstFrom(MaxCells, leaving + 1, S)}

schedulable(c) ==
    /\ c \in present
    /\ procs[c].state \in {"Free", "Runnable"}
    /\ Enterable(c) # {}

(* A sibling context that will run again.                                   *)
SiblingGoesOn(c, v) ==
    \E w \in Vcores \ {v} :
        live(c, w) /\ (~parked(c, w) \/ sources_of(wait[c][w].block) \cap WAITABLE # {})

CanRescheduleToRunnable(c) ==
    \/ SiblingGoesOn(c, cpu.v)
    \/ \E i \in Cells \ {c} : schedulable(i)

can_reschedule(c) ==
    \/ SiblingGoesOn(c, cpu.v)
    \/ \E i \in Cells \ {c} :
        \/ schedulable(i)
        \/ /\ i \in present /\ procs[i].state = "Blocked"
           /\ sources_of(wait[i][0].block) \cap WAITABLE # {}

----------------------------------------------------------------------------
(* Writing the wait record of a context past the first needs a funded tail; *)
(* without one the write goes to a scratch record nobody reads.             *)
Recorded(c, v, w) == IF v = 0 \/ boot.funded THEN [wait EXCEPT ![c][v] = w] ELSE wait

ensure_top(p, c) == IF p[c].state = "Free" THEN [p EXCEPT ![c] = Proc("Runnable", Nobody, 0)] ELSE p

(* ensure_tracked: every present cell has an entry.                         *)
Tracked == [c \in Cells |-> IF c \in present /\ procs[c].state = "Free"
                            THEN Proc("Runnable", Nobody, 0) ELSE procs[c]]

(* park_vcore: record the reason, park the entity, and block the cell when  *)
(* every context of it is parked.                                           *)
park_vcore(p, c, v, b) ==
    /\ wait' = Recorded(c, v, [block |-> b, child |-> IF b.on = "wait" THEN b.child ELSE wait[c][v].child])
    /\ ent' = [ent EXCEPT ![c][v] = "parked"]
    /\ ret' = [ret EXCEPT ![c][v] = UNSET]
    /\ procs' = IF all_parked(c, v) THEN [p EXCEPT ![c].state = "Blocked"] ELSE p
    /\ cpu' = [cpu EXCEPT !.at = "wake"]

(* reap: the zombie's entry and its cell slot are free again.               *)
Reaped(z) ==
    /\ procs' = [procs EXCEPT ![z] = FreeProc]
    /\ present' = present \ {z}
    /\ ent' = [ent EXCEPT ![z] = [v \in Vcores |-> "free"]]

Awaits(c, z) == procs[z].state = "Zombie" /\ procs[z].parent = c

(* What draining answers: everything buffered on the console, one frame.    *)
Answer(b) ==
    CASE b.on = "timer" -> 0
      [] b.on = "console" -> bytes
      [] b.on = "net" -> IF frames > 0 THEN 1 ELSE 0

AnsweredUnchecked(c, v, b, r) ==
    /\ ret' = [r EXCEPT ![c][v] = Answer(b)]
    /\ slot' = IF b.on = "timer" \/ (b.on = "net" /\ b.until # 0)
               THEN [slot EXCEPT ![b.client] = Disarmed] ELSE slot
    /\ bytes' = IF b.on = "console" THEN 0 ELSE bytes
    /\ frames' = IF b.on = "net" THEN frames - 1 ELSE frames

(* The wait b of context v is answered, r being the other registers.        *)
Answered(c, v, b, r) ==
    /\ ret' = [r EXCEPT ![c][v] = Answer(b)]
    /\ slot' = IF b.on = "timer" \/ (b.on = "net" /\ b.until # 0)
               THEN [slot EXCEPT ![b.client] = Disarmed] ELSE slot
    /\ bytes' = IF b.on = "console" THEN 0 ELSE bytes
    /\ frames' = IF b.on = "net" /\ frames > 0 THEN frames - 1 ELSE frames

CompleteWithZero(c, v, r) ==
    LET w == wait[c][v] IN
    IF Awaits(c, w.child)
    THEN /\ Reaped(w.child)
         /\ wait' = Recorded(c, v, EMPTY)
         /\ ret' = [r EXCEPT ![c][v] = 0]
         /\ UNCHANGED <<slot, bytes, frames>>
    ELSE /\ wait' = Recorded(c, v, [w EXCEPT !.block = None])
         /\ UNCHANGED <<procs, present, ent>>
         /\ IF w.block.on \in {"none", "wait"} THEN ret' = r /\ UNCHANGED <<slot, bytes, frames>>
            ELSE Answered(c, v, w.block, r)

(* complete_block: a zombie this context waited for is reaped into its      *)
(* return register; otherwise the pending wait, if any, is answered.        *)
complete_block(c, v, r) ==
    LET w == wait[c][v] IN
    IF Awaits(c, w.child)
    THEN /\ Reaped(w.child)
         /\ wait' = Recorded(c, v, EMPTY)
         /\ ret' = [r EXCEPT ![c][v] = procs[w.child].code]
         /\ UNCHANGED <<slot, bytes, frames>>
    ELSE /\ wait' = Recorded(c, v, [w EXCEPT !.block = None])
         /\ UNCHANGED <<procs, present, ent>>
         /\ IF w.block.on \in {"none", "wait"} THEN ret' = r /\ UNCHANGED <<slot, bytes, frames>>
            ELSE Answered(c, v, w.block, r)

EnterUnanswered(c, v, r) ==
    /\ cpu' = [cpu EXCEPT !.at = "user", !.cell = c, !.v = v]
    /\ ret' = r
    /\ UNCHANGED <<procs, present, ent, wait, slot, world>>

(* Hand the CPU to context v of cell c, finishing its call; r is the        *)
(* registers as the context that had the CPU left them.                     *)
Enter(c, v, r) ==
    /\ cpu' = [cpu EXCEPT !.at = "user", !.cell = c, !.v = v]
    /\ complete_block(c, v, r)
    /\ UNCHANGED <<boot, now, eof>>

----------------------------------------------------------------------------
(* The calls.                                                               *)

Running(c, call) == cpu.at = "user" /\ cpu.cell = c /\ call \in boot.issued[c]
Returns(c, r) == ret' = [ret EXCEPT ![c][cpu.v] = r]

(* SYS_SPAWN: into the first free slot.  Everything from the path to the    *)
(* mint of the child's capabilities may fail; only the caller's own entry   *)
(* is left behind then.                                                     *)
spawn(c) ==
    LET child == CHOOSE i \in Cells : /\ i \notin present /\ procs[i].state = "Free"
                                      /\ \A j \in 0 .. i - 1 : j \in present \/ procs[j].state # "Free"
        room == \E i \in Cells : i \notin present /\ procs[i].state = "Free"
    IN /\ Running(c, "spawn")
       /\ IF c \notin boot.spawners \/ ~room
          THEN Returns(c, MAX) /\ UNCHANGED <<procs, present, ent>>
          ELSE \/ /\ Returns(c, MAX)
                  /\ procs' = ensure_top(procs, c)
                  /\ UNCHANGED <<present, ent>>
               \/ /\ Returns(c, child)
                  /\ procs' = [ensure_top(procs, c) EXCEPT ![child] = Proc("Runnable", c, 0)]
                  /\ present' = present \cup {child}
                  /\ ent' = [ent EXCEPT ![child][0] = "runnable"]
       /\ UNCHANGED <<wait, cpu, slot, world>>

(* SYS_WAIT.                                                                *)
wait_child(c, child) ==
    /\ Running(c, "wait")
    /\ IF procs[child].parent # c \/ procs[child].state = "Free"
       THEN Returns(c, MAX) /\ UNCHANGED <<procs, present, ent, wait, cpu>>
       ELSE IF procs[child].state = "Zombie"
       THEN Returns(c, procs[child].code) /\ Reaped(child) /\ UNCHANGED <<wait, cpu>>
       ELSE park_vcore(procs, c, cpu.v, Block("wait", child, 0, "RxDeadline")) /\ UNCHANGED present
    /\ UNCHANGED <<slot, world>>

(* A wait taken inside the trap, the CPU staying in this context.           *)
InTrap(c, b) ==
    /\ cpu' = [cpu EXCEPT !.at = "trap", !.block = b]
    /\ ret' = [ret EXCEPT ![c][cpu.v] = UNSET]
    /\ UNCHANGED <<procs, ent, wait>>

Registered(client, until) == slot' = [slot EXCEPT ![client] = until]

(* SYS_ARM_TIMER: the deadline goes to the arbiter either way.              *)
block_timer(c, d, client) ==
    LET b == Block("timer", 0, now + d, client) IN
    /\ Running(c, "sleep") /\ now + d <= MaxNow
    /\ Registered(client, now + d)
    /\ IF can_reschedule(c) THEN park_vcore(Tracked, c, cpu.v, b) ELSE InTrap(c, b)
    /\ UNCHANGED <<present, world>>

(* SYS_WAIT_INPUT.                                                          *)
block_console(c) ==
    LET b == Block("console", 0, 0, "RxDeadline") IN
    /\ Running(c, "input")
    /\ IF can_reschedule(c) /\ bytes = 0 THEN park_vcore(Tracked, c, cpu.v, b) ELSE InTrap(c, b)
    /\ UNCHANGED <<present, slot, world>>

(* SYS_WAIT_NET, with a NIC installed; d = 0 waits for ever.                *)
block_net(c, d) ==
    LET until == IF d = 0 THEN 0 ELSE now + d
        b == Block("net", 0, until, "RxDeadline")
    IN /\ Running(c, "net") /\ now + d <= MaxNow
       /\ IF d = 0 THEN UNCHANGED slot ELSE Registered("RxDeadline", until)
       /\ IF can_reschedule(c) /\ frames = 0 /\ (d # 0 \/ boot.net_irq)
          THEN park_vcore(Tracked, c, cpu.v, b) ELSE InTrap(c, b)
       /\ UNCHANGED <<present, world>>

(* The in-trap wait ends: its condition holds, or an indefinite receive ran *)
(* out of polls.                                                            *)
TrapReturns ==
    LET b == cpu.block IN
    /\ cpu.at = "trap"
    /\ satisfiable(b) \/ (b.on = "net" /\ b.until = 0 /\ ~boot.net_irq)
    /\ Answered(cpu.cell, cpu.v, b, ret)
    /\ cpu' = [cpu EXCEPT !.at = "user", !.block = None]
    /\ UNCHANGED <<boot, procs, present, ent, wait, now, eof>>

(* A call that hands the CPU on leaves its own return register alone.       *)
HandsOn(c) == [ret EXCEPT ![c][cpu.v] = HANDED]

(* SYS_YIELD: a sibling context first, then another cell.  Only a yield to  *)
(* nobody is answered.                                                      *)
yield_cell(c) ==
    LET siblings == Enterable(c) \ {cpu.v}
        others == {i \in Cells \ {c} : schedulable(i)}
    IN /\ Running(c, "yield")
       /\ \/ /\ siblings # {}
             /\ cpu' = [cpu EXCEPT !.v = FirstFrom(NVcores(c), cpu.v + 1, siblings)]
             /\ ret' = HandsOn(c)
             /\ UNCHANGED <<procs, present, ent, wait, slot, world>>
          \/ /\ siblings = {} /\ others = {}
             /\ Returns(c, 0)
             /\ UNCHANGED <<procs, present, ent, wait, cpu, slot, world>>
          \/ /\ siblings = {} /\ others # {}
             /\ \E n \in Picks(c, others) : Enter(n, runnable_vcore(n), HandsOn(c))

(* SYS_SWITCH: straight into context 0 of the peer; without a peer the      *)
(* kernel stops at an assertion.                                            *)
Peer(c) == IF c % 2 = 0 THEN c + 1 ELSE c - 1
switch(c) ==
    /\ Running(c, "switch")
    /\ \/ /\ Peer(c) \in present
          /\ cpu' = [cpu EXCEPT !.cell = Peer(c), !.v = 0]
          /\ ret' = HandsOn(c)
       \/ /\ Peer(c) \notin present
          /\ cpu' = [cpu EXCEPT !.at = "panic"]
          /\ UNCHANGED ret
    /\ UNCHANGED <<procs, present, ent, wait, slot, world>>

(* A preemption wakes first and picks next.                                 *)
preempt_cell(c) ==
    /\ Running(c, "preempt")
    /\ cpu' = [cpu EXCEPT !.at = "preempt"]
    /\ UNCHANGED <<procs, present, ent, wait, ret, slot, world>>

(* The end of a spawned cell makes it a zombie; that of a launched one ends *)
(* the run.                                                                 *)
EndsCell(c, code) ==
    /\ IF procs[c].state = "Free" \/ procs[c].parent = Nobody
       THEN cpu' = [cpu EXCEPT !.at = "done"] /\ UNCHANGED procs
       ELSE /\ procs' = [procs EXCEPT ![c].state = "Zombie", ![c].code = code]
            /\ cpu' = [cpu EXCEPT !.at = "wake"]
    /\ UNCHANGED <<ent, wait>>

(* SYS_EXIT ends the calling context; the cell with it, unless a sibling    *)
(* goes on.                                                                 *)
exit(c, code) ==
    /\ Running(c, "exit")
    /\ IF SiblingGoesOn(c, cpu.v)
       THEN /\ procs' = Tracked
            /\ ent' = [ent EXCEPT ![c][cpu.v] = "exited"]
            /\ wait' = Recorded(c, cpu.v, EMPTY)
            /\ cpu' = [cpu EXCEPT !.at = "wake"]
       ELSE EndsCell(c, code)
    /\ UNCHANGED <<present, ret, slot, world>>

exit_group(c, code) ==
    /\ Running(c, "exit_group")
    /\ EndsCell(c, code)
    /\ UNCHANGED <<present, ret, slot, world>>

fault(c) ==
    /\ Running(c, "fault")
    /\ EndsCell(c, FAULT_EXIT)
    /\ UNCHANGED <<present, ret, slot, world>>

----------------------------------------------------------------------------
(* The scheduler: reschedule's loop, one step per turn of it.               *)

WakeEntitiesOnly ==
    LET woken == {p \in Cells \X Vcores :
                    /\ procs[p[1]].state \notin {"Free", "Zombie"}
                    /\ parked(p[1], p[2]) /\ satisfiable(wait[p[1]][p[2]].block)}
    IN /\ cpu.at \in {"wake", "preempt"}
       /\ ent' = [c \in Cells |-> [v \in Vcores |->
                    IF <<c, v>> \in woken THEN "runnable" ELSE ent[c][v]]]
       /\ cpu' = [cpu EXCEPT !.at = IF cpu.at = "wake" THEN "pick" ELSE "preempt_pick"]
       /\ UNCHANGED <<procs, present, wait, ret, slot, world>>

(* wake_satisfiable: every parked context whose condition holds now.        *)
wake_satisfiable ==
    LET woken == {p \in Cells \X Vcores :
                    /\ procs[p[1]].state \notin {"Free", "Zombie"}
                    /\ parked(p[1], p[2]) /\ satisfiable(wait[p[1]][p[2]].block)}
    IN /\ cpu.at \in {"wake", "preempt"}
       /\ ent' = [c \in Cells |-> [v \in Vcores |->
                    IF <<c, v>> \in woken THEN "runnable" ELSE ent[c][v]]]
       /\ procs' = [c \in Cells |->
                    IF procs[c].state = "Blocked" /\ \E v \in Vcores : <<c, v>> \in woken
                    THEN [procs[c] EXCEPT !.state = "Runnable"] ELSE procs[c]]
       /\ cpu' = [cpu EXCEPT !.at = IF cpu.at = "wake" THEN "pick" ELSE "preempt_pick"]
       /\ UNCHANGED <<present, wait, ret, slot, world>>

PickableAnyState == {c \in present : Enterable(c) # {}}
Pickable == {c \in present : procs[c].state = "Runnable" /\ Enterable(c) # {}}

RefreshNothing == slot

(* refresh_deadlines: the nearest deadline of the parked contexts in each   *)
(* slot, at least one tick away unless it has passed already.               *)
refresh_deadlines ==
    LET due(cl) == {b \in {wait[p[1]][p[2]].block : p \in {q \in Cells \X Vcores : parked(q[1], q[2])}} :
                      b.client = cl /\ (b.on = "timer" \/ (b.on = "net" /\ b.until # 0))}
        nearest(cl) == CHOOSE t \in {b.until : b \in due(cl)} : \A b \in due(cl) : t <= b.until
    IN [cl \in Clients \cup {"RxDeadline"} |->
          IF due(cl) = {} THEN slot[cl]
          ELSE IF nearest(cl) = now THEN now + 1 ELSE nearest(cl)]

(* reschedule: enter the picked cell, or idle on what the parked contexts   *)
(* wait for, or report a deadlock.                                          *)
reschedule ==
    /\ cpu.at = "pick"
    /\ \/ \E n \in IF Pickable = {} THEN {} ELSE Picks(cpu.cell, Pickable) :
              Enter(n, runnable_vcore(n), ret)
       \/ /\ Pickable = {}
          /\ IF blocked_sources \cap WAITABLE = {}
             THEN cpu' = [cpu EXCEPT !.at = "deadlock"] /\ UNCHANGED slot
             ELSE cpu' = [cpu EXCEPT !.at = "idle"] /\ slot' = refresh_deadlines
          /\ UNCHANGED <<procs, present, ent, wait, ret, world>>

(* The second half of preempt_cell: with nobody else to run, the context    *)
(* goes on.                                                                 *)
preempt_pick ==
    LET others == {i \in Cells \ {cpu.cell} : schedulable(i)} IN
    /\ cpu.at = "preempt_pick"
    /\ \/ \E n \in IF others = {} THEN {} ELSE Picks(cpu.cell, others) :
              Enter(n, runnable_vcore(n), ret)
       \/ /\ others = {}
          /\ cpu' = [cpu EXCEPT !.at = "user"]
          /\ UNCHANGED <<procs, present, ent, wait, ret, slot, world>>

(* idle::wait returns: the console has something, a frame came, a receive   *)
(* without an interrupt is polled, or an armed deadline passed.             *)
idle_wait ==
    LET due == {cl \in DOMAIN slot : slot[cl] # Disarmed /\ reached(slot[cl])} IN
    /\ cpu.at = "idle"
    /\ \/ "CONSOLE" \in blocked_sources /\ (bytes > 0 \/ eof)
       \/ "NET" \in blocked_sources /\ (frames > 0 \/ ~boot.net_irq)
       \/ due # {}
    /\ slot' = [cl \in DOMAIN slot |-> IF cl \in due THEN Disarmed ELSE slot[cl]]
    /\ cpu' = [cpu EXCEPT !.at = "wake"]
    /\ UNCHANGED <<procs, present, ent, wait, ret, world>>

----------------------------------------------------------------------------
(* The clock, the console and the network.                                  *)
(* Bytes and frames nobody ever asks for are left out.                      *)
Wanted(call) == \E c \in Cells : call \in boot.issued[c]
Tick == now <= MaxNow /\ now' = now + 1 /\ UNCHANGED <<bytes, eof, frames>>
ByteArrives == Wanted("input") /\ bytes < MaxBytes /\ ~eof /\ bytes' = bytes + 1 /\ UNCHANGED <<now, eof, frames>>
InputEnds == Wanted("input") /\ ~eof /\ eof' = TRUE /\ UNCHANGED <<now, bytes, frames>>
FrameArrives == Wanted("net") /\ frames < MaxFrames /\ frames' = frames + 1 /\ UNCHANGED <<now, bytes, eof>>
kernel == <<boot, procs, present, ent, wait, ret, cpu, slot>>
World == (Tick \/ ByteArrives \/ InputEnds \/ FrameArrives) /\ UNCHANGED kernel

Init ==
    /\ procs = [c \in Cells |-> FreeProc]
    /\ boot \in Boots
    /\ present = boot.launched
    /\ ent = [c \in Cells |-> [v \in Vcores |-> IF c \in boot.launched /\ v < boot.vcores THEN "runnable" ELSE "free"]]
    /\ wait = [c \in Cells |-> [v \in Vcores |-> EMPTY]]
    /\ ret = [c \in Cells |-> [v \in Vcores |-> 0]]
    /\ cpu = [at |-> "user", cell |-> 0, v |-> 0, block |-> None]
    /\ slot = [cl \in Clients \cup {"RxDeadline"} |-> Disarmed]
    /\ now = 0 /\ bytes = 0 /\ eof = FALSE /\ frames = 0

(* The calls that give up the CPU.                                          *)
HandsOff(c) ==
    \/ \E d \in 1 .. MaxNow, cl \in Clients : block_timer(c, d, cl)
    \/ block_console(c)
    \/ \E d \in 0 .. MaxNow : block_net(c, d)
    \/ yield_cell(c) \/ switch(c) \/ preempt_cell(c)
    \/ \E code \in Codes : exit(c, code) \/ exit_group(c, code)
    \/ fault(c)

Call(c) ==
    \/ spawn(c)
    \/ \E child \in Cells : wait_child(c, child)
    \/ HandsOff(c)

Scheduler == wake_satisfiable \/ reschedule \/ preempt_pick \/ idle_wait \/ TrapReturns

(* The run is over: a launched cell ended, the deadlock was reported, or    *)
(* an assertion failed.                                                     *)
Over == cpu.at \in {"done", "deadlock", "panic"} /\ UNCHANGED vars

Next == (\E c \in Cells : Call(c)) \/ Scheduler \/ World \/ Over

Spec == Init /\ [][Next]_vars

(* Fairness: the kernel's own steps are taken, time passes, and a running   *)
(* cell comes to a call that gives up the CPU (the scheduler is cooperative *)
(* and a cell that never calls keeps the CPU).                              *)
FairSpec == Spec /\ WF_vars(Scheduler) /\ WF_vars(Tick /\ UNCHANGED kernel)
                 /\ WF_vars(\E c \in Cells : HandsOff(c))

----------------------------------------------------------------------------
(* Properties.                                                              *)

Blocks == [on : {"none", "wait", "timer", "console", "net"}, child : Cells,
           until : 0 .. MaxNow, client : Clients \cup {"RxDeadline"}]

(* Every table entry, register and phase has its type.                      *)
TypeOK ==
    /\ procs \in [Cells -> [state : {"Free", "Runnable", "Blocked", "Zombie"},
                            parent : Cells \cup {Nobody}, code : Codes \cup {0, FAULT_EXIT}]]
    /\ present \subseteq Cells
    /\ ent \in [Cells -> [Vcores -> {"free", "runnable", "parked", "exited"}]]
    /\ wait \in [Cells -> [Vcores -> [block : Blocks, child : Cells]]]
    /\ ret \in [Cells -> [Vcores -> Int]]
    /\ cpu \in [at : {"user", "wake", "pick", "preempt", "preempt_pick", "idle", "trap", "done",
                      "deadlock", "panic"},
                cell : Cells, v : Vcores, block : Blocks]
    /\ slot \in [Clients \cup {"RxDeadline"} -> {Disarmed} \cup 0 .. MaxNow + 1]
    /\ now \in 0 .. MaxNow + 1 /\ bytes \in 0 .. MaxBytes /\ eof \in BOOLEAN /\ frames \in 0 .. MaxFrames

(* A context back in user mode from a call that waits has its answer: no    *)
(* path resumes it "with the return register still holding the syscall      *)
(* number" (nproc.rs, next_sibling_vcore).                                  *)
ResumedWithAnswer == cpu.at = "user" => ret[cpu.cell][cpu.v] # UNSET

(* "yield_cell() -> 0" (abi/src/lib.rs, SYS_YIELD): a context that yielded  *)
(* runs on with an answer in its return register, whoever ran meanwhile.    *)
YieldIsAnswered == cpu.at = "user" => ret[cpu.cell][cpu.v] # HANDED

(* Only a context that exists, is not parked and whose cell has not exited  *)
(* runs: a waiting context is never entered before its wait is over.        *)
EntersRunnable ==
    cpu.at = "user" => /\ cpu.cell \in present
                       /\ ent[cpu.cell][cpu.v] = "runnable"
                       /\ procs[cpu.cell].state # "Zombie"

(* While the CPU idles the arbiter is armed no later than every sleeper's   *)
(* own deadline (one tick later at most), although the sleepers share the   *)
(* slot and each wake-up disarms it.                                        *)
ArmedForNearest ==
    cpu.at = "idle" =>
        \A c \in Cells, v \in Vcores :
            LET b == wait[c][v].block IN
            parked(c, v) /\ "TIMER" \in sources_of(b) =>
                slot[b.client] # Disarmed /\ slot[b.client] <= b.until + 1

(* The scheduler never runs out of both work and wake sources: a parent     *)
(* only waits for a child that can still run.                               *)
NeverDeadlocks == cpu.at # "deadlock"

(* A wait keeps the CPU inside the trap, idling the machine, only when no   *)
(* other context could use it or wake up on its own: can_reschedule is      *)
(* "False only in the genuinely single-cell case" (nproc.rs).  It looks at  *)
(* context 0 of the other cells, so this is about cells with one context.   *)
InTrapOnlyWhenAlone ==
    (/\ cpu.at = "trap" /\ ~satisfiable(cpu.block) /\ boot.vcores = 1
     /\ boot.net_irq \/ cpu.block.on # "net") =>
        \A c \in present, v \in Vcores :
            <<c, v>> # <<cpu.cell, cpu.v>> /\ live(c, v) /\ procs[c].state # "Zombie" =>
                parked(c, v) /\ sources_of(wait[c][v].block) \cap WAITABLE = {}

(* A sleep lasts its full duration: one context's wake-up is never taken    *)
(* from another's deadline in the shared slot.                              *)
SleepsInFull ==
    [][\A c \in Cells, v \in Vcores :
         wait[c][v].block.on = "timer" /\ ent[c][v] = "parked" /\ ent'[c][v] = "runnable"
            => wait[c][v].block.until <= now]_vars

(* A zombie's slot is given back only by handing its exit code to a running *)
(* context of its parent; until then the code does not change.              *)
ExitCodeIsDelivered ==
    [][\A z \in Cells : procs[z].state = "Zombie" =>
         \/ procs'[z] = procs[z]
         \/ /\ procs'[z] = FreeProc /\ z \notin present'
            /\ cpu'.at = "user" /\ cpu'.cell = procs[z].parent
            /\ ret'[cpu'.cell][cpu'.v] = procs[z].code]_vars

Asleep(c, v) == wait[c][v].block.on = "timer" /\ parked(c, v)
ChildExited(c, v) ==
    wait[c][v].block.on = "wait" /\ procs[wait[c][v].block.child].state = "Zombie"
GetsCpu(c, v) == cpu.at = "done" \/ (cpu.at = "user" /\ cpu.cell = c /\ cpu.v = v)

(* A context that went to sleep runs again, unless the run ends first.      *)
SleepersRun == \A c \in Cells, v \in Vcores : Asleep(c, v) ~> GetsCpu(c, v)

(* Whoever waits for a child that has exited gets the CPU and the code.     *)
WaitersRun == \A c \in Cells, v \in Vcores : ChildExited(c, v) ~> GetsCpu(c, v)
====
