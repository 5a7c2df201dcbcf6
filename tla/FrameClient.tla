---------------------------- MODULE FrameClient ----------------------------
(* What the frame pool and its callers share: the bookkeeping primitives    *)
(* that run under the pool lock (kernel/src/mm/frames.rs) and the callers,  *)
(* page mappings that hold references to frames (kernel/src/mm/mod.rs).     *)
(* The mappings that take no reference are in FrameLending.                 *)
(* A result is in the wire form of fc_execute: an address, or a sentinel.   *)
EXTENDS Integers, FiniteSets

CONSTANTS
    Cpus,             \* CPU indices
    Mappings,         \* leaf page-table entries that may hold a reference
    POOL_FRAMES,      \* frames in the pool
    FRAME_POOL_BASE,  \* the pool's first address, in frames
    SHARE_MAX,        \* largest reference count
    NodeRange,        \* NODE_RANGE: node -> <<lo, hi>>, frame indices
    Issued            \* bound: the operations the callers use

ASSUME CpusAssumption == Cpus \subseteq Nat /\ IsFiniteSet(Cpus)
ASSUME MappingsAssumption == IsFiniteSet(Mappings)
ASSUME PoolAssumption ==
    /\ POOL_FRAMES \in Nat \ {0}
    /\ FRAME_POOL_BASE \in Nat /\ FRAME_POOL_BASE > 1
    /\ SHARE_MAX \in Nat \ {0}
    /\ DOMAIN NodeRange \subseteq Nat
    /\ NodeRange \in [DOMAIN NodeRange -> Nat \X Nat]
ASSUME IssuedAssumption ==
    Issued \subseteq {"alloc", "alloc_on", "free", "share", "cow", "contig"}

VARIABLES
    pool,      \* BITMAP, REFS, USED, NEXT_HINT, and whether an assertion failed
    maps,      \* the frame each mapping references, 0 when unmapped
    writable,  \* the mappings whose page may be written
    call       \* per CPU: the frames:: call in progress

Frames == FRAME_POOL_BASE .. FRAME_POOL_BASE + POOL_FRAMES - 1
NoFrame == 0          \* alloc: none left
COW_SOLE == 0
COW_NO_FRAME == 1
Ops == {"alloc", "alloc_on", "free", "share", "cow", "contig"}
Nodes == DOMAIN NodeRange

Pool == [bitmap : SUBSET Frames, refs : [Frames -> 0 .. SHARE_MAX], used : Nat,
         hint : Nat, panicked : BOOLEAN]
EmptyPool == [bitmap |-> {}, refs |-> [f \in Frames |-> 0], used |-> 0, hint |-> 0,
              panicked |-> FALSE]

----------------------------------------------------------------------------
(* The primitives, pool lock held.  Each returns the pool and a result.     *)

FreeIn(p, lo, hi) ==
    {f \in Frames \ p.bitmap : lo <= f - FRAME_POOL_BASE /\ f - FRAME_POOL_BASE < hi}
Least(S) == CHOOSE f \in S : \A g \in S : f <= g
find_in(p, lo, hi) == IF FreeIn(p, lo, hi) = {} THEN NoFrame ELSE Least(FreeIn(p, lo, hi))
find_from(p) ==
    LET from == IF p.hint >= POOL_FRAMES THEN 0 ELSE p.hint
        f    == find_in(p, from, POOL_FRAMES)
    IN  IF f # NoFrame THEN f ELSE find_in(p, 0, from)
find_run(p, n) ==
    LET starts == {f \in Frames : \A g \in f .. f + n - 1 : g \in Frames \ p.bitmap}
    IN  IF starts = {} THEN NoFrame ELSE Least(starts)

(* Mutant of Claimed: the allocation is not counted.                        *)
ClaimedNotCounted(p, f, n) ==
    [p EXCEPT !.bitmap = @ \union (f .. f + n - 1),
              !.refs = [g \in Frames |-> IF g \in f .. f + n - 1 THEN 1 ELSE @[g]]]

(* The n frames from f on: bits set, one reference each, counted.           *)
Claimed(p, f, n) ==
    [p EXCEPT !.bitmap = @ \union (f .. f + n - 1),
              !.refs = [g \in Frames |-> IF g \in f .. f + n - 1 THEN 1 ELSE @[g]],
              !.used = @ + n]

claim_hinted(p) ==
    LET f == find_from(p)
    IN  IF f = NoFrame THEN [pool |-> p, res |-> NoFrame]
        ELSE [pool |-> [Claimed(p, f, 1) EXCEPT !.hint = f - FRAME_POOL_BASE + 1], res |-> f]

claim_on(p, node) ==
    LET f == find_in(p, NodeRange[node][1], NodeRange[node][2])
    IN  IF f # NoFrame THEN [pool |-> Claimed(p, f, 1), res |-> f] ELSE claim_hinted(p)

(* Mutant of release: the count is ignored, the frame goes back at once.    *)
releaseUncounted(p, f) ==
    [pool |-> [p EXCEPT !.panicked = @ \/ f \notin p.bitmap, !.refs[f] = 0,
                        !.bitmap = @ \ {f}, !.used = @ - 1], res |-> 0]

release(p, f) ==
    [pool |-> IF f \notin p.bitmap THEN [p EXCEPT !.panicked = TRUE]
              ELSE IF p.refs[f] > 1 THEN [p EXCEPT !.refs[f] = @ - 1]
              ELSE [p EXCEPT !.refs[f] = 0, !.bitmap = @ \ {f}, !.used = @ - 1],
     res |-> 0]

(* Mutant of add_ref: the ceiling is not tested.                            *)
add_refUnbounded(p, f) ==
    IF p.refs[f] = 0 THEN [pool |-> p, res |-> 0]
    ELSE [pool |-> [p EXCEPT !.refs[f] = @ + 1], res |-> 1]

add_ref(p, f) ==
    IF p.refs[f] = 0 \/ p.refs[f] = SHARE_MAX THEN [pool |-> p, res |-> 0]
    ELSE [pool |-> [p EXCEPT !.refs[f] = @ + 1], res |-> 1]

cow_claim(p, f) ==
    IF p.refs[f] <= 1 THEN [pool |-> p, res |-> COW_SOLE]
    ELSE LET q == claim_hinted(p)
         IN  [pool |-> q.pool, res |-> IF q.res = NoFrame THEN COW_NO_FRAME ELSE q.res]

contig(p, n) ==
    LET f == find_run(p, n)
    IN  IF f = NoFrame THEN [pool |-> p, res |-> NoFrame]
        ELSE [pool |-> Claimed(p, f, n), res |-> f]

fc_execute(p, op, arg) ==
    CASE op = "alloc"    -> claim_hinted(p)
      [] op = "alloc_on" -> claim_on(p, arg)
      [] op = "free"     -> release(p, arg)
      [] op = "share"    -> add_ref(p, arg)
      [] op = "cow"      -> cow_claim(p, arg)
      [] op = "contig"   -> contig(p, 2)

----------------------------------------------------------------------------
(* The callers.  A mapping takes part in one call at a time: its address    *)
(* space is handled by one trap.                                            *)

(* st: "called", then "done" with a result; "copying" between the two calls *)
(* of a copy-on-write break, dst being the private frame it copies into.    *)
Idle == [st |-> "idle", op |-> "alloc", m |-> 0, n |-> 0, arg |-> 0, res |-> 0, dst |-> 0]
Called(op, m, n, arg) ==
    [st |-> "called", op |-> op, m |-> m, n |-> n, arg |-> arg, res |-> 0, dst |-> 0]
Moved(k, st, op, r, dst) ==
    [st |-> st, op |-> op, m |-> k.m, n |-> k.n, arg |-> k.arg, res |-> r, dst |-> dst]
Done(k, r) == Moved(k, "done", k.op, r, k.dst)

Busy(m) == \E c \in Cpus : call[c].st # "idle" /\ m \in {call[c].m, call[c].n}
Start(c, k) == k.op \in Issued /\ call' = [call EXCEPT ![c] = k]
Ready(c, m) == call[c].st = "idle" /\ ~Busy(m)

alloc(c, m) ==
    /\ Ready(c, m) /\ maps[m] = NoFrame
    /\ Start(c, Called("alloc", m, m, 0))
    /\ UNCHANGED <<maps, writable>>

alloc_on(c, m, node) ==
    /\ Ready(c, m) /\ maps[m] = NoFrame
    /\ Start(c, Called("alloc_on", m, m, node))
    /\ UNCHANGED <<maps, writable>>

(* Two adjacent frames, for two mappings.                                   *)
alloc_contig(c, m, n) ==
    /\ Ready(c, m) /\ Ready(c, n) /\ m # n /\ maps[m] = NoFrame /\ maps[n] = NoFrame
    /\ Start(c, Called("contig", m, n, 0))
    /\ UNCHANGED <<maps, writable>>

(* unmap, free_user_range, free_user_frames, at an entry that holds a       *)
(* reference: the entry goes, then free.                                    *)
unmap(c, m) ==
    /\ Ready(c, m) /\ maps[m] # NoFrame
    /\ Start(c, Called("free", m, m, maps[m]))
    /\ maps' = [maps EXCEPT ![m] = NoFrame]
    /\ writable' = writable \ {m}

(* fork_from, one leaf: share the parent's frame into the child's entry.    *)
fork_leaf(c, m, n) ==
    /\ Ready(c, m) /\ Ready(c, n) /\ m # n /\ maps[m] # NoFrame /\ maps[n] = NoFrame
    /\ Start(c, Called("share", m, n, maps[m]))
    /\ UNCHANGED <<maps, writable>>

(* cow_fault: only a page that is mapped and not writable faults.           *)
cow_fault(c, m) ==
    /\ Ready(c, m) /\ maps[m] # NoFrame /\ m \notin writable
    /\ Start(c, Called("cow", m, m, maps[m]))
    /\ UNCHANGED <<maps, writable>>

(* cow_fault, the copy done: the shared frame's reference is dropped.       *)
cow_free(c) ==
    /\ call[c].st = "copying" /\ call[c].op = "cow"
    /\ Start(c, Moved(call[c], "called", "free", call[c].res, call[c].dst))
    /\ UNCHANGED <<maps, writable>>

(* fork_from, a leaf at its share ceiling: the child gets a copy.           *)
fork_copy(c) ==
    /\ call[c].st = "copying" /\ call[c].op = "share"
    /\ Start(c, Moved(call[c], "called", "alloc", 0, NoFrame))
    /\ UNCHANGED <<maps, writable>>

Call(c) ==
    \/ \E m \in Mappings :
         \/ alloc(c, m) \/ unmap(c, m) \/ cow_fault(c, m)
         \/ \E node \in Nodes : alloc_on(c, m, node)
         \/ \E n \in Mappings : alloc_contig(c, m, n) \/ fork_leaf(c, m, n)
    \/ cow_free(c) \/ fork_copy(c)

(* Mutant of cow_protect: only the child's entry loses write access.        *)
cow_protectChildOnly(m, n) == writable \ {n}

(* The end of fork_from: parent and child both lose write access.           *)
cow_protect(m, n) == writable \ {m, n}

(* What the caller does with the result.                                    *)
Return(c) ==
    LET k == call[c]
        End == call' = [call EXCEPT ![c] = Idle]
    IN  /\ k.st = "done"
        /\ \/ /\ k.op = "alloc" /\ k.m # k.n /\ End          \* fork_copy, k.n the child's
              /\ maps' = [maps EXCEPT ![k.n] = k.res]
              /\ writable' = cow_protect(k.m, k.n)
           \/ /\ k.op \in {"alloc", "alloc_on"} /\ k.m = k.n /\ End
              /\ maps' = [maps EXCEPT ![k.m] = k.res]
              /\ writable' = IF k.res = NoFrame THEN writable ELSE writable \union {k.m}
           \/ /\ k.op = "contig" /\ k.res # NoFrame /\ End
              /\ maps' = [maps EXCEPT ![k.m] = k.res, ![k.n] = k.res + 1]
              /\ writable' = writable \union {k.m, k.n}
           \/ /\ \/ k.op = "contig" /\ k.res = NoFrame
                 \/ k.op = "cow" /\ k.res = COW_NO_FRAME
                 \/ k.op = "free" /\ k.dst = NoFrame
              /\ End /\ UNCHANGED <<maps, writable>>
           \/ /\ k.op = "free" /\ k.dst # NoFrame /\ End    \* paging_cow_clear
              /\ maps' = [maps EXCEPT ![k.m] = k.dst]
              /\ writable' = writable \union {k.m}
           \/ /\ k.op = "share" /\ k.res = 1 /\ End        \* paging_cow_protect_user
              /\ maps' = [maps EXCEPT ![k.n] = k.arg]
              /\ writable' = cow_protect(k.m, k.n)
           \/ /\ k.op = "share" /\ k.res = 0
              /\ call' = [call EXCEPT ![c] = Moved(k, "copying", k.op, k.res, k.dst)]
              /\ UNCHANGED <<maps, writable>>
           \/ /\ k.op = "cow" /\ k.res = COW_SOLE /\ End
              /\ writable' = writable \union {k.m} /\ UNCHANGED maps
           \/ /\ k.op = "cow" /\ k.res \in Frames
              /\ call' = [call EXCEPT ![c] = Moved(k, "copying", k.op, k.res, k.res)]
              /\ UNCHANGED <<maps, writable>>
=============================================================================
