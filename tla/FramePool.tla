----------------------------- MODULE FramePool -----------------------------
(* What the frame pool promises: every call takes effect once, atomically,  *)
(* at some point between its start and its return.                          *)
EXTENDS FrameClient

vars == <<pool, maps, writable, call>>

Execute(c) ==
    /\ call[c].st = "called"
    /\ LET e == fc_execute(pool, call[c].op, call[c].arg)
       IN  /\ pool' = e.pool
           /\ call' = [call EXCEPT ![c] = Done(@, e.res)]
    /\ UNCHANGED <<maps, writable>>

Init ==
    /\ pool = EmptyPool
    /\ maps = [m \in Mappings |-> NoFrame]
    /\ writable = {}
    /\ call = [c \in Cpus |-> Idle]

Next ==
    \E c \in Cpus : \/ (Call(c) \/ Return(c)) /\ UNCHANGED pool
                    \/ Execute(c)

Spec == Init /\ [][Next]_vars

----------------------------------------------------------------------------
(* The bitmap, the one-byte counts, the mappings and the calls in progress  *)
(* have their types (frames.rs, the statics; mm/mod.rs, the entries).       *)
TypeOK ==
    /\ pool \in Pool
    /\ maps \in [Mappings -> Frames \union {NoFrame}]
    /\ writable \subseteq Mappings
    /\ call \in [Cpus -> [st : {"idle", "called", "copying", "done"}, op : Ops,
                          m : Mappings \union {0}, n : Mappings \union {0},
                          arg : Nat, res : Nat, dst : Frames \union {NoFrame}]]

(* used_matches_bitmap, and the same for the counts: USED is the number of  *)
(* bits set, a frame is allocated exactly when it is referenced, and no     *)
(* release ever hits the "double free" assertion.                           *)
PoolConsistent ==
    /\ pool.used = Cardinality(pool.bitmap)
    /\ pool.bitmap = {f \in Frames : pool.refs[f] > 0}
    /\ ~pool.panicked

(* The references to f that are out: one for each mapping of f (but for one *)
(* whose entry outlives its reference, below), one for each call that has   *)
(* not yet given its reference back, or was given one not yet mapped.       *)
BreakFreed(c) == call[c].op = "free" /\ call[c].dst # NoFrame /\ call[c].st = "done"
Holders(f) ==
    {<<"entry", m>> : m \in {m \in Mappings : maps[m] = f /\
        ~\E c \in Cpus : call[c].m = m /\ BreakFreed(c)}}
    \union {<<"free", c>> : c \in {c \in Cpus : call[c].op = "free" /\ call[c].dst = NoFrame
                                     /\ call[c].st = "called" /\ call[c].arg = f}}
    \union {<<"copy", c>> : c \in {c \in Cpus : call[c].st # "idle" /\ call[c].dst = f}}
    \union {<<"new", c>> : c \in {c \in Cpus : call[c].st = "done" /\
        \/ call[c].op \in {"alloc", "alloc_on", "cow"} /\ call[c].res = f
        \/ call[c].op = "contig" /\ call[c].res # NoFrame /\ f \in {call[c].res, call[c].res + 1}
        \/ call[c].op = "share" /\ call[c].res = 1 /\ call[c].arg = f}}

(* Among callers that take a reference for every mapping (demand paging,    *)
(* fork and copy-on-write), the count of every frame is the number of its   *)
(* holders: none is leaked, and none is freed while a mapping or a call     *)
(* still has it.  Lent frames are apart: FrameLending.                      *)
RefsAreHolders == \A f \in Frames : pool.refs[f] = Cardinality(Holders(f))

(* Copy-on-write: a page that can be written is in no other mapping, except *)
(* one whose break has already taken its private copy.                      *)
WritableIsPrivate ==
    \A m \in writable : \A n \in Mappings \ {m} :
        maps[n] = maps[m] => \E c \in Cpus : call[c].m = n /\ BreakFreed(c)
=============================================================================
