--------------------------- MODULE FrameCombining ---------------------------
(* Flat combining over the frame pool (kernel/src/mm/frames.rs): a CPU that *)
(* cannot take the pool lock publishes its request in its own slot; the     *)
(* lock's holder executes its own request, then every published one.  One   *)
(* step is one access to a shared word.                                     *)
EXTENDS FrameClient

VARIABLES
    pc,       \* where each CPU is in fc_run, fc_slow, fc_publish_and_wait, fc_drain
    lock,     \* POOL_LOCK
    req,      \* FC_SLOTS[c].req: a state, or the opcode of a published request
    arg,      \* FC_SLOTS[c].arg
    res,      \* FC_SLOTS[c].res
    pending,  \* FC_PENDING, as the set of CPUs whose bit is set
    mask,     \* fc_drain's local: the CPUs still to serve
    cur,      \* fc_drain's local: the CPU it serves now
    seen      \* fc_drain's local: the opcode it loaded

slots == <<req, arg, res>>
drain == <<mask, cur, seen>>
client == <<maps, writable>>
vars == <<pool, maps, writable, call, pc, lock, req, arg, res, pending, mask, cur, seen>>

FC_IDLE == "FC_IDLE"
FC_DONE == "FC_DONE"
FC_BUSY == "FC_BUSY"

Goto(c, l) == pc' = [pc EXCEPT ![c] = l]

----------------------------------------------------------------------------
(* fc_run and fc_slow *)

Begin(c) ==
    /\ pc[c] = "out"
    /\ Call(c)
    /\ Goto(c, "try")
    /\ UNCHANGED <<pool, lock, slots, pending, drain>>

(* try_lock: the lock is the combiner's role.  alloc_contig takes the plain *)
(* lock, which it waits for.                                                *)
TryLock(c) ==
    /\ pc[c] = "try" /\ ~lock
    /\ lock' = TRUE
    /\ Goto(c, "own")
    /\ UNCHANGED <<pool, client, call, slots, pending, drain>>

TryLockFails(c) ==
    /\ pc[c] = "try" /\ lock /\ call[c].op # "contig"
    /\ Goto(c, "publish")
    /\ UNCHANGED <<pool, client, call, lock, slots, pending, drain>>

ExecuteOwn(c) ==
    /\ pc[c] = "own"
    /\ LET e == fc_execute(pool, call[c].op, call[c].arg)
       IN  /\ pool' = e.pool
           /\ call' = [call EXCEPT ![c] = Done(@, e.res)]
    /\ Goto(c, IF call[c].op = "contig" THEN "unlock" ELSE "drain")
    /\ UNCHANGED <<client, lock, slots, pending, drain>>

Unlock(c) ==
    /\ pc[c] = "unlock"
    /\ lock' = FALSE
    /\ Goto(c, "return")
    /\ UNCHANGED <<pool, client, call, slots, pending, drain>>

Finish(c) ==
    /\ pc[c] = "return"
    /\ Return(c)
    /\ Goto(c, "out")
    /\ UNCHANGED <<pool, lock, slots, pending, drain>>

----------------------------------------------------------------------------
(* fc_publish_and_wait *)

Publish(c) ==
    /\ pc[c] = "publish"
    /\ arg' = [arg EXCEPT ![c] = call[c].arg]
    /\ req' = [req EXCEPT ![c] = call[c].op]
    /\ Goto(c, "mark")
    /\ UNCHANGED <<pool, client, call, lock, res, pending, drain>>

Mark(c) ==
    /\ pc[c] = "mark"
    /\ pending' = pending \union {c}
    /\ Goto(c, "wait")
    /\ UNCHANGED <<pool, client, call, lock, slots, drain>>

TakeResult(c) ==
    /\ pc[c] = "wait" /\ req[c] = FC_DONE
    /\ call' = [call EXCEPT ![c] = Done(@, res[c])]
    /\ req' = [req EXCEPT ![c] = FC_IDLE]
    /\ Goto(c, "return")
    /\ UNCHANGED <<pool, client, lock, arg, res, pending, drain>>

(* Mutant of Withdraw: a published request is never taken back.             *)
WithdrawNever(c) ==
    /\ pc[c] = "nowhere"
    /\ UNCHANGED vars

(* FC_SPINS passed: the compare-exchange from the request's own opcode.     *)
Withdraw(c) ==
    /\ pc[c] = "wait" /\ req[c] = call[c].op
    /\ req' = [req EXCEPT ![c] = FC_IDLE]
    /\ Goto(c, "unmark")
    /\ UNCHANGED <<pool, client, call, lock, arg, res, pending, drain>>

Unmark(c) ==
    /\ pc[c] = "unmark"
    /\ pending' = pending \ {c}
    /\ Goto(c, "try")
    /\ UNCHANGED <<pool, client, call, lock, slots, drain>>

----------------------------------------------------------------------------
(* fc_drain *)

Sample(c) ==
    /\ pc[c] = "drain"
    /\ mask' = [mask EXCEPT ![c] = pending]
    /\ pending' = {}
    /\ Goto(c, "scan")
    /\ UNCHANGED <<pool, client, call, lock, slots, cur, seen>>

(* The batch is over and fc_drain's locals with it.                         *)
ScanEnd(c) ==
    /\ pc[c] = "scan" /\ mask[c] = {}
    /\ cur' = [cur EXCEPT ![c] = c] /\ seen' = [seen EXCEPT ![c] = FC_IDLE]
    /\ Goto(c, "unlock")
    /\ UNCHANGED <<pool, client, call, lock, slots, pending, mask>>

(* The lowest bit of the mask; a slot holding a state is skipped.           *)
ScanLoad(c) ==
    /\ pc[c] = "scan"
    /\ \E d \in mask[c] :
         /\ \A e \in mask[c] : d <= e
         /\ mask' = [mask EXCEPT ![c] = @ \ {d}]
         /\ cur' = [cur EXCEPT ![c] = d]
         /\ seen' = [seen EXCEPT ![c] = req[d]]
         /\ Goto(c, IF req[d] \in Ops THEN "claim" ELSE "scan")
    /\ UNCHANGED <<pool, client, call, lock, slots, pending>>

(* Mutant of ScanClaim: the claim is a plain store.                         *)
ScanClaimBlind(c) ==
    /\ pc[c] = "claim"
    /\ req' = [req EXCEPT ![cur[c]] = FC_BUSY] /\ Goto(c, "exec")
    /\ UNCHANGED <<pool, client, call, lock, arg, res, pending, drain>>

ScanClaim(c) ==
    /\ pc[c] = "claim"
    /\ \/ /\ req[cur[c]] = seen[c]
          /\ req' = [req EXCEPT ![cur[c]] = FC_BUSY] /\ Goto(c, "exec")
       \/ /\ req[cur[c]] # seen[c]
          /\ Goto(c, "scan") /\ UNCHANGED req
    /\ UNCHANGED <<pool, client, call, lock, arg, res, pending, drain>>

ScanExecute(c) ==
    /\ pc[c] = "exec"
    /\ LET e == fc_execute(pool, seen[c], arg[cur[c]])
       IN  pool' = e.pool /\ res' = [res EXCEPT ![cur[c]] = e.res]
    /\ Goto(c, "done")
    /\ UNCHANGED <<client, call, lock, req, arg, pending, drain>>

ScanDone(c) ==
    /\ pc[c] = "done"
    /\ req' = [req EXCEPT ![cur[c]] = FC_DONE]
    /\ Goto(c, "scan")
    /\ UNCHANGED <<pool, client, call, lock, arg, res, pending, drain>>

----------------------------------------------------------------------------
Init ==
    /\ pool = EmptyPool
    /\ maps = [m \in Mappings |-> NoFrame]
    /\ writable = {}
    /\ call = [c \in Cpus |-> Idle]
    /\ pc = [c \in Cpus |-> "out"]
    /\ lock = FALSE
    /\ req = [c \in Cpus |-> FC_IDLE]
    /\ arg = [c \in Cpus |-> 0]
    /\ res = [c \in Cpus |-> 0]
    /\ pending = {}
    /\ mask = [c \in Cpus |-> {}]
    /\ cur = [c \in Cpus |-> c]
    /\ seen = [c \in Cpus |-> FC_IDLE]

Combine(c) == Sample(c) \/ ScanEnd(c) \/ ScanLoad(c) \/ ScanClaim(c) \/ ScanExecute(c)
                \/ ScanDone(c)
Proceed(c) == TryLock(c) \/ TryLockFails(c) \/ ExecuteOwn(c) \/ Unlock(c) \/ Finish(c)
                \/ Publish(c) \/ Mark(c) \/ TakeResult(c) \/ Withdraw(c) \/ Unmark(c)

Next == \E c \in Cpus : Begin(c) \/ Proceed(c) \/ Combine(c)

Spec == Init /\ [][Next]_vars

(* A CPU inside frames:: runs; its spin counter passes FC_SPINS.            *)
FairSpec == Spec /\ \A c \in Cpus : WF_vars(Proceed(c)) /\ WF_vars(Combine(c))

----------------------------------------------------------------------------
(* The calls as the pool's clients see them: a request a combiner has run   *)
(* is done, although its publisher has not read the result yet.             *)
Served(c) ==
    \/ req[c] = FC_DONE
    \/ req[c] = FC_BUSY /\ \E d \in Cpus : pc[d] = "done" /\ cur[d] = c
CallSeen ==
    [c \in Cpus |-> IF Served(c) THEN Done(call[c], res[c]) ELSE call[c]]

FP == INSTANCE FramePool WITH call <- CallSeen

(* The slots hold a state or an opcode, and every CPU is at a known place   *)
(* of fc_run and the functions below it.                                    *)
TypeOK ==
    /\ FP!TypeOK
    /\ pc \in [Cpus -> {"out", "try", "own", "publish", "mark", "wait", "unmark", "drain",
                        "scan", "claim", "exec", "done", "unlock", "return"}]
    /\ lock \in BOOLEAN
    /\ req \in [Cpus -> Ops \union {FC_IDLE, FC_DONE, FC_BUSY}]
    /\ arg \in [Cpus -> Nat] /\ res \in [Cpus -> Nat]
    /\ pending \subseteq Cpus
    /\ mask \in [Cpus -> SUBSET Cpus]
    /\ cur \in [Cpus -> Cpus]
    /\ seen \in [Cpus -> Ops \union {FC_IDLE, FC_DONE, FC_BUSY}]

(* fc_run's comment: "a request is executed exactly once".  Flat combining  *)
(* implements the atomic pool: every request takes effect once, under the   *)
(* arguments its caller published, and its caller gets that result.         *)
CombiningIsAtomic == FP!Spec

(* The count of every frame is the number of its holders, here with calls   *)
(* run on behalf of other CPUs.                                             *)
RefsAreHolders == FP!RefsAreHolders

(* FC_SPINS is a "liveness backstop": a call cannot be forgotten.  It       *)
(* returns, unless other CPUs' calls return for ever.                       *)
CallsReturn ==
    \A c \in Cpus :
        \/ (pc[c] # "out") ~> (pc[c] = "out")
        \/ []<>(\E d \in Cpus \ {c} : pc[d] = "return")
=============================================================================
