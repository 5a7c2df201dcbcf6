------------------------ MODULE FrameCombiningProofs ------------------------
(* Flat combining implements the atomic frame pool, for any number of CPUs, *)
(* mappings and frames (kernel/src/mm/frames.rs, fc_run and below).         *)
EXTENDS FrameCombining, TLAPS

Holding(c) == pc[c] \in {"own", "drain", "scan", "claim", "exec", "done", "unlock"}

(* The functions have their domains; opcodes are not slot states.           *)
Shapes ==
    /\ call = [c \in Cpus |-> call[c]]
    /\ pc \in [Cpus -> {"out", "try", "own", "publish", "mark", "wait", "unmark", "drain",
                        "scan", "claim", "exec", "done", "unlock", "return"}]
    /\ lock \in BOOLEAN
    /\ req \in [Cpus -> Ops \union {FC_IDLE, FC_DONE, FC_BUSY}]
    /\ arg = [c \in Cpus |-> arg[c]] /\ res = [c \in Cpus |-> res[c]]
    /\ pending \subseteq Cpus
    /\ mask \in [Cpus -> SUBSET Cpus]
    /\ cur \in [Cpus -> Cpus]
    /\ seen \in [Cpus -> Ops \union {FC_IDLE, FC_DONE, FC_BUSY}]

(* Only the lock's holder combines.                                         *)
OneCombiner ==
    /\ \A c \in Cpus : Holding(c) => lock
    /\ \A c, d \in Cpus : Holding(c) /\ Holding(d) => c = d

(* Where a CPU is tells how far its call has come.                          *)
CallStage ==
    \A c \in Cpus :
        /\ pc[c] = "out" => call[c].st \in {"idle", "copying"}
        /\ pc[c] \in {"try", "own", "publish", "mark", "wait", "unmark"}
             => call[c].st = "called" /\ call[c].op \in Ops
        /\ pc[c] \in {"drain", "scan", "claim", "exec", "done", "unlock", "return"}
             => call[c].st = "done"

(* A slot in use belongs to a publisher that waits, and holds its request.  *)
SlotsMatchCalls ==
    \A c \in Cpus :
        /\ req[c] # FC_IDLE => pc[c] \in {"mark", "wait"} /\ arg[c] = call[c].arg
        /\ req[c] \in Ops => req[c] = call[c].op

(* The request a combiner has claimed is the one it loaded.                 *)
Claims ==
    \A c \in Cpus :
        /\ pc[c] = "claim" => seen[c] \in Ops
        /\ pc[c] \in {"exec", "done"} => req[cur[c]] = FC_BUSY /\ seen[c] = call[cur[c]].op

PInv == Shapes /\ OneCombiner /\ CallStage /\ SlotsMatchCalls /\ Claims

LEMMA InitPInv == Init => PInv
<1> SUFFICES ASSUME Init PROVE PInv
  OBVIOUS
<1> USE DEF Init, Idle, FC_IDLE, FC_DONE, FC_BUSY
<1>1. Shapes
  BY DEF Shapes
<1>2. /\ \A c \in Cpus : pc[c] = "out" /\ req[c] = FC_IDLE /\ call[c].st = "idle"
  OBVIOUS
<1>3. OneCombiner
  BY <1>2 DEF OneCombiner, Holding
<1>4. CallStage
  BY <1>2 DEF CallStage
<1>5. SlotsMatchCalls /\ Claims
  BY <1>2 DEF SlotsMatchCalls, Claims, Ops
<1> QED
  BY <1>1, <1>3, <1>4, <1>5 DEF PInv

(* Every way to start a call leaves the other calls alone.                  *)
CallStarted(c) ==
    \E k : /\ k.st = "called" /\ k.op \in Ops
           /\ call' = [call EXCEPT ![c] = k]

LEMMA CallFacts ==
    ASSUME NEW c \in Cpus, Call(c)
    PROVE  CallStarted(c)
<1>1. ASSUME NEW k, k.st = "called", Start(c, k)
      PROVE  CallStarted(c)
  BY <1>1, IssuedAssumption DEF Start, Ops, CallStarted
<1>2. \A op, m, n, a : Called(op, m, n, a).st = "called"
  BY DEF Called
<1>3. \A k, op, r, d : Moved(k, "called", op, r, d).st = "called"
  BY DEF Moved
<1>4. CASE cow_free(c) \/ fork_copy(c)
  BY <1>1, <1>3, <1>4 DEF cow_free, fork_copy
<1>5. ASSUME NEW m \in Mappings, alloc(c, m) \/ unmap(c, m) \/ cow_fault(c, m)
      PROVE  CallStarted(c)
  BY <1>1, <1>2, <1>5 DEF alloc, unmap, cow_fault
<1>6. ASSUME NEW m \in Mappings, NEW node \in Nodes, alloc_on(c, m, node)
      PROVE  CallStarted(c)
  BY <1>1, <1>2, <1>6 DEF alloc_on
<1>7. ASSUME NEW m \in Mappings, NEW n \in Mappings, alloc_contig(c, m, n) \/ fork_leaf(c, m, n)
      PROVE  CallStarted(c)
  BY <1>1, <1>2, <1>7 DEF alloc_contig, fork_leaf
<1> QED
  BY <1>4, <1>5, <1>6, <1>7 DEF Call

CallEnded(c) ==
    \E k : /\ k.st \in {"idle", "copying"}
           /\ call' = [call EXCEPT ![c] = k]

LEMMA ReturnFacts ==
    ASSUME NEW c \in Cpus, Return(c)
    PROVE  CallEnded(c)
<1>1. Idle.st = "idle"
  BY DEF Idle
<1>2. \A k, op, r, d : Moved(k, "copying", op, r, d).st = "copying"
  BY DEF Moved
<1>3. \/ call' = [call EXCEPT ![c] = Idle]
      \/ \E d : call' = [call EXCEPT ![c] = Moved(call[c], "copying", call[c].op, call[c].res, d)]
  BY DEF Return
<1> QED
  BY <1>1, <1>2, <1>3 DEF CallEnded

LEMMA DoneFacts ==
    ASSUME NEW k, NEW r
    PROVE  Done(k, r).st = "done" /\ Done(k, r).op = k.op /\ Done(k, r).arg = k.arg
BY DEF Done, Moved

----------------------------------------------------------------------------
(* The protocol invariant is inductive.                                     *)

LEMMA BeginStep ==
    ASSUME PInv, NEW c \in Cpus, Begin(c)
    PROVE  PInv'
<1> USE DEF PInv
<1>1. PICK k : k.st = "called" /\ k.op \in Ops /\ call' = [call EXCEPT ![c] = k]
  BY CallFacts DEF Begin, CallStarted
<1>2. /\ pc[c] = "out" /\ pc' = [pc EXCEPT ![c] = "try"]
      /\ UNCHANGED <<lock, req, arg, res, pending, mask, cur, seen>>
  BY DEF Begin, Goto, slots, drain
<1>3. req[c] = FC_IDLE
  BY <1>2 DEF SlotsMatchCalls
<1>4. Shapes'
  BY <1>1, <1>2 DEF Shapes
<1>5. OneCombiner'
  BY <1>2 DEF OneCombiner, Holding, Shapes
<1>6. CallStage'
  BY <1>1, <1>2 DEF CallStage, Shapes
<1>7. SlotsMatchCalls'
  BY <1>1, <1>2, <1>3 DEF SlotsMatchCalls, Shapes, Ops, FC_IDLE
<1>8. Claims'
  BY <1>1, <1>2, <1>3 DEF Claims, Shapes, FC_IDLE, FC_BUSY
<1> QED
  BY <1>4, <1>5, <1>6, <1>7, <1>8

LEMMA FinishStep ==
    ASSUME PInv, NEW c \in Cpus, Finish(c)
    PROVE  PInv'
<1> USE DEF PInv
<1>1. PICK k : k.st \in {"idle", "copying"} /\ call' = [call EXCEPT ![c] = k]
  BY ReturnFacts DEF Finish, CallEnded
<1>2. /\ pc[c] = "return" /\ pc' = [pc EXCEPT ![c] = "out"]
      /\ UNCHANGED <<lock, req, arg, res, pending, mask, cur, seen>>
  BY DEF Finish, Goto, slots, drain
<1>3. req[c] = FC_IDLE
  BY <1>2 DEF SlotsMatchCalls
<1>4. Shapes'
  BY <1>1, <1>2 DEF Shapes
<1>5. OneCombiner'
  BY <1>2 DEF OneCombiner, Holding, Shapes
<1>6. CallStage'
  BY <1>1, <1>2 DEF CallStage, Shapes
<1>7. SlotsMatchCalls'
  BY <1>1, <1>2, <1>3 DEF SlotsMatchCalls, Shapes, Ops, FC_IDLE
<1>8. Claims'
  BY <1>1, <1>2, <1>3 DEF Claims, Shapes, FC_IDLE, FC_BUSY
<1> QED
  BY <1>4, <1>5, <1>6, <1>7, <1>8

LEMMA LockSteps ==
    ASSUME PInv, NEW c \in Cpus, TryLock(c) \/ TryLockFails(c) \/ Unlock(c)
    PROVE  PInv'
<1> USE DEF PInv
<1>1. UNCHANGED <<call, req, arg, res, pending, mask, cur, seen>>
  BY DEF TryLock, TryLockFails, Unlock, slots, drain
<1>2. \/ pc[c] = "try" /\ ~lock /\ lock' = TRUE /\ pc' = [pc EXCEPT ![c] = "own"]
      \/ pc[c] = "try" /\ lock' = lock /\ pc' = [pc EXCEPT ![c] = "publish"]
      \/ pc[c] = "unlock" /\ lock' = FALSE /\ pc' = [pc EXCEPT ![c] = "return"]
  BY DEF TryLock, TryLockFails, Unlock, Goto
<1>3. Shapes'
  BY <1>1, <1>2 DEF Shapes
<1>4. OneCombiner'
  BY <1>2 DEF OneCombiner, Holding, Shapes
<1>5. CallStage'
  BY <1>1, <1>2 DEF CallStage, Shapes
<1>6. SlotsMatchCalls'
  BY <1>1, <1>2 DEF SlotsMatchCalls, Shapes
<1>7. Claims'
  BY <1>1, <1>2 DEF Claims, Shapes
<1> QED
  BY <1>3, <1>4, <1>5, <1>6, <1>7

LEMMA ExecuteOwnStep ==
    ASSUME PInv, NEW c \in Cpus, ExecuteOwn(c)
    PROVE  PInv'
<1> USE DEF PInv
<1>1. PICK r : call' = [call EXCEPT ![c] = Done(call[c], r)]
  BY DEF ExecuteOwn
<1>2. /\ pc[c] = "own"
      /\ \E l \in {"unlock", "drain"} : pc' = [pc EXCEPT ![c] = l]
      /\ UNCHANGED <<lock, req, arg, res, pending, mask, cur, seen>>
  BY DEF ExecuteOwn, Goto, slots, drain
<1>3. req[c] = FC_IDLE
  BY <1>2 DEF SlotsMatchCalls
<1>4. Shapes'
  BY <1>1, <1>2 DEF Shapes
<1>5. OneCombiner'
  BY <1>2 DEF OneCombiner, Holding, Shapes
<1>6. CallStage'
  BY <1>1, <1>2, DoneFacts DEF CallStage, Shapes
<1>7. SlotsMatchCalls'
  BY <1>1, <1>2, <1>3 DEF SlotsMatchCalls, Shapes, Ops, FC_IDLE
<1>8. Claims'
  BY <1>1, <1>2, <1>3 DEF Claims, Shapes, FC_IDLE, FC_BUSY
<1> QED
  BY <1>4, <1>5, <1>6, <1>7, <1>8

LEMMA PublishStep ==
    ASSUME PInv, NEW c \in Cpus, Publish(c)
    PROVE  PInv'
<1> USE DEF PInv
<1>1. /\ pc[c] = "publish" /\ pc' = [pc EXCEPT ![c] = "mark"]
      /\ arg' = [arg EXCEPT ![c] = call[c].arg] /\ req' = [req EXCEPT ![c] = call[c].op]
      /\ UNCHANGED <<call, lock, res, pending, mask, cur, seen>>
  BY DEF Publish, Goto, drain
<1>2. req[c] = FC_IDLE /\ call[c].st = "called" /\ call[c].op \in Ops
  BY <1>1 DEF SlotsMatchCalls, CallStage
<1>3. Shapes'
  BY <1>1, <1>2 DEF Shapes
<1>4. OneCombiner'
  BY <1>1 DEF OneCombiner, Holding, Shapes
<1>5. CallStage'
  BY <1>1, <1>2 DEF CallStage, Shapes
<1>6. SlotsMatchCalls'
  BY <1>1, <1>2 DEF SlotsMatchCalls, Shapes
<1>7. Claims'
  BY <1>1, <1>2 DEF Claims, Shapes, FC_IDLE, FC_BUSY
<1> QED
  BY <1>3, <1>4, <1>5, <1>6, <1>7

LEMMA PendingSteps ==
    ASSUME PInv, NEW c \in Cpus, Mark(c) \/ Unmark(c) \/ Sample(c)
    PROVE  PInv'
<1> USE DEF PInv
<1>1. UNCHANGED <<call, lock, req, arg, res, cur, seen>>
  BY DEF Mark, Unmark, Sample, slots, drain
<1>2. \/ pc[c] = "mark" /\ pc' = [pc EXCEPT ![c] = "wait"]
      \/ pc[c] = "unmark" /\ pc' = [pc EXCEPT ![c] = "try"]
      \/ pc[c] = "drain" /\ pc' = [pc EXCEPT ![c] = "scan"]
  BY DEF Mark, Unmark, Sample, Goto
<1>3. pending' \subseteq Cpus /\ mask' \in [Cpus -> SUBSET Cpus]
  BY DEF Mark, Unmark, Sample, drain, Shapes
<1>4. Shapes'
  BY <1>1, <1>2, <1>3 DEF Shapes
<1>5. OneCombiner'
  BY <1>1, <1>2 DEF OneCombiner, Holding, Shapes
<1>6. CallStage'
  BY <1>1, <1>2 DEF CallStage, Shapes
<1>7. SlotsMatchCalls'
  BY <1>1, <1>2 DEF SlotsMatchCalls, Shapes
<1>8. Claims'
  BY <1>1, <1>2 DEF Claims, Shapes
<1> QED
  BY <1>4, <1>5, <1>6, <1>7, <1>8

LEMMA TakeResultStep ==
    ASSUME PInv, NEW c \in Cpus, TakeResult(c)
    PROVE  PInv'
<1> USE DEF PInv
<1>1. /\ pc[c] = "wait" /\ pc' = [pc EXCEPT ![c] = "return"]
      /\ req[c] = FC_DONE /\ req' = [req EXCEPT ![c] = FC_IDLE]
      /\ call' = [call EXCEPT ![c] = Done(call[c], res[c])]
      /\ UNCHANGED <<lock, arg, res, pending, mask, cur, seen>>
  BY DEF TakeResult, Goto, drain
<1>2. Shapes'
  BY <1>1 DEF Shapes
<1>3. OneCombiner'
  BY <1>1 DEF OneCombiner, Holding, Shapes
<1>4. CallStage'
  BY <1>1, DoneFacts DEF CallStage, Shapes
<1>5. SlotsMatchCalls'
  BY <1>1 DEF SlotsMatchCalls, Shapes, Ops, FC_IDLE
<1>6. Claims'
  BY <1>1 DEF Claims, Shapes, FC_IDLE, FC_BUSY, FC_DONE
<1> QED
  BY <1>2, <1>3, <1>4, <1>5, <1>6

LEMMA WithdrawStep ==
    ASSUME PInv, NEW c \in Cpus, Withdraw(c)
    PROVE  PInv'
<1> USE DEF PInv
<1>1. /\ pc[c] = "wait" /\ pc' = [pc EXCEPT ![c] = "unmark"]
      /\ req[c] = call[c].op /\ req' = [req EXCEPT ![c] = FC_IDLE]
      /\ UNCHANGED <<call, lock, arg, res, pending, mask, cur, seen>>
  BY DEF Withdraw, Goto, drain
<1>2. req[c] \in Ops
  BY <1>1 DEF CallStage
<1>3. Shapes'
  BY <1>1 DEF Shapes
<1>4. OneCombiner'
  BY <1>1 DEF OneCombiner, Holding, Shapes
<1>5. CallStage'
  BY <1>1 DEF CallStage, Shapes
<1>6. SlotsMatchCalls'
  BY <1>1 DEF SlotsMatchCalls, Shapes, Ops, FC_IDLE
<1>7. Claims'
  BY <1>1, <1>2 DEF Claims, Shapes, Ops, FC_IDLE, FC_BUSY
<1> QED
  BY <1>3, <1>4, <1>5, <1>6, <1>7

LEMMA ScanSteps ==
    ASSUME PInv, NEW c \in Cpus, ScanEnd(c) \/ ScanLoad(c)
    PROVE  PInv'
<1> USE DEF PInv
<1>1. UNCHANGED <<call, lock, req, arg, res, pending>>
  BY DEF ScanEnd, ScanLoad, slots
<1> DEFINE Scanned(d, o, l) ==
             /\ pc[c] = "scan" /\ pc' = [pc EXCEPT ![c] = l]
             /\ cur' = [cur EXCEPT ![c] = d] /\ seen' = [seen EXCEPT ![c] = o]
             /\ d \in Cpus /\ o \in Ops \union {FC_IDLE, FC_DONE, FC_BUSY}
             /\ l \in {"unlock", "scan", "claim"} /\ (l = "claim" => o \in Ops)
             /\ mask' \in [Cpus -> SUBSET Cpus]
<1>2. PICK d, o, l : Scanned(d, o, l)
  <2>1. ASSUME ScanEnd(c) PROVE Scanned(c, FC_IDLE, "unlock")
    BY <2>1 DEF ScanEnd, Goto, Shapes
  <2>2. ASSUME ScanLoad(c) PROVE \E d : Scanned(d, req[d], IF req[d] \in Ops THEN "claim" ELSE "scan")
    <3>1. PICK d \in mask[c] :
            /\ mask' = [mask EXCEPT ![c] = @ \ {d}]
            /\ cur' = [cur EXCEPT ![c] = d]
            /\ seen' = [seen EXCEPT ![c] = req[d]]
            /\ Goto(c, IF req[d] \in Ops THEN "claim" ELSE "scan")
      BY <2>2 DEF ScanLoad
    <3>2. pc[c] = "scan" /\ d \in Cpus /\ req[d] \in Ops \union {FC_IDLE, FC_DONE, FC_BUSY}
      BY <2>2 DEF ScanLoad, Shapes
    <3>3. mask' \in [Cpus -> SUBSET Cpus]
      BY <3>1 DEF Shapes
    <3> QED
      BY <3>1, <3>2, <3>3 DEF Goto
  <2> QED
    BY <2>1, <2>2
<1>3. Shapes'
  BY <1>1, <1>2 DEF Shapes
<1>4. OneCombiner'
  BY <1>1, <1>2 DEF OneCombiner, Holding, Shapes
<1>5. CallStage'
  BY <1>1, <1>2 DEF CallStage, Shapes
<1>6. SlotsMatchCalls'
  BY <1>1, <1>2 DEF SlotsMatchCalls, Shapes
<1>7. Claims'
  BY <1>1, <1>2 DEF Claims, Shapes
<1> QED
  BY <1>3, <1>4, <1>5, <1>6, <1>7

LEMMA ScanClaimStep ==
    ASSUME PInv, NEW c \in Cpus, ScanClaim(c)
    PROVE  PInv'
<1> USE DEF PInv
<1>1. /\ pc[c] = "claim" /\ seen[c] \in Ops /\ cur[c] \in Cpus
      /\ UNCHANGED <<call, lock, arg, res, pending, mask, cur, seen>>
  BY DEF ScanClaim, drain, Claims, Shapes
<1>2. CASE req' = req /\ pc' = [pc EXCEPT ![c] = "scan"]
  <2>1. Shapes'
    BY <1>1, <1>2 DEF Shapes
  <2>2. OneCombiner'
    BY <1>1, <1>2 DEF OneCombiner, Holding, Shapes
  <2>3. CallStage'
    BY <1>1, <1>2 DEF CallStage, Shapes
  <2>4. SlotsMatchCalls' /\ Claims'
    BY <1>1, <1>2 DEF SlotsMatchCalls, Claims, Shapes
  <2> QED
    BY <2>1, <2>2, <2>3, <2>4
<1>3. CASE /\ req[cur[c]] = seen[c] /\ req' = [req EXCEPT ![cur[c]] = FC_BUSY]
           /\ pc' = [pc EXCEPT ![c] = "exec"]
  <2>1. req[cur[c]] # FC_IDLE /\ FC_BUSY \notin Ops /\ FC_BUSY # FC_IDLE
    BY <1>1, <1>3 DEF Ops, FC_IDLE, FC_BUSY
  <2>2. /\ pc[cur[c]] \in {"mark", "wait"} /\ cur[c] # c
        /\ call[cur[c]].op = seen[c] /\ arg[cur[c]] = call[cur[c]].arg
    BY <1>1, <1>3, <2>1 DEF SlotsMatchCalls
  <2>3. Shapes'
    BY <1>1, <1>3 DEF Shapes
  <2>4. OneCombiner'
    BY <1>1, <1>3 DEF OneCombiner, Holding, Shapes
  <2>5. CallStage'
    BY <1>1, <1>3 DEF CallStage, Shapes
  <2>6. SlotsMatchCalls'
    BY <1>1, <1>3, <2>1, <2>2 DEF SlotsMatchCalls, Shapes
  <2>7. Claims'
    BY <1>1, <1>3, <2>2 DEF Claims, Shapes
  <2> QED
    BY <2>3, <2>4, <2>5, <2>6, <2>7
<1> QED
  BY <1>2, <1>3 DEF ScanClaim, Goto

LEMMA ScanExecuteStep ==
    ASSUME PInv, NEW c \in Cpus, ScanExecute(c)
    PROVE  PInv'
<1> USE DEF PInv
<1>1. /\ pc[c] = "exec" /\ pc' = [pc EXCEPT ![c] = "done"]
      /\ \E r : res' = [res EXCEPT ![cur[c]] = r]
      /\ UNCHANGED <<call, lock, req, arg, pending, mask, cur, seen>>
  BY DEF ScanExecute, Goto, drain
<1>2. Shapes'
  BY <1>1 DEF Shapes
<1>3. OneCombiner'
  BY <1>1 DEF OneCombiner, Holding, Shapes
<1>4. CallStage'
  BY <1>1 DEF CallStage, Shapes
<1>5. SlotsMatchCalls' /\ Claims'
  BY <1>1 DEF SlotsMatchCalls, Claims, Shapes
<1> QED
  BY <1>2, <1>3, <1>4, <1>5

LEMMA ScanDoneStep ==
    ASSUME PInv, NEW c \in Cpus, ScanDone(c)
    PROVE  PInv'
<1> USE DEF PInv
<1>1. /\ pc[c] = "done" /\ pc' = [pc EXCEPT ![c] = "scan"]
      /\ req' = [req EXCEPT ![cur[c]] = FC_DONE]
      /\ UNCHANGED <<call, lock, arg, res, pending, mask, cur, seen>>
  BY DEF ScanDone, Goto, drain
<1>2. cur[c] \in Cpus /\ req[cur[c]] = FC_BUSY /\ FC_BUSY # FC_IDLE /\ FC_DONE \notin Ops
  BY <1>1 DEF Claims, Shapes, Ops, FC_BUSY, FC_DONE, FC_IDLE
<1>3. pc[cur[c]] \in {"mark", "wait"} /\ arg[cur[c]] = call[cur[c]].arg /\ cur[c] # c
  BY <1>1, <1>2 DEF SlotsMatchCalls
<1>4. Shapes'
  BY <1>1 DEF Shapes
<1>5. OneCombiner'
  BY <1>1 DEF OneCombiner, Holding, Shapes
<1>6. CallStage'
  BY <1>1 DEF CallStage, Shapes
<1>7. SlotsMatchCalls'
  BY <1>1, <1>2, <1>3 DEF SlotsMatchCalls, Shapes
<1>8. \A d \in Cpus : pc[d] \in {"exec", "done"} => d = c
  BY <1>1 DEF OneCombiner, Holding
<1>9. Claims'
  BY <1>1, <1>8 DEF Claims, Shapes
<1> QED
  BY <1>4, <1>5, <1>6, <1>7, <1>9

LEMMA StutterStep ==
    ASSUME PInv, UNCHANGED vars
    PROVE  PInv'
BY DEF PInv, vars, Shapes, OneCombiner, CallStage, SlotsMatchCalls, Claims, Holding

LEMMA InductivePInv == PInv /\ [Next]_vars => PInv'
<1> SUFFICES ASSUME PInv, [Next]_vars PROVE PInv'
  OBVIOUS
<1>1. CASE UNCHANGED vars
  BY <1>1, StutterStep
<1>2. ASSUME NEW c \in Cpus, Begin(c) PROVE PInv'
  BY <1>2, BeginStep
<1>3. ASSUME NEW c \in Cpus, Proceed(c) PROVE PInv'
  BY <1>3, LockSteps, ExecuteOwnStep, FinishStep, PublishStep, PendingSteps, TakeResultStep,
     WithdrawStep DEF Proceed
<1>4. ASSUME NEW c \in Cpus, Combine(c) PROVE PInv'
  BY <1>4, PendingSteps, ScanSteps, ScanClaimStep, ScanExecuteStep, ScanDoneStep DEF Combine
<1> QED
  BY <1>1, <1>2, <1>3, <1>4 DEF Next

----------------------------------------------------------------------------
(* The refinement.                                                          *)

(* A CPU that has no request out is seen as it is.                          *)
LEMMA SeenAsIs ==
    ASSUME PInv, NEW c \in Cpus, pc[c] \notin {"mark", "wait"}
    PROVE  ~Served(c) /\ CallSeen[c] = call[c]
<1>1. req[c] = FC_IDLE
  BY DEF PInv, SlotsMatchCalls
<1>2. ~Served(c)
  BY <1>1 DEF Served, FC_IDLE, FC_DONE, FC_BUSY
<1> QED
  BY <1>2 DEF CallSeen

(* Serving a request moves nothing but the state and the result of a call.  *)
LEMMA SeenFields ==
    ASSUME PInv, NEW c \in Cpus
    PROVE  /\ CallSeen[c].m = call[c].m /\ CallSeen[c].n = call[c].n
           /\ CallSeen[c].st = "idle" <=> call[c].st = "idle"
<1>1. CASE ~Served(c)
  BY <1>1 DEF CallSeen
<1>2. CASE Served(c)
  <2>1. CallSeen[c] = Done(call[c], res[c])
    BY <1>2 DEF CallSeen
  <2>2. call[c].st = "called"
    BY <1>2, SeenAsIs DEF PInv, CallStage
  <2> QED
    BY <2>1, <2>2 DEF Done, Moved
<1> QED
  BY <1>1, <1>2

LEMMA SameClient ==
    ASSUME PInv, NEW c \in Cpus, NEW m
    PROVE  FP!Ready(c, m) <=> Ready(c, m)
<1>1. FP!Busy(m) <=> Busy(m)
  BY SeenFields DEF FP!Busy, Busy
<1> QED
  BY <1>1, SeenFields DEF FP!Ready, Ready

LEMMA StartRefines ==
    ASSUME NEW c \in Cpus, NEW k, Start(c, k), CallSeen' = [CallSeen EXCEPT ![c] = call'[c]],
           call = [d \in Cpus |-> call[d]]
    PROVE  FP!Start(c, k)
BY DEF Start, FP!Start

(* A call starts in the pool's view exactly as it starts here.              *)
LEMMA BeginRefines ==
    ASSUME PInv, NEW c \in Cpus, pc[c] = "out", Call(c),
           CallSeen' = [CallSeen EXCEPT ![c] = call'[c]]
    PROVE  FP!Call(c)
<1>1. call = [d \in Cpus |-> call[d]] /\ CallSeen[c] = call[c]
  BY SeenAsIs DEF PInv, Shapes
<1>2. \A k : Start(c, k) => FP!Start(c, k)
  BY <1>1, StartRefines
<1>3. \A m : Ready(c, m) => FP!Ready(c, m)
  BY SameClient
<1>4. /\ \A op, m, n, a : FP!Called(op, m, n, a) = Called(op, m, n, a)
      /\ \A k, st, op, r, d : FP!Moved(k, st, op, r, d) = Moved(k, st, op, r, d)
      /\ FP!NoFrame = NoFrame
  BY DEF FP!Called, Called, FP!Moved, Moved, FP!NoFrame, NoFrame
<1>5. CASE cow_free(c) \/ fork_copy(c)
  BY <1>1, <1>2, <1>4, <1>5 DEF cow_free, FP!cow_free, fork_copy, FP!fork_copy, FP!Call
<1>6. ASSUME NEW m \in Mappings, alloc(c, m) \/ unmap(c, m) \/ cow_fault(c, m)
      PROVE  FP!alloc(c, m) \/ FP!unmap(c, m) \/ FP!cow_fault(c, m)
  BY <1>2, <1>3, <1>4, <1>6 DEF alloc, FP!alloc, unmap, FP!unmap, cow_fault, FP!cow_fault
<1>7. ASSUME NEW m \in Mappings, NEW node \in Nodes, alloc_on(c, m, node)
      PROVE  FP!alloc_on(c, m, node)
  BY <1>2, <1>3, <1>4, <1>7 DEF alloc_on, FP!alloc_on
<1>8. ASSUME NEW m \in Mappings, NEW n \in Mappings, alloc_contig(c, m, n) \/ fork_leaf(c, m, n)
      PROVE  FP!alloc_contig(c, m, n) \/ FP!fork_leaf(c, m, n)
  BY <1>2, <1>3, <1>4, <1>8 DEF alloc_contig, FP!alloc_contig, fork_leaf, FP!fork_leaf
<1>9. FP!Nodes = Nodes
  BY DEF FP!Nodes, Nodes
<1> QED
  BY <1>5, <1>6, <1>7, <1>8, <1>9 DEF Call, FP!Call

LEMMA ReturnRefines ==
    ASSUME PInv, NEW c \in Cpus, pc[c] = "return", Return(c),
           CallSeen' = [CallSeen EXCEPT ![c] = call'[c]]
    PROVE  FP!Return(c)
<1>1. call = [d \in Cpus |-> call[d]] /\ CallSeen[c] = call[c]
  BY SeenAsIs DEF PInv, Shapes
<1>2. \A k : call' = [call EXCEPT ![c] = k] => CallSeen' = [CallSeen EXCEPT ![c] = k]
  BY <1>1
<1>3. /\ \A k, st, op, r, d : FP!Moved(k, st, op, r, d) = Moved(k, st, op, r, d)
      /\ FP!NoFrame = NoFrame /\ FP!Idle = Idle /\ FP!Frames = Frames
      /\ FP!COW_SOLE = COW_SOLE /\ FP!COW_NO_FRAME = COW_NO_FRAME
      /\ \A m, n : FP!cow_protect(m, n) = cow_protect(m, n)
  BY DEF FP!Moved, Moved, FP!NoFrame, NoFrame, FP!Idle, Idle, FP!Frames, Frames, FP!COW_SOLE,
         COW_SOLE, FP!COW_NO_FRAME, COW_NO_FRAME, FP!cow_protect, cow_protect
<1> QED
  BY <1>1, <1>2, <1>3 DEF Return, FP!Return

(* The pool's operations are the same operators on both levels.             *)
LEMMA SameExecute ==
    ASSUME NEW p, NEW op, NEW a
    PROVE  FP!fc_execute(p, op, a) = fc_execute(p, op, a)
<1>1. /\ FP!Frames = Frames /\ FP!NoFrame = NoFrame
      /\ FP!COW_SOLE = COW_SOLE /\ FP!COW_NO_FRAME = COW_NO_FRAME
  BY DEF FP!Frames, Frames, FP!NoFrame, NoFrame, FP!COW_SOLE, COW_SOLE,
         FP!COW_NO_FRAME, COW_NO_FRAME
<1>2. \A S : FP!Least(S) = Least(S)
  BY DEF FP!Least, Least
<1>3. \A lo, hi : FP!FreeIn(p, lo, hi) = FreeIn(p, lo, hi)
  BY <1>1 DEF FP!FreeIn, FreeIn
<1>4. \A lo, hi : FP!find_in(p, lo, hi) = find_in(p, lo, hi)
  BY <1>1, <1>2, <1>3 DEF FP!find_in, find_in
<1>5. FP!find_from(p) = find_from(p)
  BY <1>1, <1>4 DEF FP!find_from, find_from
<1>6. \A n : FP!find_run(p, n) = find_run(p, n)
  BY <1>2 DEF FP!find_run, find_run, FP!Frames, Frames, FP!NoFrame, NoFrame
<1>7. \A f, n : FP!Claimed(p, f, n) = Claimed(p, f, n)
  BY DEF FP!Claimed, Claimed, FP!Frames, Frames
<1>8. FP!claim_hinted(p) = claim_hinted(p)
  BY <1>1, <1>5, <1>7 DEF FP!claim_hinted, claim_hinted
<1>9. FP!claim_on(p, a) = claim_on(p, a)
  BY <1>1, <1>4, <1>7, <1>8 DEF FP!claim_on, claim_on
<1>10. FP!release(p, a) = release(p, a) /\ FP!add_ref(p, a) = add_ref(p, a)
  BY DEF FP!release, release, FP!add_ref, add_ref
<1>11. FP!cow_claim(p, a) = cow_claim(p, a)
  BY <1>1, <1>8 DEF FP!cow_claim, cow_claim
<1>12. FP!contig(p, 2) = contig(p, 2)
  BY <1>1, <1>6, <1>7 DEF FP!contig, contig
<1> QED
  BY <1>8, <1>9, <1>10, <1>11, <1>12 DEF FP!fc_execute, fc_execute

(* The steps that the pool's clients see, and those they do not.            *)

(* Nothing but these parts of the state decides what is seen of a call.     *)
LEMMA SeenAlike ==
    ASSUME NEW d \in Cpus, call'[d] = call[d], res'[d] = res[d], Served(d)' <=> Served(d)
    PROVE  CallSeen'[d] = CallSeen[d]
BY DEF CallSeen

LEMMA SeenIsFunction == CallSeen = [d \in Cpus |-> CallSeen[d]]
BY DEF CallSeen

LEMMA Unseen ==
    ASSUME UNCHANGED <<pool, maps, writable>>, \A d \in Cpus : CallSeen'[d] = CallSeen[d]
    PROVE  UNCHANGED FP!vars
<1>1. CallSeen' = CallSeen
  BY DEF CallSeen
<1> QED
  BY <1>1 DEF FP!vars

(* A step that leaves the slots, the calls and the "done" combiners alone.  *)
LEMMA QuietStep ==
    ASSUME PInv, NEW c \in Cpus, UNCHANGED <<pool, maps, writable, call, req, res>>,
           pc[c] # "done", NEW l, l # "done", pc' = [pc EXCEPT ![c] = l],
           \A d \in Cpus \ {c} : cur'[d] = cur[d]
    PROVE  UNCHANGED FP!vars
<1>1. \A d \in Cpus : (pc'[d] = "done" <=> pc[d] = "done") /\ (pc[d] = "done" => cur'[d] = cur[d])
  BY DEF PInv, Shapes
<1>2. \A d \in Cpus : Served(d)' <=> Served(d)
  BY <1>1 DEF Served
<1> QED
  BY <1>2, SeenAlike, Unseen

LEMMA BeginIsCall ==
    ASSUME PInv, NEW c \in Cpus, Begin(c)
    PROVE  FP!Next
<1>1. /\ pc[c] = "out" /\ pc' = [pc EXCEPT ![c] = "try"] /\ Call(c)
      /\ UNCHANGED <<pool, req, res, cur>>
  BY DEF Begin, Goto, slots, drain
<1>2. \A d \in Cpus : Served(d)' <=> Served(d)
  BY <1>1 DEF Served, PInv, Shapes
<1>3. ~Served(c) /\ ~Served(c)'
  BY <1>1, <1>2, SeenAsIs
<1>4. \A d \in Cpus \ {c} : CallSeen'[d] = CallSeen[d]
  BY <1>1, <1>2, CallFacts, SeenAlike DEF CallStarted, PInv, Shapes
<1>5. CallSeen'[c] = call'[c]
  BY <1>3 DEF CallSeen
<1>6. CallSeen' = [CallSeen EXCEPT ![c] = call'[c]]
  BY <1>4, <1>5 DEF CallSeen
<1>7. FP!Call(c)
  BY <1>1, <1>6, BeginRefines
<1> QED
  BY <1>1, <1>7 DEF FP!Next

LEMMA FinishIsReturn ==
    ASSUME PInv, NEW c \in Cpus, Finish(c)
    PROVE  FP!Next
<1>1. /\ pc[c] = "return" /\ pc' = [pc EXCEPT ![c] = "out"] /\ Return(c)
      /\ UNCHANGED <<pool, req, res, cur>>
  BY DEF Finish, Goto, slots, drain
<1>2. \A d \in Cpus : Served(d)' <=> Served(d)
  BY <1>1 DEF Served, PInv, Shapes
<1>3. ~Served(c) /\ ~Served(c)'
  BY <1>1, <1>2, SeenAsIs
<1>4. \A d \in Cpus \ {c} : CallSeen'[d] = CallSeen[d]
  BY <1>1, <1>2, ReturnFacts, SeenAlike DEF CallEnded, PInv, Shapes
<1>5. CallSeen'[c] = call'[c]
  BY <1>3 DEF CallSeen
<1>6. CallSeen' = [CallSeen EXCEPT ![c] = call'[c]]
  BY <1>4, <1>5 DEF CallSeen
<1>7. FP!Return(c)
  BY <1>1, <1>6, ReturnRefines
<1> QED
  BY <1>1, <1>7 DEF FP!Next

LEMMA ExecuteOwnIsExecute ==
    ASSUME PInv, NEW c \in Cpus, ExecuteOwn(c)
    PROVE  FP!Next
<1> DEFINE e == fc_execute(pool, call[c].op, call[c].arg)
<1>1. /\ pc[c] = "own" /\ call' = [call EXCEPT ![c] = Done(call[c], e.res)]
      /\ pool' = e.pool
      /\ \E l \in {"unlock", "drain"} : pc' = [pc EXCEPT ![c] = l]
      /\ UNCHANGED <<maps, writable, req, res, cur>>
  BY DEF ExecuteOwn, Goto, slots, drain, client
<1> HIDE DEF e
<1>2. \A d \in Cpus : Served(d)' <=> Served(d)
  BY <1>1 DEF Served, PInv, Shapes
<1>3. ~Served(c) /\ ~Served(c)' /\ CallSeen[c] = call[c] /\ call[c].st = "called"
  BY <1>1, <1>2, SeenAsIs DEF PInv, CallStage
<1>4. \A d \in Cpus \ {c} : CallSeen'[d] = CallSeen[d]
  BY <1>1, <1>2, SeenAlike DEF PInv, Shapes
<1>5. CallSeen'[c] = Done(call[c], e.res)
  BY <1>1, <1>3 DEF CallSeen, PInv, Shapes
<1>6. CallSeen' = [CallSeen EXCEPT ![c] = Done(call[c], e.res)]
  BY <1>4, <1>5 DEF CallSeen
<1>7. FP!fc_execute(pool, CallSeen[c].op, CallSeen[c].arg) = e
  BY <1>3, SameExecute DEF e
<1>8. \A r : FP!Done(call[c], r) = Done(call[c], r)
  BY DEF FP!Done, Done, FP!Moved, Moved
<1>9. FP!Execute(c)
  BY <1>1, <1>3, <1>6, <1>7, <1>8 DEF FP!Execute
<1> QED
  BY <1>9 DEF FP!Next

LEMMA ScanExecuteIsExecute ==
    ASSUME PInv, NEW c \in Cpus, ScanExecute(c)
    PROVE  FP!Next
<1>0. PICK d \in Cpus : d = cur[c]
  BY DEF PInv, Shapes
<1> DEFINE e == fc_execute(pool, seen[c], arg[d])
<1>1. /\ pc[c] = "exec" /\ pc' = [pc EXCEPT ![c] = "done"]
      /\ pool' = e.pool /\ res' = [res EXCEPT ![d] = e.res]
      /\ UNCHANGED <<maps, writable, call, req, cur>>
  BY <1>0 DEF ScanExecute, Goto, drain, client
<1>2. /\ req[d] = FC_BUSY /\ seen[c] = call[d].op
      /\ res = [b \in Cpus |-> res[b]] /\ DOMAIN pc = Cpus
  BY <1>0, <1>1 DEF PInv, Claims, Shapes
<1>3. arg[d] = call[d].arg /\ call[d].st = "called"
  BY <1>2 DEF PInv, SlotsMatchCalls, CallStage, FC_BUSY, FC_IDLE
<1> HIDE DEF e
<1>4. \A b \in Cpus : pc[b] # "done"
  BY <1>1 DEF PInv, OneCombiner, Holding
<1>5. ~Served(d) /\ CallSeen[d] = call[d]
  BY <1>2, <1>4 DEF Served, CallSeen, FC_BUSY, FC_DONE
<1>6. Served(d)'
  <2>1. pc'[c] = "done" /\ cur'[c] = d /\ req'[d] = FC_BUSY
    BY <1>0, <1>1, <1>2
  <2> QED
    BY <2>1 DEF Served
<1>7. \A b \in Cpus \ {d} : CallSeen'[b] = CallSeen[b]
  <2> TAKE b \in Cpus \ {d}
  <2>1. Served(b)' <=> Served(b)
    BY <1>0, <1>1, <1>2, <1>4 DEF Served
  <2> QED
    BY <1>1, <1>2, <2>1, SeenAlike
<1>8. CallSeen'[d] = Done(call[d], e.res)
  BY <1>1, <1>2, <1>6 DEF CallSeen
<1>9. CallSeen' = [CallSeen EXCEPT ![d] = Done(call[d], e.res)]
  BY <1>2, <1>7, <1>8 DEF CallSeen
<1>10. FP!fc_execute(pool, CallSeen[d].op, CallSeen[d].arg) = e
  BY <1>2, <1>3, <1>5, SameExecute DEF e
<1>11. \A r : FP!Done(call[d], r) = Done(call[d], r)
  BY DEF FP!Done, Done, FP!Moved, Moved
<1>12. FP!Execute(d)
  BY <1>1, <1>3, <1>5, <1>9, <1>10, <1>11 DEF FP!Execute
<1> QED
  BY <1>2, <1>12 DEF FP!Next

(* A publisher's own slot moves between states that are not served.         *)
LEMMA SlotStep ==
    ASSUME PInv, NEW c \in Cpus, NEW d \in Cpus, NEW r, NEW l,
           UNCHANGED <<pool, maps, writable, call, res, cur>>,
           pc[c] # "done", l # "done", pc' = [pc EXCEPT ![c] = l],
           req' = [req EXCEPT ![d] = r], req[d] \notin {FC_DONE, FC_BUSY},
           r # FC_DONE, r = FC_BUSY => l = "exec" /\ Holding(c)
    PROVE  UNCHANGED FP!vars
<1>1. \A b \in Cpus : pc'[b] = "done" <=> pc[b] = "done"
  BY DEF PInv, Shapes
<1>2. \A b \in Cpus \ {d} : Served(b)' <=> Served(b)
  BY <1>1 DEF Served, PInv, Shapes
<1>3. ~Served(d)
  BY DEF Served
<1>4. r = FC_BUSY => \A b \in Cpus : pc[b] # "done"
  BY DEF PInv, OneCombiner, Holding
<1>5. req'[d] = r
  BY DEF PInv, Shapes
<1>6. ~Served(d)'
  BY <1>1, <1>4, <1>5 DEF Served
<1>7. \A b \in Cpus : Served(b)' <=> Served(b)
  BY <1>2, <1>3, <1>6
<1> QED
  BY <1>7, SeenAlike, Unseen

LEMMA TakeResultUnseen ==
    ASSUME PInv, NEW c \in Cpus, TakeResult(c)
    PROVE  UNCHANGED FP!vars
<1>1. /\ pc[c] = "wait" /\ pc' = [pc EXCEPT ![c] = "return"]
      /\ req[c] = FC_DONE /\ req' = [req EXCEPT ![c] = FC_IDLE]
      /\ call' = [call EXCEPT ![c] = Done(call[c], res[c])]
      /\ UNCHANGED <<pool, maps, writable, res, cur>>
  BY DEF TakeResult, Goto, drain, client
<1>2. \A b \in Cpus : pc'[b] = "done" <=> pc[b] = "done"
  BY <1>1 DEF PInv, Shapes
<1>3. \A b \in Cpus \ {c} : Served(b)' <=> Served(b)
  BY <1>1, <1>2 DEF Served, PInv, Shapes
<1>4. \A b \in Cpus \ {c} : call'[b] = call[b]
  BY <1>1 DEF PInv, Shapes
<1>5. \A b \in Cpus \ {c} : CallSeen'[b] = CallSeen[b]
  BY <1>1, <1>3, <1>4, SeenAlike
<1>6. Served(c) /\ ~Served(c)' /\ call'[c] = Done(call[c], res[c])
  BY <1>1 DEF Served, PInv, Shapes, FC_IDLE, FC_DONE, FC_BUSY
<1>7. CallSeen'[c] = CallSeen[c]
  BY <1>6 DEF CallSeen
<1> QED
  BY <1>1, <1>5, <1>7, Unseen

LEMMA ScanDoneUnseen ==
    ASSUME PInv, NEW c \in Cpus, ScanDone(c)
    PROVE  UNCHANGED FP!vars
<1>0. PICK d \in Cpus : d = cur[c]
  BY DEF PInv, Shapes
<1>1. /\ pc[c] = "done" /\ pc' = [pc EXCEPT ![c] = "scan"]
      /\ req' = [req EXCEPT ![d] = FC_DONE]
      /\ UNCHANGED <<pool, maps, writable, call, res, cur>>
  BY <1>0 DEF ScanDone, Goto, drain, client
<1>2. req[d] = FC_BUSY
  BY <1>0, <1>1 DEF PInv, Claims
<1>3. \A b \in Cpus : pc[b] = "done" => b = c
  BY <1>1 DEF PInv, OneCombiner, Holding
<1>4. Served(d) /\ Served(d)'
  BY <1>0, <1>1, <1>2 DEF Served, PInv, Shapes
<1>5. \A b \in Cpus \ {d} : req'[b] = req[b] /\ ~\E a \in Cpus : pc[a] = "done" /\ cur[a] = b
  BY <1>0, <1>1, <1>3 DEF PInv, Shapes
<1>6. \A b \in Cpus : pc'[b] # "done"
  BY <1>1, <1>3 DEF PInv, Shapes
<1>7. \A b \in Cpus \ {d} : Served(b)' <=> Served(b)
  BY <1>5, <1>6 DEF Served
<1>8. \A b \in Cpus : Served(b)' <=> Served(b)
  BY <1>4, <1>7
<1> QED
  BY <1>1, <1>8, SeenAlike, Unseen

(* A step of one CPU is a step of the pool, or is not seen at all.          *)
LEMMA ProceedRefines ==
    ASSUME PInv, NEW c \in Cpus, Proceed(c)
    PROVE  FP!Next \/ UNCHANGED FP!vars
<1>1. CASE ExecuteOwn(c)
  BY <1>1, ExecuteOwnIsExecute
<1>2. CASE Finish(c)
  BY <1>2, FinishIsReturn
<1>3. CASE TakeResult(c)
  BY <1>3, TakeResultUnseen
<1>4. CASE TryLock(c) \/ TryLockFails(c) \/ Unlock(c) \/ Mark(c) \/ Unmark(c)
  <2>1. /\ UNCHANGED <<pool, maps, writable, call, req, res, cur>>
        /\ pc[c] # "done"
        /\ \E l \in {"own", "publish", "return", "wait", "try"} : pc' = [pc EXCEPT ![c] = l]
    BY <1>4 DEF TryLock, TryLockFails, Unlock, Mark, Unmark, Goto, slots, drain, client
  <2> QED
    BY <2>1, QuietStep
<1>5. CASE Publish(c)
  <2>1. /\ UNCHANGED <<pool, maps, writable, call, res, cur>>
        /\ pc[c] = "publish" /\ pc' = [pc EXCEPT ![c] = "mark"]
        /\ req' = [req EXCEPT ![c] = call[c].op]
    BY <1>5 DEF Publish, Goto, drain, client
  <2>2. req[c] = FC_IDLE /\ call[c].op \in Ops
    BY <2>1 DEF PInv, SlotsMatchCalls, CallStage
  <2>3. req[c] \notin {FC_DONE, FC_BUSY} /\ call[c].op \notin {FC_DONE, FC_BUSY}
    BY <2>2 DEF Ops, FC_IDLE, FC_DONE, FC_BUSY
  <2> QED
    BY <2>1, <2>3, SlotStep
<1>6. CASE Withdraw(c)
  <2>1. /\ UNCHANGED <<pool, maps, writable, call, res, cur>>
        /\ pc[c] = "wait" /\ pc' = [pc EXCEPT ![c] = "unmark"]
        /\ req[c] = call[c].op /\ req' = [req EXCEPT ![c] = FC_IDLE]
    BY <1>6 DEF Withdraw, Goto, drain, client
  <2>2. call[c].op \in Ops
    BY <2>1 DEF PInv, CallStage
  <2>3. req[c] \notin {FC_DONE, FC_BUSY} /\ FC_IDLE \notin {FC_DONE, FC_BUSY}
    BY <2>1, <2>2 DEF Ops, FC_IDLE, FC_DONE, FC_BUSY
  <2> QED
    BY <2>1, <2>3, SlotStep
<1> QED
  BY <1>1, <1>2, <1>3, <1>4, <1>5, <1>6 DEF Proceed

LEMMA CombineRefines ==
    ASSUME PInv, NEW c \in Cpus, Combine(c)
    PROVE  FP!Next \/ UNCHANGED FP!vars
<1>1. CASE ScanExecute(c)
  BY <1>1, ScanExecuteIsExecute
<1>2. CASE ScanDone(c)
  BY <1>2, ScanDoneUnseen
<1>3. CASE Sample(c) \/ ScanEnd(c) \/ ScanLoad(c)
  <2>1. UNCHANGED <<pool, maps, writable, call, req, res>> /\ pc[c] # "done"
    BY <1>3 DEF Sample, ScanEnd, ScanLoad, slots, client
  <2>2. \E l \in {"scan", "unlock", "claim"} : pc' = [pc EXCEPT ![c] = l]
    BY <1>3 DEF Sample, ScanEnd, ScanLoad, Goto
  <2>3. \A d \in Cpus \ {c} : cur'[d] = cur[d]
    BY <1>3 DEF Sample, ScanEnd, ScanLoad, PInv, Shapes
  <2> QED
    BY <2>1, <2>2, <2>3, QuietStep
<1>4. CASE ScanClaim(c)
  <2>1. /\ UNCHANGED <<pool, maps, writable, call, res, cur>>
        /\ pc[c] = "claim" /\ seen[c] \in Ops /\ cur[c] \in Cpus
    BY <1>4 DEF ScanClaim, drain, client, PInv, Claims, Shapes
  <2>2. CASE req' = req /\ pc' = [pc EXCEPT ![c] = "scan"]
    BY <2>1, <2>2, QuietStep
  <2>3. CASE /\ req[cur[c]] = seen[c] /\ req' = [req EXCEPT ![cur[c]] = FC_BUSY]
             /\ pc' = [pc EXCEPT ![c] = "exec"]
    <3>1. req[cur[c]] \notin {FC_DONE, FC_BUSY} /\ FC_BUSY # FC_DONE /\ Holding(c)
      BY <2>1, <2>3 DEF Ops, FC_DONE, FC_BUSY, Holding
    <3>2. PICK d \in Cpus : d = cur[c]
      BY <2>1
    <3> QED
      BY <2>1, <2>3, <3>1, <3>2, SlotStep
  <2> QED
    BY <1>4, <2>2, <2>3 DEF ScanClaim, Goto
<1> QED
  BY <1>1, <1>2, <1>3, <1>4 DEF Combine

LEMMA InitRefines == Init => FP!Init
<1> SUFFICES ASSUME Init PROVE FP!Init
  OBVIOUS
<1>1. \A c \in Cpus : ~Served(c)
  BY DEF Init, Served, FC_IDLE, FC_DONE, FC_BUSY
<1>2. CallSeen = [c \in Cpus |-> Idle]
  BY <1>1 DEF CallSeen, Init
<1>3. FP!Idle = Idle /\ FP!EmptyPool = EmptyPool /\ FP!NoFrame = NoFrame
  BY DEF FP!Idle, Idle, FP!EmptyPool, EmptyPool, FP!Frames, Frames, FP!NoFrame, NoFrame
<1> QED
  BY <1>2, <1>3 DEF Init, FP!Init

(* Flat combining implements the atomic pool, for any number of CPUs,       *)
(* mappings and frames: no published request runs twice, is lost or gets    *)
(* another's result, however its withdrawal (fc_publish_and_wait), the      *)
(* combiner's claim and another CPU's drain (fc_drain) interleave.          *)
THEOREM Combining == Spec => CombiningIsAtomic
<1>1. PInv /\ [Next]_vars => [FP!Next]_FP!vars
  <2> SUFFICES ASSUME PInv, [Next]_vars PROVE FP!Next \/ UNCHANGED FP!vars
    OBVIOUS
  <2>1. CASE UNCHANGED vars
    <3>1. \A d \in Cpus : Served(d)' <=> Served(d)
      BY <2>1 DEF vars, Served
    <3> QED
      BY <2>1, <3>1, SeenAlike, Unseen DEF vars
  <2>2. CASE Next
    BY <2>2, BeginIsCall, ProceedRefines, CombineRefines DEF Next
  <2> QED
    BY <2>1, <2>2
<1> QED
  BY <1>1, InitPInv, InductivePInv, InitRefines, PTL DEF Spec, CombiningIsAtomic, FP!Spec
=============================================================================
