------------------------------ MODULE Reactor -------------------------------
(* A cell's event loop (librheo/src/rt.rs block_on) over the strand         *)
(* executor of Strand.tla: strands that spawn and join one another, share   *)
(* an async mutex (runtime/src/lock.rs) and an mpsc channel                 *)
(* (runtime/src/channel.rs), submit to the cell's queue pair, wait for the  *)
(* console, a timer, a child or a frame, exchange messages with a peer      *)
(* cell, and put a timeout around any wait (librheo/src/time.rs).           *)
(*                                                                          *)
(* A strand runs from one await to the next without interruption; what it   *)
(* does there is any sequence of the operations its program allows, at most *)
(* MaxOps of them.  Time, bytes and frames are abstract: a blocking call    *)
(* returns when its environment lets it.                                    *)
EXTENDS Strand

CONSTANTS Root,         \* the strand block_on is given
          Programs,     \* the programs a run may start: what each strand may call
          MaxOps,       \* bound on the operations of one strand
          RING_DEPTH    \* of the queue pair and of the peer's rings

ASSUME ReactorConstants ==
    /\ Root \in Tasks
    /\ MaxOps \in Nat /\ RING_DEPTH \in Nat \ {0}

(* The reactor's single-slot blocking requests, in the order of block_on.   *)
Sources == {"console", "timer", "wait", "net"}
Awaits == Sources \union {"yield", "lock", "recv", "join", "queue", "csend", "crecv"}
Calls == Awaits \union {"send"}

VARIABLES
    program,    \* [Tasks -> SUBSET (Calls \X BOOLEAN)]: calls, and whether under a timeout
    exec,       \* the executor
    running,    \* the strand being polled, or None
    injector,   \* INJECTOR: strands of spawn_shared
    next,       \* NEXT_TOKEN
    st,         \* each strand's future
    handles,    \* strands whose JoinHandle the root still has
    join,       \* JoinState of each strand
    mutex,      \* MutexState, and the strands that hold a guard
    chan,       \* Chan: messages in buf, strands with a Sender, token
    reactor,    \* the Reactor and the rings it drives
    loop        \* block_on: its guard, and whether it returned or panicked

sync == <<handles, join, mutex, chan>>
vars == <<program, exec, running, injector, next, st, sync, reactor, loop>>

(* A future: k says where it is.  "go": between two calls.  "top": at the   *)
(* head of the call's loop.  "await": suspended in it, on a token or on the *)
(* strand `target`.  timer is the token of the timeout around the call.     *)
Futures ==
    [k : {"unborn", "go", "top", "await", "done"}, op : Calls \union {None},
     timed : BOOLEAN, token : Tokens \union {None}, timer : Tokens \union {None},
     target : Tasks \union {None}, ops : 0 .. MaxOps]

(* The executor, the futures, the locks, the rings and the loop's own state *)
(* have their types (strand.rs, lock.rs, channel.rs, rt.rs).                *)
TypeOK ==
    /\ exec \in Executors
    /\ running \in Tasks \union {None}
    /\ injector \in Seq(Tasks)
    /\ next \in 1 .. MaxTokens + 1
    /\ st \in [Tasks -> Futures]
    /\ handles \subseteq Tasks
    /\ join \in [Tasks -> [done : BOOLEAN, waiter : Slots \union {None}]]
    /\ mutex \in [locked : BOOLEAN, waiters : Seq(Tokens), holders : SUBSET Tasks]
    /\ chan \in [buf : Nat, senders : SUBSET Tasks, token : Tokens]
    /\ reactor \in [req : [Sources -> Tokens \union {None}],
                    sq : Seq(Tokens), cq : Seq(Tokens), results : SUBSET Tokens,
                    recv_req : Tokens \union {None}, recv_msg : BOOLEAN,
                    send_req : Tokens \union {None},
                    inbound : 0 .. RING_DEPTH, outbound : 0 .. RING_DEPTH]
    /\ loop \in [guard : 0 .. 4, end : {"no", "exit", "panic"}]

Unborn == [k |-> "unborn", op |-> None, timed |-> FALSE, token |-> None,
           timer |-> None, target |-> None, ops |-> 0]

Senders(p) == {t \in Tasks : <<"send", FALSE>> \in p[t]}

(* block_on has spawned the root.  The root has made the mutex and the      *)
(* channel, whose token is the first, and cloned a Sender into the future   *)
(* of every strand that sends; its own is gone.                             *)
Init ==
    /\ program \in Programs
    /\ exec = insert(ExecutorNew, Root)
    /\ running = None
    /\ injector = << >>
    /\ next = 2
    /\ st = [t \in Tasks |-> IF t = Root THEN [Unborn EXCEPT !.k = "go"] ELSE Unborn]
    /\ handles = {}
    /\ join = [t \in Tasks |-> [done |-> FALSE, waiter |-> None]]
    /\ mutex = [locked |-> FALSE, waiters |-> << >>, holders |-> {}]
    /\ chan = [buf |-> 0, senders |-> Senders(program), token |-> 1]
    /\ reactor = [req |-> [s \in Sources |-> None], sq |-> << >>, cq |-> << >>,
                  results |-> {}, recv_req |-> None, recv_msg |-> FALSE,
                  send_req |-> None, inbound |-> 0, outbound |-> 0]
    /\ loop = [guard |-> 0, end |-> "no"]

Alive == loop.end = "no"
At(t, k) == Alive /\ running = t /\ st[t].k = k
Panics == loop' = [loop EXCEPT !.end = "panic"]
----------------------------------------------------------------------------
(* strand.rs: run and run_one.                                              *)

PollNext ==
    /\ Alive /\ running = None /\ exec.ready # << >>
    /\ running' = exec.slab[Head(exec.ready)]
    /\ exec' = takeOut(exec)
    /\ UNCHANGED <<program, injector, next, st, sync, reactor, loop>>

(* run with nothing ready: shared work, if any.                             *)
TakeShared ==
    /\ Alive /\ running = None /\ exec.ready = << >> /\ injector # << >>
    /\ exec' = insert(exec, Head(injector))
    /\ injector' = Tail(injector)
    /\ UNCHANGED <<program, running, next, st, sync, reactor, loop>>

(* The root starts another strand, here or on the injector.                 *)
Spawn(u) ==
    /\ At(Root, "go") /\ st[u].k = "unborn"
    /\ exec' = insert(exec, u)
    /\ st' = [st EXCEPT ![u].k = "go"]
    /\ handles' = handles \union {u}
    /\ UNCHANGED <<program, running, injector, next, join, mutex, chan, reactor, loop>>

SpawnShared(u) ==
    /\ At(Root, "go") /\ st[u].k = "unborn"
    /\ injector' = Append(injector, u)
    /\ st' = [st EXCEPT ![u].k = "go"]
    /\ UNCHANGED <<program, exec, running, next, sync, reactor, loop>>

(* A strand's future ends: its result is published, its joiner woken and    *)
(* its slot freed.  What it owned, the guard and the Sender, is dropped     *)
(* before.                                                                  *)
Finish(t) ==
    /\ At(t, "go") /\ t \notin mutex.holders /\ t \notin chan.senders
    /\ t = Root => \A u \in Tasks : st[u].k # "unborn"
    /\ st' = [st EXCEPT ![t].k = "done"]
    /\ join' = [join EXCEPT ![t] = [done |-> TRUE, waiter |-> None]]
    /\ exec' = retire(IF join[t].waiter = None THEN exec ELSE wake_strand(exec, join[t].waiter))
    /\ running' = None
    /\ UNCHANGED <<program, injector, next, handles, mutex, chan, reactor, loop>>
----------------------------------------------------------------------------
(* What a strand calls between two awaits.                                  *)

(* The call is entered.  Programs that wait for themselves are left out: a  *)
(* strand does not lock what it holds, and joins others holding nothing and *)
(* once all of them are started.                                            *)
Begin(t, call, u) ==
    /\ At(t, "go") /\ st[t].ops < MaxOps /\ call \in program[t] /\ call[1] \in Awaits
    /\ call[1] = "lock" => t \notin mutex.holders
    /\ IF call[1] = "join"
       THEN u \in handles /\ t \notin mutex.holders /\ \A v \in Tasks : st[v].k # "unborn"
       ELSE u = None
    /\ handles' = handles \ {u}
    /\ st' = [st EXCEPT ![t] = [@ EXCEPT !.k = "top", !.op = call[1], !.timed = call[2],
                                         !.target = u, !.ops = @ + 1]]
    /\ UNCHANGED <<program, exec, running, injector, next, join, mutex, chan, reactor, loop>>

(* Sender::send, and its drop.                                              *)
Send(t) ==
    /\ At(t, "go") /\ st[t].ops < MaxOps /\ t \in chan.senders
    /\ st' = [st EXCEPT ![t].ops = @ + 1]
    /\ chan' = [chan EXCEPT !.buf = @ + 1]
    /\ exec' = complete(exec, chan.token)
    /\ UNCHANGED <<program, running, injector, next, handles, join, mutex, reactor, loop>>

DropSender(t) ==
    /\ At(t, "go") /\ t \in chan.senders
    /\ chan' = [chan EXCEPT !.senders = @ \ {t}]
    /\ exec' = complete(exec, chan.token)
    /\ UNCHANGED <<program, running, injector, next, st, handles, join, mutex, reactor, loop>>

(* MutexGuard::drop.                                                        *)
Unlock(t) ==
    /\ At(t, "go") /\ t \in mutex.holders
    /\ mutex' = [locked |-> FALSE, holders |-> mutex.holders \ {t},
                 waiters |-> IF mutex.waiters = << >> THEN << >> ELSE Tail(mutex.waiters)]
    /\ exec' = IF mutex.waiters = << >> THEN exec ELSE complete(exec, Head(mutex.waiters))
    /\ UNCHANGED <<program, running, injector, next, st, handles, join, chan, reactor, loop>>
----------------------------------------------------------------------------
(* The head of each call, up to the await.                                  *)

AtTop(t, op) == At(t, "top") /\ st[t].op = op

Returned(t) == [st[t] EXCEPT !.k = "go", !.op = None, !.timed = FALSE, !.token = None,
                             !.timer = None, !.target = None]
Return(t) == st' = [st EXCEPT ![t] = Returned(t)]
Await(t, token) == st' = [st EXCEPT ![t].k = "await", ![t].token = token]

(* next_token, and the call awaits it.                                      *)
AwaitFresh(t) == next <= MaxTokens /\ next' = next + 1 /\ Await(t, next)

(* Receiver::recv.                                                          *)
Recv(t) ==
    /\ AtTop(t, "recv")
    /\ \/ /\ chan.buf > 0
          /\ chan' = [chan EXCEPT !.buf = @ - 1] /\ Return(t)
       \/ /\ chan.buf = 0 /\ chan.senders = {}
          /\ UNCHANGED chan /\ Return(t)
       \/ /\ chan.buf = 0 /\ chan.senders # {}
          /\ UNCHANGED chan /\ Await(t, chan.token)
    /\ UNCHANGED <<program, exec, running, injector, next, handles, join, mutex, reactor, loop>>

(* Mutant of Lock: a woken waiter takes the lock without looking.           *)
LockHandedOff(t) ==
    /\ AtTop(t, "lock")
    /\ \/ /\ ~mutex.locked \/ st[t].token # None
          /\ mutex' = [mutex EXCEPT !.locked = TRUE, !.holders = @ \union {t}]
          /\ Return(t) /\ UNCHANGED next
       \/ /\ mutex.locked /\ st[t].token = None
          /\ AwaitFresh(t)
          /\ mutex' = [mutex EXCEPT !.waiters = Append(@, next)]
    /\ UNCHANGED <<program, exec, running, injector, handles, join, chan, reactor, loop>>

(* Mutex::lock.                                                             *)
Lock(t) ==
    /\ AtTop(t, "lock")
    /\ \/ /\ ~mutex.locked
          /\ mutex' = [mutex EXCEPT !.locked = TRUE, !.holders = @ \union {t}]
          /\ Return(t) /\ UNCHANGED next
       \/ /\ mutex.locked
          /\ AwaitFresh(t)
          /\ mutex' = [mutex EXCEPT !.waiters = Append(@, next)]
    /\ UNCHANGED <<program, exec, running, injector, handles, join, chan, reactor, loop>>

(* yield_now: behind the others.                                            *)
Yield(t) ==
    /\ AtTop(t, "yield")
    /\ exec' = putBack(wake_strand(exec, exec.current), t)
    /\ running' = None
    /\ Await(t, None)
    /\ UNCHANGED <<program, injector, next, sync, reactor, loop>>

(* JoinHandle::join: nothing before its first poll.                         *)
Join(t) ==
    /\ AtTop(t, "join") /\ Await(t, None)
    /\ UNCHANGED <<program, exec, running, injector, next, sync, reactor, loop>>

(* read_console, sleep_ns, wait_child, recv_frame: the one request of its   *)
(* kind is set, whatever it held.                                           *)
Request(t, s) ==
    /\ AtTop(t, s) /\ AwaitFresh(t)
    /\ reactor' = [reactor EXCEPT !.req[s] = next]
    /\ UNCHANGED <<program, exec, running, injector, sync, loop>>
----------------------------------------------------------------------------
(* The queue pair and the peer's rings.                                     *)

(* kernel_process takes every submission; a completion that finds the ring  *)
(* full is lost.                                                            *)
kernel_process(r) ==
    LET all == r.cq \o r.sq
    IN  [r EXCEPT !.sq = << >>, !.cq = SubSeq(all, 1, IF Len(all) < RING_DEPTH THEN Len(all) ELSE RING_DEPTH)]

(* Reactor::pump: the doorbell, then every completion is reaped.            *)
pump(r) ==
    LET k == kernel_process(r)
    IN  [reaped |-> k.cq, reactor |-> [k EXCEPT !.cq = << >>, !.results = @ \union ToSet(k.cq)]]

completeAll(e, tokens) == FoldLeft(complete, e, tokens)

(* submit_and_await: while the ring is full, pump.                          *)
Submit(t) ==
    /\ AtTop(t, "queue") /\ AwaitFresh(t)
    /\ LET p == IF Len(reactor.sq) < RING_DEPTH THEN [reaped |-> << >>, reactor |-> reactor]
                                                ELSE pump(reactor)
       IN  /\ reactor' = [p.reactor EXCEPT !.sq = Append(@, next)]
           /\ exec' = completeAll(exec, p.reaped)
    /\ UNCHANGED <<program, running, injector, sync, loop>>

(* Mutant of ChanSend: the ring is not asked whether it is full.            *)
ChanSendUnchecked(t) ==
    /\ AtTop(t, "csend")
    /\ reactor' = [reactor EXCEPT !.outbound = @ + 1]
    /\ Return(t)
    /\ UNCHANGED <<program, exec, running, injector, next, sync, loop>>

(* chan_send_on, chan_recv_on.                                              *)
ChanSend(t) ==
    /\ AtTop(t, "csend")
    /\ \/ /\ reactor.outbound < RING_DEPTH
          /\ reactor' = [reactor EXCEPT !.outbound = @ + 1]
          /\ Return(t) /\ UNCHANGED next
       \/ /\ reactor.outbound = RING_DEPTH
          /\ AwaitFresh(t)
          /\ reactor' = [reactor EXCEPT !.send_req = next]
    /\ UNCHANGED <<program, exec, running, injector, sync, loop>>

ChanRecv(t) ==
    /\ AtTop(t, "crecv") /\ AwaitFresh(t)
    /\ reactor' = [reactor EXCEPT !.recv_req = next]
    /\ UNCHANGED <<program, exec, running, injector, sync, loop>>
----------------------------------------------------------------------------
(* A poll of a strand suspended in a call.                                  *)

Ready(t) ==
    CASE st[t].op = "join" -> join[st[t].target].done
      [] st[t].op = "yield" -> TRUE
      [] OTHER -> parkReady(exec, st[t].token)

(* Ready: the code after the await.  A lock or a receive starts over; a     *)
(* queue operation and a peer's message must be there to take.              *)
PollReady(t) ==
    /\ At(t, "await") /\ Ready(t)
    /\ exec' = IF st[t].op \in {"join", "yield"} THEN exec ELSE consume(exec, st[t].token)
    /\ \/ /\ st[t].op \in {"lock", "recv"}
          /\ st' = [st EXCEPT ![t].k = "top"] /\ UNCHANGED <<reactor, loop>>
       \/ /\ st[t].op \in Sources \union {"join", "yield", "csend"}
          /\ Return(t) /\ UNCHANGED <<reactor, loop>>
       \/ /\ st[t].op = "queue"
          /\ Return(t)
          /\ reactor' = [reactor EXCEPT !.results = @ \ {st[t].token}]
          /\ IF st[t].token \in reactor.results THEN UNCHANGED loop ELSE Panics
       \/ /\ st[t].op = "crecv"
          /\ Return(t)
          /\ reactor' = [reactor EXCEPT !.recv_msg = FALSE]
          /\ IF reactor.recv_msg THEN UNCHANGED loop ELSE Panics
    /\ UNCHANGED <<program, running, injector, next, sync>>

(* Pending: the call's own future has noted whom to wake.                   *)
Noted(t) == IF st[t].op = "join" THEN exec ELSE park(exec, st[t].token)
NoteJoiner(t) ==
    join' = IF st[t].op = "join" THEN [join EXCEPT ![st[t].target].waiter = exec.current] ELSE join

PollPending(t) ==
    /\ At(t, "await") /\ ~Ready(t) /\ ~st[t].timed
    /\ NoteJoiner(t)
    /\ exec' = putBack(Noted(t), t) /\ running' = None
    /\ UNCHANGED <<program, injector, next, st, handles, mutex, chan, reactor, loop>>

(* timeout polls its timer next: the first time it asks for one, later it   *)
(* looks whether it fired, and then drops the call.                         *)
TimeoutArms(t) ==
    /\ At(t, "await") /\ ~Ready(t) /\ st[t].timed /\ st[t].timer = None
    /\ next <= MaxTokens /\ next' = next + 1
    /\ NoteJoiner(t)
    /\ reactor' = [reactor EXCEPT !.req["timer"] = next]
    /\ st' = [st EXCEPT ![t].timer = next]
    /\ exec' = putBack(park(Noted(t), next), t) /\ running' = None
    /\ UNCHANGED <<program, injector, handles, mutex, chan, loop>>

TimeoutPends(t) ==
    /\ At(t, "await") /\ ~Ready(t) /\ st[t].timer # None /\ ~parkReady(exec, st[t].timer)
    /\ NoteJoiner(t)
    /\ exec' = putBack(park(Noted(t), st[t].timer), t) /\ running' = None
    /\ UNCHANGED <<program, injector, next, st, handles, mutex, chan, reactor, loop>>

TimeoutElapses(t) ==
    /\ At(t, "await") /\ ~Ready(t) /\ st[t].timer # None /\ parkReady(exec, st[t].timer)
    /\ NoteJoiner(t)
    /\ exec' = consume(Noted(t), st[t].timer)
    /\ Return(t)
    /\ UNCHANGED <<program, running, injector, next, handles, mutex, chan, reactor, loop>>
----------------------------------------------------------------------------
(* block_on, once run has returned.                                         *)

Idle == Alive /\ running = None /\ exec.ready = << >> /\ injector = << >>

Exit ==
    /\ Idle /\ exec.live = 0
    /\ loop' = [loop EXCEPT !.end = "exit"]
    /\ UNCHANGED <<program, exec, running, injector, next, st, sync, reactor>>

Pump ==
    /\ Idle /\ exec.live > 0 /\ pump(reactor).reaped # << >>
    /\ reactor' = pump(reactor).reactor
    /\ exec' = completeAll(exec, pump(reactor).reaped)
    /\ loop' = [loop EXCEPT !.guard = 0]
    /\ UNCHANGED <<program, running, injector, next, st, sync>>

Quiet == Idle /\ exec.live > 0 /\ pump(reactor).reaped = << >>

(* The requests block_on looks at before s.                                 *)
Before(s) == CASE s = "console" -> {} [] s = "timer" -> {"console"}
               [] s = "wait" -> {"console", "timer"} [] s = "net" -> {"console", "timer", "wait"}
Unasked(S) == \A s \in S : reactor.req[s] = None

(* service_console, service_timer, service_wait, service_net_rx: the cell   *)
(* blocks in the kernel until the call returns.                             *)
Service(s) ==
    /\ Quiet /\ Unasked(Before(s)) /\ reactor.req[s] # None
    /\ reactor' = [reactor EXCEPT !.req[s] = None]
    /\ exec' = complete(exec, reactor.req[s])
    /\ loop' = [loop EXCEPT !.guard = 0]
    /\ UNCHANGED <<program, running, injector, next, st, sync>>

(* service_channel: a receive, else a send, else the peer's turn.           *)
Deliverable == reactor.recv_req # None /\ reactor.inbound > 0

(* Mutant of Sendable: sends are looked at only beside a receive.           *)
SendableIfReceiving == reactor.recv_req # None /\ reactor.send_req # None /\ reactor.outbound < RING_DEPTH

Sendable == reactor.send_req # None /\ reactor.outbound < RING_DEPTH

(* Mutant of Deliver: the receiver is woken, the message not stored.        *)
DeliverForgets ==
    /\ Quiet /\ Unasked(Sources) /\ Deliverable
    /\ reactor' = [reactor EXCEPT !.inbound = @ - 1, !.recv_req = None]
    /\ exec' = complete(exec, reactor.recv_req)
    /\ loop' = [loop EXCEPT !.guard = 0]
    /\ UNCHANGED <<program, running, injector, next, st, sync>>

Deliver ==
    /\ Quiet /\ Unasked(Sources) /\ Deliverable
    /\ reactor' = [reactor EXCEPT !.inbound = @ - 1, !.recv_msg = TRUE, !.recv_req = None]
    /\ exec' = complete(exec, reactor.recv_req)
    /\ loop' = [loop EXCEPT !.guard = 0]
    /\ UNCHANGED <<program, running, injector, next, st, sync>>

CompleteSend ==
    /\ Quiet /\ Unasked(Sources) /\ ~Deliverable /\ Sendable
    /\ reactor' = [reactor EXCEPT !.outbound = @ + 1, !.send_req = None]
    /\ exec' = complete(exec, reactor.send_req)
    /\ loop' = [loop EXCEPT !.guard = 0]
    /\ UNCHANGED <<program, running, injector, next, st, sync>>

(* yield_cell: the peer, which is not part of this cell, fills or drains    *)
(* its side of the rings, or does neither.                                  *)
HandsOff ==
    /\ Quiet /\ Unasked(Sources) /\ ~Deliverable /\ ~Sendable
    /\ reactor.recv_req # None \/ reactor.send_req # None
    /\ loop' = [loop EXCEPT !.guard = 0]
    /\ UNCHANGED <<program, exec, running, injector, next, st, sync>>

PeerSends == HandsOff /\ reactor.inbound < RING_DEPTH /\ reactor' = [reactor EXCEPT !.inbound = @ + 1]
PeerReceives == HandsOff /\ reactor.outbound > 0 /\ reactor' = [reactor EXCEPT !.outbound = @ - 1]
PeerPasses == HandsOff /\ UNCHANGED reactor

(* Nothing to do although strands are alive: after four such turns the      *)
(* loop panics.                                                             *)
NoProgress ==
    /\ Quiet /\ Unasked(Sources) /\ reactor.recv_req = None /\ reactor.send_req = None
    /\ loop' = [guard |-> loop.guard + 1, end |-> IF loop.guard + 1 < 4 THEN "no" ELSE "panic"]
    /\ UNCHANGED <<program, exec, running, injector, next, st, sync, reactor>>

Ended == ~Alive /\ UNCHANGED vars

Call(t) ==
    \/ \E call \in program[t] : \E u \in Tasks \union {None} : Begin(t, call, u)
    \/ Send(t) \/ DropSender(t) \/ Unlock(t) \/ Finish(t)
    \/ Recv(t) \/ Lock(t) \/ Yield(t) \/ Join(t) \/ Submit(t) \/ ChanSend(t) \/ ChanRecv(t)
    \/ \E s \in Sources : Request(t, s)
    \/ PollReady(t) \/ PollPending(t) \/ TimeoutArms(t) \/ TimeoutPends(t) \/ TimeoutElapses(t)

Vcore ==
    \/ PollNext \/ TakeShared
    \/ \E u \in Tasks : Spawn(u) \/ SpawnShared(u)
    \/ \E t \in Tasks : Call(t)
    \/ Exit \/ Pump \/ Deliver \/ CompleteSend \/ NoProgress
    \/ \E s \in Sources : Service(s)

Next == Vcore \/ PeerSends \/ PeerReceives \/ PeerPasses \/ Ended

Spec == Init /\ [][Next]_vars

(* The vcore runs, a blocking call returns, and the peer does not leave its *)
(* side of the exchange alone for ever.                                     *)
FairSpec == Spec /\ WF_vars(Vcore) /\ SF_vars(PeerSends) /\ SF_vars(PeerReceives)
----------------------------------------------------------------------------
(* Every live strand is in one place: in its slab slot, on the injector, or *)
(* being polled; a freed slot is vacant and freed once.  run_one takes a    *)
(* strand out of the slab for the poll, and stale slot numbers stay in the  *)
(* ready queue, in waiting and in JoinState when a timeout drops a future.  *)
StrandsInPlace ==
    /\ \A t \in Tasks : LET n == Cardinality({i \in Slots : exec.slab[i] = t})
                            m == Cardinality({i \in DOMAIN injector : injector[i] = t})
                            r == IF running = t THEN 1 ELSE 0
                        IN  n + m + r = IF st[t].k \in {"unborn", "done"} THEN 0 ELSE 1
    /\ \A i \in DOMAIN exec.free :
         /\ exec.slab[exec.free[i]] = None /\ (running # None => exec.current # exec.free[i])
         /\ \A j \in DOMAIN exec.free : exec.free[i] = exec.free[j] => i = j
    /\ exec.live = Cardinality({t \in Tasks \ ToSet(injector) : st[t].k \notin {"unborn", "done"}})

(* lock.rs's safety comment: the guard is "the only live guard".            *)
OneGuard == Cardinality(mutex.holders) <= 1 /\ (mutex.locked <=> mutex.holders # {})

(* What a suspended strand waits for has not happened.                      *)
Unmet(t) ==
    LET op == st[t].op IN
    \/ op = "join" /\ ~join[st[t].target].done
    \/ op = "lock" /\ mutex.locked
    \/ op = "recv" /\ chan.buf = 0 /\ chan.senders # {}
    \/ op \in Sources /\ reactor.req[op] = st[t].token
    \/ op = "queue" /\ st[t].token \in ToSet(reactor.sq)
    \/ op = "csend" /\ reactor.send_req = st[t].token
    \/ op = "crecv" /\ reactor.recv_req = st[t].token
    \/ st[t].timer # None /\ reactor.req["timer"] = st[t].timer

(* The documented limits: "one reader at a time", one outstanding wait, one *)
(* pending timer, one strand an end of the peer's channel.  A timeout has a *)
(* timer too, and is not put around a lock.                                 *)
Users(c) == {t \in Tasks : \E b \in BOOLEAN : <<c, b>> \in program[t]}
Disciplined ==
    /\ \A c \in Sources \union {"csend", "crecv"} : Cardinality(Users(c)) <= 1
    /\ \A t \in Users("timer") : \A u \in Tasks \ {t} : \A c \in program[u] : ~c[2]
    /\ \A t \in Tasks : <<"lock", TRUE>> \notin program[t]

(* No wake-up is lost: when no strand is ready, every suspended one waits   *)
(* for something that has not happened.  lock.rs: "unlock (guard drop)      *)
(* wakes the next waiter"; channel.rs: "every send wakes a parked receiver".*)
NoLostWakeup ==
    Idle /\ Disciplined => \A t \in Tasks : st[t].k = "await" => Unmet(t)

(* None of the loop's own assertions fires: "reactor made no progress",     *)
(* "completion missing after wake", "channel recv woke with no message".    *)
NoPanic == Disciplined => loop.end # "panic"

(* lock.rs: "unlock (guard drop) wakes the next waiter", whoever gave up    *)
(* waiting in between.                                                      *)
UnlockWakes ==
    Idle => \A t \in Tasks : st[t].k = "await" /\ st[t].op = "lock" => mutex.locked

(* docs/NETSTACK.md on two timer waiters in one cell: they "interleave      *)
(* rather than wait together", and "nothing is lost".  A strand that sleeps *)
(* has its request with the reactor until it is completed.                  *)
SleepsAreKept ==
    \A t \in Tasks : st[t].k = "await" /\ st[t].op = "timer" =>
        reactor.req["timer"] = st[t].token \/ st[t].token \in exec.completed

(* block_on returns: every strand it drives comes to its end.               *)
Returns == Disciplined => <>(loop.end = "exit")
=============================================================================
