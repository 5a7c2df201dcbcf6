------------------------------- MODULE Strand -------------------------------
(* The strand executor of one vcore (runtime/src/strand.rs): a slab of      *)
(* strands, a ready queue of slab slots, and the tokens strands park on.    *)
(* An executor is a record, and every operation of the source is an         *)
(* operator from executors to executors, so that the modules of strands     *)
(* that use it can put several in one step.                                 *)
EXTENDS Naturals, Sequences, FiniteSets, SequencesExt

CONSTANTS Tasks,        \* the strands a program can spawn
          MaxTokens,    \* bound on next_token
          None          \* Option::None

Slots == 0 .. Cardinality(Tasks) - 1
Tokens == 1 .. MaxTokens

ASSUME StrandConstants ==
    /\ IsFiniteSet(Tasks) /\ Tasks # {}
    /\ MaxTokens \in Nat
    /\ None \notin Tasks \union Slots \union Tokens

(* Slab entries below len exist; None is a vacant one.  A strand that is    *)
(* being polled is out of the slab, and current is its slot.                *)
Executors ==
    [slab : [Slots -> Tasks \union {None}], len : 0 .. Cardinality(Tasks),
     free : Seq(Slots), ready : Seq(Slots),
     waiting : [Tokens -> Slots \union {None}], completed : SUBSET Tokens,
     current : Slots, live : 0 .. Cardinality(Tasks)]

ExecutorNew ==
    [slab |-> [i \in Slots |-> None], len |-> 0, free |-> << >>, ready |-> << >>,
     waiting |-> [t \in Tokens |-> None], completed |-> {}, current |-> 0, live |-> 0]

(* Executor::insert: the last freed slot, else a new one.                   *)
InsertSlot(e) == IF e.free = << >> THEN e.len ELSE Last(e.free)

insert(e, s) ==
    [e EXCEPT !.slab[InsertSlot(e)] = s,
              !.len = IF e.free = << >> THEN @ + 1 ELSE @,
              !.free = IF @ = << >> THEN @ ELSE Front(@),
              !.ready = Append(@, InsertSlot(e)),
              !.live = @ + 1]

wake_strand(e, id) == [e EXCEPT !.ready = Append(@, id)]

(* Mutant of complete: a strand already parked is not queued.               *)
completeRecordsOnly(e, t) ==
    [e EXCEPT !.waiting[t] = None, !.completed = @ \union {t}]

(* complete: the completion is recorded whether or not a strand is parked,  *)
(* so that one that parks later does not wait.                              *)
complete(e, t) ==
    [e EXCEPT !.ready = IF e.waiting[t] = None THEN @ ELSE Append(@, e.waiting[t]),
              !.waiting[t] = None,
              !.completed = @ \union {t}]

(* Park::poll for the strand being polled: Ready, and the completion is     *)
(* consumed, or Pending, and the strand's slot waits for the token.         *)
parkReady(e, t) == t \in e.completed
consume(e, t) == [e EXCEPT !.completed = @ \ {t}]
park(e, t) == [e EXCEPT !.waiting[t] = e.current]

(* Mutant of takeOut: the strand is polled in its slot.                     *)
takeOutInPlace(e) == [e EXCEPT !.ready = Tail(@), !.current = Head(e.ready)]

(* run_one before the poll, and after it.                                   *)
takeOut(e) ==
    LET id == Head(e.ready)
        popped == [e EXCEPT !.ready = Tail(@)]
    IN  IF e.slab[id] = None THEN popped
        ELSE [popped EXCEPT !.slab[id] = None, !.current = id]

putBack(e, s) == [e EXCEPT !.slab[e.current] = s]

retire(e) == [e EXCEPT !.free = Append(@, e.current), !.live = @ - 1]
=============================================================================
