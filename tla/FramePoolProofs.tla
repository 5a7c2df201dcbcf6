-------------------------- MODULE FramePoolProofs --------------------------
(* The frame pool's invariants, for every pool size, reference ceiling,     *)
(* set of CPUs and set of mappings, each of which takes a reference.        *)
EXTENDS FramePool, FiniteSetTheorems, WellFoundedInduction, TLAPS

----------------------------------------------------------------------------
(* The inductive invariant.                                                 *)

(* What a call in progress knows of the mappings it is about.               *)
Fits(k, mp) ==
    \/ k = Idle
    \/ /\ k.st \in {"called", "done"} /\ k.op = "alloc" /\ mp[k.n] = NoFrame
       /\ k.dst = NoFrame /\ (k.st = "done" => k.res \in Frames \union {NoFrame})
    \/ /\ k.st \in {"called", "done"} /\ k.op = "alloc_on" /\ k.m = k.n /\ k.arg \in Nodes
       /\ mp[k.n] = NoFrame /\ k.dst = NoFrame
       /\ (k.st = "done" => k.res \in Frames \union {NoFrame})
    \/ /\ k.st \in {"called", "done"} /\ k.op = "contig" /\ k.m # k.n
       /\ mp[k.m] = NoFrame /\ mp[k.n] = NoFrame /\ k.dst = NoFrame
       /\ (k.st = "done" => k.res = NoFrame \/ (k.res \in Frames /\ k.res + 1 \in Frames))
    \/ /\ k.st \in {"called", "done"} /\ k.op = "free" /\ k.m = k.n /\ k.arg \in Frames
       /\ mp[k.m] = (IF k.dst = NoFrame THEN NoFrame ELSE k.arg)
       /\ k.dst \in Frames \union {NoFrame}
    \/ /\ k.op = "share" /\ k.m # k.n /\ k.arg \in Frames /\ mp[k.m] = k.arg
       /\ mp[k.n] = NoFrame /\ k.dst = NoFrame
       /\ \/ k.st = "called"
          \/ k.st = "done" /\ k.res \in {0, 1}
          \/ k.st = "copying" /\ k.res = 0
    \/ /\ k.op = "cow" /\ k.m = k.n /\ k.arg \in Frames /\ mp[k.m] = k.arg
       /\ \/ k.st = "called" /\ k.dst = NoFrame
          \/ k.st = "done" /\ k.dst = NoFrame /\ k.res \in Frames \union {COW_SOLE, COW_NO_FRAME}
          \/ k.st = "copying" /\ k.res \in Frames /\ k.dst = k.res

(* A mapping takes part in at most one call.                                *)
OneCall ==
    \A c, d \in Cpus : c # d /\ call[c].st # "idle" /\ call[d].st # "idle"
        => {call[c].m, call[c].n} \cap {call[d].m, call[d].n} = {}

CallsFit ==
    \A c \in Cpus : /\ Fits(call[c], maps)
                    /\ call[c].st # "idle" => call[c].m \in Mappings /\ call[c].n \in Mappings

(* A call that breaks copy-on-write is about a page that may not be written.*)
BreaksReadOnly ==
    \A c \in Cpus : \/ call[c].st # "idle" /\ call[c].op = "cow"
                    \/ call[c].st # "idle" /\ call[c].op = "free"
                    => call[c].m \notin writable

(* The holders of a frame, as a set of slots: a mapping's entry, or what a  *)
(* CPU's call is to free, copies into, or has just been given.              *)
Freed(k) == k.op = "free" /\ k.dst # NoFrame /\ k.st = "done"
EntryHeld(mp, cl, m, f) == mp[m] = f /\ ~\E c \in Cpus : cl[c].m = m /\ Freed(cl[c])
Kinds == {"free", "copy", "new"}
Has(k, kind, f) ==
    \/ kind = "free" /\ k.op = "free" /\ k.dst = NoFrame /\ k.st = "called" /\ k.arg = f
    \/ kind = "copy" /\ k.st # "idle" /\ k.dst = f
    \/ kind = "new" /\ k.st = "done" /\
         \/ k.op \in {"alloc", "alloc_on", "cow"} /\ k.res = f
         \/ k.op = "contig" /\ k.res # NoFrame /\ f \in {k.res, k.res + 1}
         \/ k.op = "share" /\ k.res = 1 /\ k.arg = f
Slots == ({"entry"} \X Mappings) \union (Kinds \X Cpus)
Held(mp, cl, f, s) ==
    IF s[1] = "entry" THEN EntryHeld(mp, cl, s[2], f) ELSE Has(cl[s[2]], s[1], f)
HeldBy(mp, cl, f) == {s \in Slots : Held(mp, cl, f, s)}

(* A holder that expects to be alone: a page that may be written, or whose  *)
(* break was told that it is the sole holder, and a frame fresh from the    *)
(* pool.  A page's own fork may have been given the second reference.       *)
Sole(k, m) == k.st = "done" /\ k.op = "cow" /\ k.res = COW_SOLE /\ k.m = m
Keeps(cl, wr, s) ==
    \/ s[1] = "entry" /\ (s[2] \in wr \/ \E c \in Cpus : Sole(cl[c], s[2]))
    \/ s[1] = "copy"
    \/ s[1] = "new" /\ cl[s[2]].op # "share"
ForkOf(cl, t, s) ==
    s[1] = "entry" /\ t[1] = "new" /\ cl[t[2]].op = "share" /\ cl[t[2]].m = s[2]
OwnedAt(mp, cl, wr, f) ==
    \A s, t \in HeldBy(mp, cl, f) : Keeps(cl, wr, s) => t = s \/ ForkOf(cl, t, s)
Owned == \A f \in Frames : OwnedAt(maps, call, writable, f)
WritableMapped == \A m \in writable : maps[m] \in Frames

IInv ==
    /\ TypeOK /\ PoolConsistent /\ RefsAreHolders
    /\ OneCall /\ CallsFit /\ BreaksReadOnly /\ WritableMapped /\ Owned

----------------------------------------------------------------------------
(* Holders.                                                                 *)

(* Holders, the set that RefsAreHolders counts, is HeldBy.                  *)
LEMMA HoldersAre ==
    ASSUME NEW f PROVE Holders(f) = HeldBy(maps, call, f)
<1>1. ASSUME NEW s PROVE s \in Holders(f) => s \in HeldBy(maps, call, f)
  BY DEF Holders, HeldBy, Slots, Held, EntryHeld, Has, Freed, BreakFreed, Kinds
<1>2. ASSUME NEW s PROVE s \in HeldBy(maps, call, f) => s \in Holders(f)
  <2> SUFFICES ASSUME s \in Slots, Held(maps, call, f, s) PROVE s \in Holders(f)
    BY DEF HeldBy
  <2>1. CASE s \in {"entry"} \X Mappings
    BY <2>1 DEF Holders, Held, EntryHeld, Freed, BreakFreed
  <2>2. CASE s \in Kinds \X Cpus
    BY <2>2 DEF Holders, Held, Has, Kinds
  <2> QED BY <2>1, <2>2 DEF Slots
<1> QED BY <1>1, <1>2

(* The same, in the next state.                                             *)
LEMMA HoldersAreNext ==
    ASSUME NEW f PROVE Holders(f)' = HeldBy(maps', call', f)
<1>1. ASSUME NEW s PROVE s \in Holders(f)' => s \in HeldBy(maps', call', f)
  BY DEF Holders, HeldBy, Slots, Held, EntryHeld, Has, Freed, BreakFreed, Kinds
<1>2. ASSUME NEW s PROVE s \in HeldBy(maps', call', f) => s \in Holders(f)'
  <2> SUFFICES ASSUME s \in Slots, Held(maps', call', f, s) PROVE s \in Holders(f)'
    BY DEF HeldBy
  <2>1. CASE s \in {"entry"} \X Mappings
    BY <2>1 DEF Holders, Held, EntryHeld, Freed, BreakFreed
  <2>2. CASE s \in Kinds \X Cpus
    BY <2>2 DEF Holders, Held, Has, Kinds
  <2> QED BY <2>1, <2>2 DEF Slots
<1> QED BY <1>1, <1>2

(* A frame has finitely many holders, and its count is their number.        *)
LEMMA FiniteHolders ==
    ASSUME NEW mp, NEW cl, NEW f PROVE IsFiniteSet(HeldBy(mp, cl, f))
<1>1. IsFiniteSet({"entry"}) /\ IsFiniteSet(Kinds)
  <2>1. Kinds = ({"free"} \union {"copy"}) \union {"new"} BY DEF Kinds
  <2> QED BY Zenon, <2>1, FS_Singleton, FS_Union
<1>2. IsFiniteSet(Slots)
  BY Zenon, <1>1, FS_Product, FS_Union, CpusAssumption, MappingsAssumption DEF Slots
<1>3. HeldBy(mp, cl, f) \in SUBSET Slots BY DEF HeldBy
<1> QED BY <1>2, <1>3, FS_Subset

----------------------------------------------------------------------------
(* Steps.  A step of CPU c leaves its call at k and touches only the        *)
(* mappings in X, which no other call is about.                             *)

Alone(c, X) ==
    \A d \in Cpus \ {c} : call[d].st # "idle" => call[d].m \notin X /\ call[d].n \notin X
KeptOff(X) == \A x \in Mappings \ X : maps'[x] = maps[x] /\ (x \in writable' <=> x \in writable)
Acts(c, k, X) ==
    /\ X \subseteq Mappings
    /\ call' = [call EXCEPT ![c] = k]
    /\ Alone(c, X)
    /\ call[c].st # "idle" => call[c].m \in X /\ call[c].n \in X
    /\ k.st # "idle" => k.m \in X /\ k.n \in X
    /\ KeptOff(X)
CallType == [st : {"idle", "called", "copying", "done"}, op : Ops,
             m : Mappings \union {0}, n : Mappings \union {0},
             arg : Nat, res : Nat, dst : Frames \union {NoFrame}]

(* No other CPU's call changes, and none comes to share a mapping.          *)
LEMMA ActsCalls ==
    ASSUME IInv, NEW c \in Cpus, NEW k \in CallType, NEW X, Acts(c, k, X)
    PROVE  /\ call'[c] = k /\ \A d \in Cpus \ {c} : call'[d] = call[d]
           /\ call' \in [Cpus -> CallType]
           /\ OneCall'
           /\ \A d \in Cpus \ {c} :
                /\ Fits(call'[d], maps')
                /\ call'[d].st # "idle" => call'[d].m \in Mappings /\ call'[d].n \in Mappings
<1>1. call \in [Cpus -> CallType] BY DEF IInv, TypeOK, CallType
<1>2. call'[c] = k /\ \A d \in Cpus \ {c} : call'[d] = call[d] BY <1>1 DEF Acts, Alone, KeptOff
<1>3. call' \in [Cpus -> CallType] BY <1>1 DEF Acts, Alone, KeptOff
<1>4. OneCall'
  <2> SUFFICES ASSUME NEW a \in Cpus, NEW b \in Cpus, a # b,
                      call'[a].st # "idle", call'[b].st # "idle"
               PROVE  {call'[a].m, call'[a].n} \cap {call'[b].m, call'[b].n} = {}
    BY DEF OneCall
  <2>1. CASE a = c BY <1>2, <2>1 DEF Acts, Alone, KeptOff
  <2>2. CASE b = c BY <1>2, <2>2 DEF Acts, Alone, KeptOff
  <2>3. CASE a # c /\ b # c BY <1>2, <2>3 DEF IInv, OneCall
  <2> QED BY <2>1, <2>2, <2>3
<1>5. ASSUME NEW d \in Cpus \ {c}
      PROVE  /\ Fits(call'[d], maps')
             /\ call'[d].st # "idle" => call'[d].m \in Mappings /\ call'[d].n \in Mappings
  <2>1. call'[d] = call[d] BY <1>2
  <2>2. CASE call[d].st = "idle"
    BY <2>1, <2>2 DEF IInv, CallsFit, Fits
  <2>3. CASE call[d].st # "idle"
    <3>1. call[d].m \in Mappings \ X /\ call[d].n \in Mappings \ X
      BY <2>3 DEF IInv, CallsFit, Acts, Alone, KeptOff
    <3>2. maps'[call[d].m] = maps[call[d].m] /\ maps'[call[d].n] = maps[call[d].n]
      BY <3>1 DEF Acts, Alone, KeptOff
    <3> QED BY <2>1, <3>1, <3>2 DEF IInv, CallsFit, Fits
  <2> QED BY <2>2, <2>3
<1> QED BY <1>2, <1>3, <1>4, <1>5

(* Only the entries in X and the step's own call change what they hold.     *)
Touched(c, X) == {s \in Slots : (s[1] = "entry" /\ s[2] \in X) \/ (s[1] # "entry" /\ s[2] = c)}

LEMMA ActsHolders ==
    ASSUME IInv, NEW c \in Cpus, NEW k \in CallType, NEW X, Acts(c, k, X), NEW f
    PROVE  /\ \A s \in Slots \ Touched(c, X) :
                s \in HeldBy(maps', call', f) <=> s \in HeldBy(maps, call, f)
           /\ \A x \in X : <<"entry", x>> \in HeldBy(maps, call, f) <=>
                maps[x] = f /\ ~(call[c].m = x /\ Freed(call[c]))
           /\ \A x \in X : <<"entry", x>> \in HeldBy(maps', call', f) <=>
                maps'[x] = f /\ ~(k.m = x /\ Freed(k))
           /\ \A kind \in Kinds :
                /\ <<kind, c>> \in HeldBy(maps, call, f) <=> Has(call[c], kind, f)
                /\ <<kind, c>> \in HeldBy(maps', call', f) <=> Has(k, kind, f)
<1>1. call'[c] = k /\ \A d \in Cpus \ {c} : call'[d] = call[d] BY ActsCalls
<1>2. ASSUME NEW x \in X
      PROVE  /\ EntryHeld(maps, call, x, f) <=> maps[x] = f /\ ~(call[c].m = x /\ Freed(call[c]))
             /\ EntryHeld(maps', call', x, f) <=> maps'[x] = f /\ ~(k.m = x /\ Freed(k))
  <2>1. \A d \in Cpus \ {c} : ~(call[d].m = x /\ Freed(call[d]))
    BY DEF Acts, Alone, KeptOff, Freed
  <2>2. \A d \in Cpus \ {c} : ~(call'[d].m = x /\ Freed(call'[d])) BY <1>1, <2>1
  <2>3. (\E d \in Cpus : call[d].m = x /\ Freed(call[d])) <=> call[c].m = x /\ Freed(call[c])
    BY <2>1
  <2>4. (\E d \in Cpus : call'[d].m = x /\ Freed(call'[d])) <=> k.m = x /\ Freed(k)
    BY <2>2, <1>1
  <2> QED BY <2>3, <2>4 DEF EntryHeld
<1>3. ASSUME NEW x \in Mappings \ X
      PROVE  EntryHeld(maps', call', x, f) <=> EntryHeld(maps, call, x, f)
  <2>1. maps'[x] = maps[x] BY DEF Acts, Alone, KeptOff
  <2>2. ~(call[c].m = x /\ Freed(call[c])) /\ ~(k.m = x /\ Freed(k))
    BY DEF Acts, Alone, KeptOff, Freed
  <2>3. \A d \in Cpus : (call[d].m = x /\ Freed(call[d])) <=> (call'[d].m = x /\ Freed(call'[d]))
    BY <1>1, <2>2
  <2> QED BY <2>1, <2>3 DEF EntryHeld
<1>4. ASSUME NEW s \in Slots \ Touched(c, X)
      PROVE  s \in HeldBy(maps', call', f) <=> s \in HeldBy(maps, call, f)
  <2>1. CASE s \in {"entry"} \X Mappings
    <3>1. s[1] = "entry" /\ s[2] \in Mappings \ X BY <2>1 DEF Touched
    <3> QED BY <3>1, <1>3 DEF HeldBy, Held
  <2>2. CASE s \in Kinds \X Cpus
    <3>1. s[1] # "entry" /\ s[2] \in Cpus \ {c} BY <2>2 DEF Touched, Kinds
    <3> QED BY <3>1, <1>1 DEF HeldBy, Held
  <2> QED BY <2>1, <2>2 DEF Slots
<1>5. \A x \in X : <<"entry", x>> \in Slots BY DEF Acts, Alone, KeptOff, Slots
<1>6. \A kind \in Kinds : <<kind, c>> \in Slots /\ kind # "entry" BY DEF Slots, Kinds
<1>7. \A x \in X : /\ <<"entry", x>> \in HeldBy(maps, call, f) <=> EntryHeld(maps, call, x, f)
                   /\ <<"entry", x>> \in HeldBy(maps', call', f) <=> EntryHeld(maps', call', x, f)
  BY Zenon, <1>5 DEF HeldBy, Held
<1>8. \A kind \in Kinds :
         /\ <<kind, c>> \in HeldBy(maps, call, f) <=> Has(call[c], kind, f)
         /\ <<kind, c>> \in HeldBy(maps', call', f) <=> Has(k, kind, f)
  BY <1>1, <1>6 DEF HeldBy, Held
<1> QED BY <1>2, <1>4, <1>7, <1>8

LEMMA EntriesBefore ==
    ASSUME NEW c \in Cpus, NEW X \in SUBSET Mappings, Alone(c, X), NEW f
    PROVE  \A x \in X : <<"entry", x>> \in HeldBy(maps, call, f) <=>
                           maps[x] = f /\ ~(call[c].m = x /\ Freed(call[c]))
<1> SUFFICES ASSUME NEW x \in X
             PROVE  <<"entry", x>> \in HeldBy(maps, call, f) <=>
                      maps[x] = f /\ ~(call[c].m = x /\ Freed(call[c]))
  BY Zenon
<1>1. \A d \in Cpus \ {c} : ~(call[d].m = x /\ Freed(call[d])) BY DEF Alone, Freed
<1>2. EntryHeld(maps, call, x, f) <=> maps[x] = f /\ ~(call[c].m = x /\ Freed(call[c]))
  BY <1>1 DEF EntryHeld
<1>3. <<"entry", x>> \in Slots BY DEF Slots
<1> QED BY <1>2, <1>3 DEF HeldBy, Held

LEMMA OwnSlots ==
    ASSUME NEW c \in Cpus, NEW f, NEW kind \in Kinds
    PROVE  <<kind, c>> \in HeldBy(maps, call, f) <=> Has(call[c], kind, f)
BY DEF HeldBy, Held, Slots, Kinds

LEMMA TouchedIs ==
    ASSUME NEW c, NEW X, NEW s \in Touched(c, X)
    PROVE  (\E x \in X : s = <<"entry", x>>) \/ (\E kind \in Kinds : s = <<kind, c>>)
<1>1. CASE s \in {"entry"} \X Mappings BY <1>1 DEF Touched
<1>2. CASE s \in Kinds \X Cpus BY <1>2 DEF Touched, Kinds
<1> QED BY <1>1, <1>2 DEF Touched, Slots

(* The next holders of f are B, if B is right about the touched slots and   *)
(* agrees with the holders of f about the others.                           *)
Becomes(c, k, X, f, B) ==
    /\ B \in SUBSET Slots
    /\ \A s \in Slots \ Touched(c, X) : s \in B <=> s \in HeldBy(maps, call, f)
    /\ \A x \in X : <<"entry", x>> \in B <=> maps'[x] = f /\ ~(k.m = x /\ Freed(k))
    /\ \A kind \in Kinds : <<kind, c>> \in B <=> Has(k, kind, f)

LEMMA HoldersBecome ==
    ASSUME IInv, NEW c \in Cpus, NEW k \in CallType, NEW X, Acts(c, k, X), NEW f,
           NEW B, Becomes(c, k, X, f, B)
    PROVE  HeldBy(maps', call', f) = B
<1>1. HeldBy(maps', call', f) \subseteq Slots BY DEF HeldBy
<1>2. ASSUME NEW s \in Slots PROVE s \in HeldBy(maps', call', f) <=> s \in B
  <2>1. CASE s \in Touched(c, X) BY <2>1, TouchedIs, ActsHolders DEF Becomes
  <2>2. CASE s \notin Touched(c, X) BY <2>2, ActsHolders DEF Becomes
  <2> QED BY <2>1, <2>2
<1> QED BY <1>1, <1>2 DEF Becomes

(* Away from the touched slots, a holder that expects to be alone is one    *)
(* that did before.                                                         *)
LEMMA KeepsOff ==
    ASSUME IInv, NEW c \in Cpus, NEW k \in CallType, NEW X, Acts(c, k, X),
           NEW s \in Slots \ Touched(c, X), Keeps(call', writable', s)
    PROVE  Keeps(call, writable, s)
<1>1. call'[c] = k /\ \A d \in Cpus \ {c} : call'[d] = call[d] BY ActsCalls
<1>2. CASE s \in {"entry"} \X Mappings
  <2>1. s[1] = "entry" /\ s[2] \in Mappings \ X BY <1>2 DEF Touched, Slots
  <2>2. s[2] \in writable' <=> s[2] \in writable BY <2>1 DEF Acts, Alone, KeptOff
  <2>3. ~Sole(k, s[2]) BY <2>1 DEF Acts, Alone, KeptOff, Sole
  <2>4. (\E d \in Cpus : Sole(call'[d], s[2])) => \E d \in Cpus : Sole(call[d], s[2])
    BY <2>3, <1>1
  <2> QED BY <2>1, <2>2, <2>4 DEF Keeps
<1>3. CASE s \in Kinds \X Cpus
  <2>1. s[1] # "entry" /\ s[2] \in Cpus \ {c} BY <1>3 DEF Touched, Slots, Kinds
  <2> QED BY <2>1, <1>1 DEF Keeps
<1> QED BY <1>2, <1>3 DEF Slots

(* A frame with a touched holder: each such holder is alone if it expects   *)
(* to be, and either one was there before or there is no other.             *)
LEMMA OwnedTouched ==
    ASSUME IInv, NEW c \in Cpus, NEW k \in CallType, NEW X, Acts(c, k, X), NEW f \in Frames,
           \A t \in HeldBy(maps', call', f) \cap Touched(c, X) :
              /\ Keeps(call', writable', t) =>
                   \A u \in HeldBy(maps', call', f) : u = t \/ ForkOf(call', u, t)
              /\ \/ \E u \in Touched(c, X) : u \in HeldBy(maps, call, f)
                 \/ HeldBy(maps', call', f) \subseteq {t}
    PROVE  OwnedAt(maps', call', writable', f)
<1> SUFFICES ASSUME NEW s \in HeldBy(maps', call', f), NEW t \in HeldBy(maps', call', f),
                    Keeps(call', writable', s), s # t, s \notin Touched(c, X)
             PROVE  ForkOf(call', t, s)
  BY DEF OwnedAt
<1>1. s \in Slots /\ t \in Slots BY DEF HeldBy
<1>2. s \in HeldBy(maps, call, f) BY <1>1, ActsHolders
<1>3. Keeps(call, writable, s) BY <1>1, KeepsOff
<1>4. \A u \in HeldBy(maps, call, f) : u = s \/ ForkOf(call, u, s)
  BY <1>2, <1>3 DEF IInv, Owned, OwnedAt
<1>5. CASE t \in Touched(c, X)
  <2>1. PICK u \in Touched(c, X) : u \in HeldBy(maps, call, f) BY <1>5
  <2>2. ForkOf(call, u, s) BY <2>1, <1>4
  <2>3. u[2] = c BY <2>1, <2>2 DEF Touched, ForkOf
  <2>4. Has(call[c], "new", f) BY <2>1, <2>2, <2>3 DEF HeldBy, Held, ForkOf
  <2>5. call[c].m \in X BY <2>4 DEF Has, Acts, Alone, KeptOff
  <2> QED BY <1>1, <2>2, <2>3, <2>5 DEF ForkOf, Touched
<1>6. CASE t \notin Touched(c, X)
  <2>1. ForkOf(call, t, s) BY <1>1, <1>4, <1>6, ActsHolders
  <2>2. t[2] \in Cpus \ {c} BY <1>1, <1>6, <2>1 DEF ForkOf, Touched, Slots, Kinds
  <2>3. call'[t[2]] = call[t[2]] BY <2>2, ActsCalls
  <2> QED BY <2>1, <2>3 DEF ForkOf
<1> QED BY <1>5, <1>6

(* A frame whose holders do not change, none of them coming to expect to be *)
(* alone.                                                                   *)
LEMMA OwnedSame ==
    ASSUME IInv, NEW c \in Cpus, NEW k \in CallType, NEW X, Acts(c, k, X), NEW f \in Frames,
           HeldBy(maps', call', f) = HeldBy(maps, call, f), ~Has(k, "new", f),
           \A x \in Mappings : <<"entry", x>> \in HeldBy(maps, call, f) =>
              ~Sole(k, x) /\ (x \in writable' => x \in writable)
    PROVE  OwnedAt(maps', call', writable', f)
<1> SUFFICES ASSUME NEW s \in HeldBy(maps, call, f),
                    NEW t \in HeldBy(maps, call, f), Keeps(call', writable', s), s # t
             PROVE  ForkOf(call', t, s)
  BY DEF OwnedAt
<1>1. s \in Slots /\ t \in Slots BY DEF HeldBy
<1>2. call'[c] = k /\ \A d \in Cpus \ {c} : call'[d] = call[d] BY ActsCalls
<1>3. "new" \in Kinds BY DEF Kinds
<1>4. <<"new", c>> \notin HeldBy(maps, call, f) BY <1>3, ActsHolders
<1>5. \A u \in HeldBy(maps, call, f) : u[1] = "new" => u[2] \in Cpus \ {c}
  <2> SUFFICES ASSUME NEW u \in HeldBy(maps, call, f), u[1] = "new" PROVE u[2] \in Cpus \ {c}
    OBVIOUS
  <2>1. u \in Kinds \X Cpus BY DEF HeldBy, Slots
  <2>2. u = <<u[1], u[2]>> BY <2>1
  <2> QED BY <1>4, <2>1, <2>2
<1>6. Keeps(call, writable, s)
  <2>1. CASE s \in {"entry"} \X Mappings
    <3>0. s = <<"entry", s[2]>> /\ s[2] \in Mappings BY <2>1
    <3>1. (\E d \in Cpus : Sole(call'[d], s[2])) => \E d \in Cpus : Sole(call[d], s[2])
      BY <1>2, <3>0
    <3>2. s[2] \in writable' => s[2] \in writable BY <3>0
    <3> QED BY <2>1, <3>1, <3>2 DEF Keeps
  <2>2. CASE s \in Kinds \X Cpus BY <2>2, <1>2, <1>5 DEF Keeps, Kinds
  <2> QED BY <1>1, <2>1, <2>2 DEF Slots
<1>7. ForkOf(call, t, s) BY <1>6 DEF IInv, Owned, OwnedAt
<1> QED BY <1>2, <1>5, <1>7 DEF ForkOf

(* The parts of the invariant, put together again after a step.             *)
LEMMA Assemble ==
    ASSUME IInv, NEW c \in Cpus, NEW k \in CallType, NEW X, Acts(c, k, X),
           Fits(k, maps'),
           maps' \in [Mappings -> Frames \union {NoFrame}], writable' \subseteq Mappings,
           k.st # "idle" /\ k.op \in {"cow", "free"} => k.m \notin writable',
           \A x \in X : x \in writable' => maps'[x] \in Frames,
           pool' \in Pool, PoolConsistent',
           \A f \in Frames : /\ pool'.refs[f] = Cardinality(HeldBy(maps', call', f))
                             /\ OwnedAt(maps', call', writable', f)
    PROVE  IInv'
<1>1. /\ call'[c] = k /\ \A d \in Cpus \ {c} : call'[d] = call[d]
      /\ call' \in [Cpus -> CallType]
      /\ OneCall'
      /\ \A d \in Cpus \ {c} :
           /\ Fits(call'[d], maps')
           /\ call'[d].st # "idle" => call'[d].m \in Mappings /\ call'[d].n \in Mappings
  BY ActsCalls
<1>2. TypeOK' BY <1>1 DEF TypeOK, CallType
<1>3. CallsFit'
  <2>1. k.st # "idle" => k.m \in Mappings /\ k.n \in Mappings BY DEF Acts, Alone, KeptOff
  <2> QED BY <1>1, <2>1 DEF CallsFit
<1>4. BreaksReadOnly'
  <2> SUFFICES ASSUME NEW d \in Cpus, call'[d].st # "idle", call'[d].op \in {"cow", "free"}
               PROVE  call'[d].m \notin writable'
    BY DEF BreaksReadOnly
  <2>1. CASE d = c BY <1>1, <2>1
  <2>2. CASE d # c
    <3>1. call'[d] = call[d] BY <1>1, <2>2
    <3>2. call[d].m \in Mappings \ X BY <3>1, <2>2 DEF Acts, Alone, KeptOff, IInv, CallsFit
    <3>3. call[d].m \notin writable BY <3>1 DEF IInv, BreaksReadOnly
    <3> QED BY <3>1, <3>2, <3>3 DEF Acts, Alone, KeptOff
  <2> QED BY <2>1, <2>2
<1>5. WritableMapped'
  <2> SUFFICES ASSUME NEW x \in writable' PROVE maps'[x] \in Frames BY DEF WritableMapped
  <2>1. CASE x \in X BY <2>1
  <2>2. CASE x \notin X
    <3>1. x \in Mappings \ X BY <2>2
    <3> QED BY <3>1 DEF Acts, Alone, KeptOff, IInv, WritableMapped
  <2> QED BY <2>1, <2>2
<1>6. RefsAreHolders' /\ Owned' BY HoldersAreNext DEF RefsAreHolders, Owned
<1> QED BY <1>1, <1>2, <1>3, <1>4, <1>5, <1>6 DEF IInv

(* A step of a call that moves no reference.                                *)
LEMMA QuietStep ==
    ASSUME IInv, NEW c \in Cpus, NEW k \in CallType, NEW X, Acts(c, k, X),
           UNCHANGED <<pool, maps, writable>>, Fits(k, maps),
           k.st # "idle" /\ k.op \in {"cow", "free"} => k.m \notin writable,
           ~Freed(call[c]), ~Freed(k), \A x \in Mappings : ~Sole(k, x),
           \A f \in Frames : /\ ~Has(k, "new", f)
                             /\ \A kind \in Kinds : Has(k, kind, f) <=> Has(call[c], kind, f)
    PROVE  IInv'
<1>1. ASSUME NEW f \in Frames PROVE HeldBy(maps', call', f) = HeldBy(maps, call, f)
  <2>1. HeldBy(maps, call, f) \in SUBSET Slots BY DEF HeldBy
  <2>0. \A x \in X : <<"entry", x>> \in HeldBy(maps, call, f) <=>
                       maps[x] = f /\ ~(call[c].m = x /\ Freed(call[c]))
    BY Zenon, ActsHolders
  <2>2. \A x \in X : <<"entry", x>> \in HeldBy(maps, call, f)
                         <=> maps'[x] = f /\ ~(k.m = x /\ Freed(k))
    BY Zenon, <2>0
  <2>3. \A kind \in Kinds : <<kind, c>> \in HeldBy(maps, call, f) <=> Has(k, kind, f)
    BY ActsHolders
  <2>4. Becomes(c, k, X, f, HeldBy(maps, call, f)) BY <2>1, <2>2, <2>3 DEF Becomes
  <2> QED BY <2>4, HoldersBecome
<1>2. \A f \in Frames : OwnedAt(maps', call', writable', f) BY <1>1, OwnedSame
<1>3. \A f \in Frames : pool'.refs[f] = Cardinality(HeldBy(maps', call', f))
  BY <1>1, HoldersAre DEF IInv, RefsAreHolders
<1>4. pool' \in Pool /\ PoolConsistent' BY Zenon DEF IInv, TypeOK, PoolConsistent
<1>5. \A x \in X : x \in writable' => maps'[x] \in Frames BY DEF IInv, WritableMapped
<1>6. maps' \in [Mappings -> Frames \union {NoFrame}] /\ writable' \subseteq Mappings
  BY DEF IInv, TypeOK
<1>7. Fits(k, maps') /\ (k.st # "idle" /\ k.op \in {"cow", "free"} => k.m \notin writable')
  OBVIOUS
<1> QED BY <1>2, <1>3, <1>4, <1>5, <1>6, <1>7, Assemble

----------------------------------------------------------------------------
(* Starting a call.                                                         *)

LEMMA FramesAreNat ==
    Frames \subseteq Nat /\ NoFrame \notin Frames /\ 0 \notin Frames /\ 1 \notin Frames
BY PoolAssumption DEF Frames, NoFrame

(* A call on mappings that are in no other call.                            *)
LEMMA ReadyActs ==
    ASSUME IInv, NEW c \in Cpus, NEW m \in Mappings, NEW n \in Mappings, NEW op \in Ops,
           NEW arg \in Nat, Ready(c, m), Ready(c, n),
           NEW k, k = Called(op, m, n, arg), Start(c, k),
           KeptOff({m, n})
    PROVE  /\ k \in CallType /\ Acts(c, k, {m, n})
           /\ call[c] = Idle /\ ~Freed(call[c]) /\ ~Freed(k)
           /\ \A x \in Mappings : ~Sole(k, x)
           /\ \A f \in Frames : /\ \A kind \in Kinds : ~Has(call[c], kind, f)
                                /\ Has(k, "free", f) <=> op = "free" /\ arg = f
                                /\ ~Has(k, "new", f) /\ ~Has(k, "copy", f)
<1>1. call[c] = Idle BY DEF Ready, IInv, CallsFit, Fits
<1>2. k \in CallType BY DEF Called, CallType, NoFrame
<1>3. Acts(c, k, {m, n})
  BY DEF Acts, Alone, KeptOff, Ready, Busy, Start, Called
<1> QED BY <1>1, <1>2, <1>3, FramesAreNat DEF Freed, Has, Idle, Called, Sole, NoFrame

(* alloc, alloc_on, alloc_contig, and the start of a share or of a          *)
(* copy-on-write break, move no reference.                                  *)
LEMMA StartQuiet ==
    ASSUME IInv, NEW c \in Cpus, NEW m \in Mappings, NEW n \in Mappings, NEW op \in Ops \ {"free"},
           NEW arg \in Nat, Ready(c, m), Ready(c, n), Start(c, Called(op, m, n, arg)),
           UNCHANGED <<pool, maps, writable>>, Fits(Called(op, m, n, arg), maps),
           op = "cow" => m \notin writable
    PROVE  IInv'
<1>0. PICK k : k = Called(op, m, n, arg) OBVIOUS
<1>1. /\ k \in CallType /\ Acts(c, k, {m, n})
      /\ call[c] = Idle /\ ~Freed(call[c]) /\ ~Freed(k)
      /\ \A x \in Mappings : ~Sole(k, x)
      /\ \A f \in Frames : /\ \A kind \in Kinds : ~Has(call[c], kind, f)
                           /\ Has(k, "free", f) <=> op = "free" /\ arg = f
                           /\ ~Has(k, "new", f) /\ ~Has(k, "copy", f)
  <2>1. KeptOff({m, n}) BY DEF KeptOff
  <2>2. op \in Ops /\ Start(c, k) BY <1>0
  <2> QED BY <1>0, <2>1, <2>2, ReadyActs
<1>2. \A f \in Frames : /\ ~Has(k, "new", f)
                        /\ \A kind \in Kinds : Has(k, kind, f) <=> Has(call[c], kind, f)
  BY <1>1 DEF Kinds
<1>3. k.st # "idle" /\ k.op \in {"cow", "free"} => k.m \notin writable BY <1>0 DEF Called
<1>4. Fits(k, maps) BY <1>0
<1> QED BY <1>1, <1>2, <1>3, <1>4, QuietStep

LEMMA StartCalls ==
    ASSUME IInv, NEW c \in Cpus, NEW m \in Mappings, UNCHANGED pool,
           \/ alloc(c, m) \/ cow_fault(c, m)
           \/ \E node \in Nodes : alloc_on(c, m, node)
           \/ \E n \in Mappings : alloc_contig(c, m, n) \/ fork_leaf(c, m, n)
    PROVE  IInv'
<1>1. CASE alloc(c, m)
  <2>1. Fits(Called("alloc", m, m, 0), maps) BY <1>1 DEF alloc, Fits, Called, NoFrame
  <2> QED BY <1>1, <2>1, StartQuiet DEF alloc, Ops
<1>2. CASE cow_fault(c, m)
  <2>1. maps[m] \in Frames BY <1>2 DEF cow_fault, IInv, TypeOK
  <2>2. Fits(Called("cow", m, m, maps[m]), maps) BY <2>1 DEF Fits, Called, NoFrame
  <2> QED BY Zenon, <1>2, <2>1, <2>2, FramesAreNat, StartQuiet DEF cow_fault, Ops
<1>3. ASSUME NEW node \in Nodes, alloc_on(c, m, node) PROVE IInv'
  <2>1. Fits(Called("alloc_on", m, m, node), maps) BY <1>3 DEF alloc_on, Fits, Called, NoFrame
  <2>2. node \in Nat BY PoolAssumption DEF Nodes
  <2> QED BY <1>3, <2>1, <2>2, StartQuiet DEF alloc_on, Ops
<1>4. ASSUME NEW n \in Mappings, alloc_contig(c, m, n) PROVE IInv'
  <2>1. Fits(Called("contig", m, n, 0), maps) BY <1>4 DEF alloc_contig, Fits, Called, NoFrame
  <2> QED BY <1>4, <2>1, StartQuiet DEF alloc_contig, Ops
<1>5. ASSUME NEW n \in Mappings, fork_leaf(c, m, n) PROVE IInv'
  <2>1. maps[m] \in Frames BY <1>5 DEF fork_leaf, IInv, TypeOK
  <2>2. Fits(Called("share", m, n, maps[m]), maps)
    BY <2>1, <1>5 DEF fork_leaf, Fits, Called, NoFrame
  <2>3. maps[m] \in Nat /\ "share" \in Ops \ {"free"} BY Zenon, <2>1, FramesAreNat DEF Ops
  <2>4. Ready(c, m) /\ Ready(c, n) /\ Start(c, Called("share", m, n, maps[m]))
    BY <1>5 DEF fork_leaf
  <2>5. UNCHANGED <<pool, maps, writable>> BY <1>5 DEF fork_leaf
  <2> QED BY <2>2, <2>3, <2>4, <2>5, StartQuiet
<1> QED BY <1>1, <1>2, <1>3, <1>4, <1>5

(* A call in progress keeps its mappings.                                   *)
LEMMA SameActs ==
    ASSUME IInv, NEW c \in Cpus, NEW k, call[c].st # "idle", call' = [call EXCEPT ![c] = k],
           k = Idle \/ (k.m = call[c].m /\ k.n = call[c].n),
           NEW Y \in SUBSET {call[c].m, call[c].n},
           KeptOff(Y)
    PROVE  Acts(c, k, {call[c].m, call[c].n})
<1>1. call[c].m \in Mappings /\ call[c].n \in Mappings BY DEF IInv, CallsFit
<1>2. \A d \in Cpus \ {c} : call[d].st # "idle" =>
          call[d].m \notin {call[c].m, call[c].n} /\ call[d].n \notin {call[c].m, call[c].n}
  BY Zenon DEF IInv, OneCall
<1>3. k.st # "idle" => k.m \in {call[c].m, call[c].n} /\ k.n \in {call[c].m, call[c].n}
  BY DEF Idle
<1> QED BY <1>1, <1>2, <1>3 DEF Acts, Alone, KeptOff

(* What a call in progress is known to satisfy.                             *)
LEMMA Fitting ==
    ASSUME IInv, NEW c \in Cpus, call[c].st # "idle"
    PROVE  /\ Fits(call[c], maps) /\ call[c] # Idle /\ call[c] \in CallType
           /\ call[c].m \in Mappings /\ call[c].n \in Mappings
BY DEF IInv, CallsFit, Idle, TypeOK, CallType

(* The second call of a copy-on-write break, and of a fork at the ceiling.  *)
LEMMA SecondCalls ==
    ASSUME IInv, NEW c \in Cpus, cow_free(c) \/ fork_copy(c), UNCHANGED pool
    PROVE  IInv'
<1>0. call[c] \in CallType BY DEF IInv, TypeOK, CallType
<1>1. CASE cow_free(c)
  <2> DEFINE k == Moved(call[c], "called", "free", call[c].res, call[c].dst)
  <2>1. /\ call[c].st = "copying" /\ call[c].op = "cow" /\ call[c].m = call[c].n
        /\ call[c].arg \in Frames /\ maps[call[c].m] = call[c].arg
        /\ call[c].res \in Frames /\ call[c].dst = call[c].res
    <3>1. call[c].st = "copying" /\ call[c].op = "cow" BY <1>1 DEF cow_free
    <3>2. Fits(call[c], maps) /\ call[c] # Idle BY <3>1, Fitting
    <3> QED BY <3>1, <3>2 DEF Fits
  <2>2. k \in CallType BY <1>0 DEF Moved, CallType, Ops
  <2>3. Acts(c, k, {call[c].m, call[c].n})
    BY Zenon, <1>1, SameActs DEF cow_free, Start, Moved, KeptOff
  <2>4. Fits(k, maps) BY Zenon, <2>1, FramesAreNat DEF Fits, Moved
  <2>5. call[c].m \notin writable BY <2>1 DEF IInv, BreaksReadOnly
  <2>6. ~Freed(call[c]) /\ ~Freed(k) /\ \A x \in Mappings : ~Sole(k, x)
    BY Zenon, <2>1 DEF Freed, Sole, Moved
  <2>7. \A f \in Frames : /\ ~Has(k, "new", f)
                          /\ \A kind \in Kinds : Has(k, kind, f) <=> Has(call[c], kind, f)
    BY Zenon, <2>1, FramesAreNat DEF Has, Kinds, Moved
  <2>8. k.st # "idle" /\ k.op \in {"cow", "free"} => k.m \notin writable BY <2>5 DEF Moved
  <2> HIDE DEF k
  <2> QED BY <1>1, <2>2, <2>3, <2>4, <2>6, <2>7, <2>8, QuietStep DEF cow_free
<1>2. CASE fork_copy(c)
  <2> DEFINE k == Moved(call[c], "called", "alloc", 0, NoFrame)
  <2>1. /\ call[c].st = "copying" /\ call[c].op = "share" /\ maps[call[c].n] = NoFrame
        /\ call[c].dst = NoFrame
    <3>1. call[c].st = "copying" /\ call[c].op = "share" BY <1>2 DEF fork_copy
    <3>2. Fits(call[c], maps) /\ call[c] # Idle BY <3>1, Fitting
    <3> QED BY <3>1, <3>2 DEF Fits
  <2>2. k \in CallType BY Zenon, <1>0 DEF Moved, CallType, Ops
  <2>3. Acts(c, k, {call[c].m, call[c].n})
    BY Zenon, <1>2, SameActs DEF fork_copy, Start, Moved, KeptOff
  <2>4. Fits(k, maps) BY Zenon, <2>1 DEF Fits, Moved
  <2>6. ~Freed(call[c]) /\ ~Freed(k) /\ \A x \in Mappings : ~Sole(k, x)
    BY Zenon, <2>1 DEF Freed, Sole, Moved
  <2>7. \A f \in Frames : /\ ~Has(k, "new", f)
                          /\ \A kind \in Kinds : Has(k, kind, f) <=> Has(call[c], kind, f)
    BY Zenon, <2>1, FramesAreNat DEF Has, Kinds, Moved
  <2>8. k.st # "idle" /\ k.op \in {"cow", "free"} => k.m \notin writable BY DEF Moved
  <2> HIDE DEF k
  <2> QED BY Zenon, <1>2, <2>2, <2>3, <2>4, <2>6, <2>7, <2>8, QuietStep DEF fork_copy
<1> QED BY <1>1, <1>2

----------------------------------------------------------------------------
(* A reference changes hands.                                               *)

LEMMA SwapCard ==
    ASSUME NEW A, IsFiniteSet(A), NEW x \in A, NEW y, y \notin A
    PROVE  Cardinality((A \ {x}) \union {y}) = Cardinality(A)
<1>1. IsFiniteSet(A \ {x}) /\ Cardinality(A \ {x}) = Cardinality(A) - 1 BY FS_RemoveElement
<1>2. Cardinality((A \ {x}) \union {y}) = Cardinality(A \ {x}) + 1 BY <1>1, FS_AddElement
<1>3. Cardinality(A) \in Nat BY FS_CardinalityType
<1> QED BY <1>1, <1>2, <1>3

LEMMA CountsHeld ==
    ASSUME IInv, NEW f \in Frames
    PROVE  /\ pool.refs[f] = Cardinality(HeldBy(maps, call, f))
           /\ IsFiniteSet(HeldBy(maps, call, f)) /\ HeldBy(maps, call, f) \subseteq Slots
BY HoldersAre, FiniteHolders DEF IInv, RefsAreHolders, HeldBy

LEMMA SlotsAre ==
    ASSUME NEW c \in Cpus
    PROVE  /\ \A x \in Mappings : <<"entry", x>> \in Slots
           /\ \A kind \in Kinds : <<kind, c>> \in Slots
           /\ {"free", "copy", "new"} = Kinds
           /\ \A X : \A x \in Mappings : <<"entry", x>> \in Touched(c, X) <=> x \in X
           /\ \A X : \A kind \in Kinds : <<kind, c>> \in Touched(c, X)
BY DEF Slots, Kinds, Touched

(* A step that moves one reference to f from slot x to slot y.              *)
LEMMA SwapAt ==
    ASSUME IInv, NEW c \in Cpus, NEW k \in CallType, NEW X, Acts(c, k, X), NEW f \in Frames,
           NEW x \in Touched(c, X), x \in HeldBy(maps, call, f),
           NEW y \in Touched(c, X), y \notin HeldBy(maps, call, f),
           NEW B, B = (HeldBy(maps, call, f) \ {x}) \union {y}, Becomes(c, k, X, f, B),
           \A t \in B \cap Touched(c, X) : Keeps(call', writable', t) => B \subseteq {t}
    PROVE  /\ pool.refs[f] = Cardinality(HeldBy(maps', call', f))
           /\ OwnedAt(maps', call', writable', f)
<1>1. HeldBy(maps', call', f) = B BY HoldersBecome
<1>2. Cardinality(B) = Cardinality(HeldBy(maps, call, f)) BY CountsHeld, SwapCard
<1>3. OwnedAt(maps', call', writable', f) BY <1>1, OwnedTouched
<1> QED BY <1>1, <1>2, <1>3, CountsHeld

(* A frame the step does not move references to or from.                    *)
LEMMA SameAt ==
    ASSUME IInv, NEW c \in Cpus, NEW k \in CallType, NEW X, Acts(c, k, X), NEW f \in Frames,
           Becomes(c, k, X, f, HeldBy(maps, call, f)), ~Has(k, "new", f),
           \A x \in X : <<"entry", x>> \in HeldBy(maps, call, f) =>
              ~Sole(k, x) /\ (x \in writable' => x \in writable)
    PROVE  /\ pool.refs[f] = Cardinality(HeldBy(maps', call', f))
           /\ HeldBy(maps', call', f) = HeldBy(maps, call, f)
           /\ OwnedAt(maps', call', writable', f)
<1>1. HeldBy(maps', call', f) = HeldBy(maps, call, f) BY HoldersBecome
<1>2. \A x \in Mappings \ X : ~Sole(k, x) /\ (x \in writable' => x \in writable)
  BY DEF Acts, Alone, KeptOff, Sole
<1>3. OwnedAt(maps', call', writable', f) BY <1>1, <1>2, OwnedSame
<1> QED BY <1>1, <1>3, CountsHeld

(* unmap: the entry's reference becomes the one the call is to free.        *)
LEMMA UnmapStep ==
    ASSUME IInv, NEW c \in Cpus, NEW m \in Mappings, unmap(c, m), UNCHANGED pool
    PROVE  IInv'
<1>0. PICK k : k = Called("free", m, m, maps[m]) OBVIOUS
<1>1. maps[m] \in Frames /\ maps[m] \in Nat
  BY Zenon, FramesAreNat DEF unmap, IInv, TypeOK
<1>2. KeptOff({m, m}) BY DEF KeptOff, unmap, IInv, TypeOK
<1>3. Ready(c, m) /\ Start(c, k) /\ "free" \in Ops BY <1>0 DEF unmap, Ops
<1>4. /\ k \in CallType /\ Acts(c, k, {m, m})
      /\ call[c] = Idle /\ ~Freed(call[c]) /\ ~Freed(k)
      /\ \A x \in Mappings : ~Sole(k, x)
      /\ \A f \in Frames : /\ \A kind \in Kinds : ~Has(call[c], kind, f)
                           /\ Has(k, "free", f) <=> "free" = "free" /\ maps[m] = f
                           /\ ~Has(k, "new", f) /\ ~Has(k, "copy", f)
  BY <1>0, <1>1, <1>2, <1>3, ReadyActs
<1> DEFINE X == {m, m}
<1>5. maps'[m] = NoFrame /\ writable' = writable \ {m}
      /\ maps' \in [Mappings -> Frames \union {NoFrame}]
  BY DEF unmap, IInv, TypeOK
<1>6. ASSUME NEW f \in Frames
      PROVE  /\ pool.refs[f] = Cardinality(HeldBy(maps', call', f))
             /\ OwnedAt(maps', call', writable', f)
  <2>0. PICK H : H = HeldBy(maps, call, f) OBVIOUS
  <2>1. /\ H \subseteq Slots
        /\ \A x \in X : <<"entry", x>> \in H <=> maps[x] = f
        /\ \A kind \in Kinds : <<kind, c>> \notin H
    BY SMTT(20), <1>4, <2>0, ActsHolders, CountsHeld
  <2>2. CASE f = maps[m]
    <3>0. PICK B : B = (H \ {<<"entry", m>>}) \union {<<"free", c>>} BY Zenon
    <3>1. /\ <<"entry", m>> \in Touched(c, X) /\ <<"free", c>> \in Touched(c, X)
          /\ <<"entry", m>> \in H /\ <<"free", c>> \notin H
      BY <2>1, <2>2, SlotsAre
    <3>2. <<"entry", m>> \notin B /\ \A kind \in Kinds : <<kind, c>> \in B <=> kind = "free"
      BY <3>0, <2>1
    <3>3. Becomes(c, k, X, f, B)
      <4>1. B \in SUBSET Slots BY <2>1, <3>0, SlotsAre
      <4>2. \A s \in Slots \ Touched(c, X) : s \in B <=> s \in H BY <3>0, <3>1
      <4>3. \A x \in X : <<"entry", x>> \in B <=> maps'[x] = f /\ ~(k.m = x /\ Freed(k))
        BY <1>5, <3>2, FramesAreNat
      <4>4. \A kind \in Kinds : <<kind, c>> \in B <=> Has(k, kind, f)
        BY <1>4, <3>2, <2>2 DEF Kinds
      <4> QED BY Zenon, <2>0, <4>1, <4>2, <4>3, <4>4 DEF Becomes
    <3>4. \A t \in B \cap Touched(c, X) : ~Keeps(call', writable', t)
      BY <3>2, TouchedIs DEF Keeps
    <3> QED BY Zenon, <1>4, <2>0, <3>0, <3>1, <3>3, <3>4, SwapAt
  <2>3. CASE f # maps[m]
    <3>1. \A x \in X : <<"entry", x>> \in H <=> maps'[x] = f /\ ~(k.m = x /\ Freed(k))
      BY <1>5, <2>1, <2>3, FramesAreNat
    <3>2. \A kind \in Kinds : <<kind, c>> \in H <=> Has(k, kind, f)
      BY <1>4, <2>1, <2>3 DEF Kinds
    <3>3. Becomes(c, k, X, f, H) BY <2>0, <2>1, <3>1, <3>2 DEF Becomes
    <3>4. \A x \in X : <<"entry", x>> \in HeldBy(maps, call, f) =>
             ~Sole(k, x) /\ (x \in writable' => x \in writable)
      BY <1>4, <1>5
    <3>5. /\ Becomes(c, k, X, f, HeldBy(maps, call, f)) /\ ~Has(k, "new", f)
          /\ k \in CallType /\ Acts(c, k, X)
      BY <1>4, <2>0, <3>3
    <3> HIDE DEF X
    <3> QED BY <3>4, <3>5, SameAt
  <2> QED BY <2>2, <2>3
<1>7. pool' \in Pool /\ PoolConsistent' BY Zenon DEF IInv, TypeOK, PoolConsistent
<1>8. Fits(k, maps') /\ (k.st # "idle" /\ k.op \in {"cow", "free"} => k.m \notin writable')
  BY <1>0, <1>1, <1>5 DEF Fits, Called, NoFrame
<1>9. writable' \subseteq Mappings /\ \A x \in X : x \in writable' => maps'[x] \in Frames
  BY <1>5 DEF IInv, TypeOK
<1> HIDE DEF X
<1> QED BY SMTT(20), <1>4, <1>5, <1>6, <1>7, <1>8, <1>9, Assemble DEF X

----------------------------------------------------------------------------
(* The return of a call.                                                    *)

(* A frame fresh from the pool has one holder, the call that was given it.  *)
LEMMA FreshAlone ==
    ASSUME IInv, NEW c \in Cpus, NEW f \in Frames, NEW x \in HeldBy(maps, call, f),
           x = <<"copy", c>> \/ (x = <<"new", c>> /\ call[c].op # "share")
    PROVE  HeldBy(maps, call, f) = {x}
<1>1. Keeps(call, writable, x) BY DEF Keeps
<1>2. \A t \in HeldBy(maps, call, f) : t = x BY <1>1 DEF IInv, Owned, OwnedAt, ForkOf
<1> QED BY <1>2

(* The only holder x of f passes its reference to slot y.                   *)
PassedTo(c, k, X, f, y) ==
    /\ \A z \in X : <<"entry", z>> = y <=> maps'[z] = f /\ ~(k.m = z /\ Freed(k))
    /\ \A kind \in Kinds : <<kind, c>> = y <=> Has(k, kind, f)

LEMMA HandOver ==
    ASSUME IInv, NEW c \in Cpus, NEW k \in CallType, NEW X, Acts(c, k, X), NEW f \in Frames,
           NEW x \in Touched(c, X), HeldBy(maps, call, f) = {x},
           NEW y \in Touched(c, X), y # x, PassedTo(c, k, X, f, y)
    PROVE  /\ pool.refs[f] = Cardinality(HeldBy(maps', call', f))
           /\ OwnedAt(maps', call', writable', f)
<1>1. PICK B : B = {y} BY Zenon
<1>2. Becomes(c, k, X, f, B) BY <1>1 DEF Becomes, Touched, PassedTo
<1>3. B = (HeldBy(maps, call, f) \ {x}) \union {y} BY <1>1
<1>4. x \in HeldBy(maps, call, f) /\ y \notin HeldBy(maps, call, f) OBVIOUS
<1>5. \A t \in B \cap Touched(c, X) : Keeps(call', writable', t) => B \subseteq {t} BY <1>1
<1> QED BY <1>2, <1>3, <1>4, <1>5, SwapAt

(* What is known when a call returns and its CPU is idle again.             *)
LEMMA ReturnActs ==
    ASSUME IInv, NEW c \in Cpus, call[c].st = "done", call' = [call EXCEPT ![c] = Idle],
           KeptOff({call[c].m, call[c].n})
    PROVE  /\ Idle \in CallType /\ Acts(c, Idle, {call[c].m, call[c].n})
           /\ call[c] \in CallType /\ call[c].m \in Mappings /\ call[c].n \in Mappings
           /\ ~Freed(Idle) /\ \A x \in Mappings : ~Sole(Idle, x)
           /\ \A f \in Frames : \A kind \in Kinds : ~Has(Idle, kind, f)
<1>1. Idle \in CallType BY DEF Idle, CallType, Ops, NoFrame
<1>2. Acts(c, Idle, {call[c].m, call[c].n}) BY Zenon, SameActs
<1>3. call[c] \in CallType /\ call[c].m \in Mappings /\ call[c].n \in Mappings
  BY DEF IInv, TypeOK, CallType, CallsFit
<1> QED BY <1>1, <1>2, <1>3 DEF Freed, Idle, Sole, Has, NoFrame

LEMMA ReturnAssemble ==
    ASSUME IInv, NEW c \in Cpus, call[c].st = "done", call' = [call EXCEPT ![c] = Idle],
           KeptOff({call[c].m, call[c].n}), UNCHANGED pool,
           maps' \in [Mappings -> Frames \union {NoFrame}], writable' \subseteq Mappings,
           \A x \in {call[c].m, call[c].n} : x \in writable' => maps'[x] \in Frames,
           \A f \in Frames : /\ pool.refs[f] = Cardinality(HeldBy(maps', call', f))
                             /\ OwnedAt(maps', call', writable', f)
    PROVE  IInv'
<1>1. Idle \in CallType /\ Acts(c, Idle, {call[c].m, call[c].n}) BY Zenon, ReturnActs
<1>2. Fits(Idle, maps') /\ ~(Idle.st # "idle") BY Zenon DEF Fits, Idle
<1>3. pool' \in Pool /\ PoolConsistent' BY Zenon DEF IInv, TypeOK, PoolConsistent
<1> QED BY Zenon, <1>1, <1>2, <1>3, Assemble

(* A frame that neither the returning call nor its entries move.            *)
LEMMA ReturnSame ==
    ASSUME IInv, NEW c \in Cpus, call[c].st = "done", call' = [call EXCEPT ![c] = Idle],
           KeptOff({call[c].m, call[c].n}), NEW f \in Frames,
           \A kind \in Kinds : ~Has(call[c], kind, f),
           \A x \in {call[c].m, call[c].n} :
              /\ maps'[x] = f <=> maps[x] = f /\ ~(call[c].m = x /\ Freed(call[c]))
              /\ maps'[x] = f => (x \in writable' => x \in writable)
    PROVE  /\ pool.refs[f] = Cardinality(HeldBy(maps', call', f))
           /\ OwnedAt(maps', call', writable', f)
<1>0. PICK X : X = {call[c].m, call[c].n} OBVIOUS
<1>1. /\ Idle \in CallType /\ Acts(c, Idle, X)
      /\ ~Freed(Idle) /\ (\A x \in Mappings : ~Sole(Idle, x)) /\ X \subseteq Mappings
      /\ \A kind \in Kinds : ~Has(Idle, kind, f)
  BY Zenon, <1>0, ReturnActs
<1>2. PICK H : H = HeldBy(maps, call, f) OBVIOUS
<1>3. H \subseteq Slots BY <1>2, CountsHeld
<1>4. \A x \in X : <<"entry", x>> \in H <=> maps[x] = f /\ ~(call[c].m = x /\ Freed(call[c]))
  <2>1. Alone(c, X) /\ X \in SUBSET Mappings BY <1>1 DEF Acts
  <2>2. \A x \in X : <<"entry", x>> \in HeldBy(maps, call, f) <=>
                       maps[x] = f /\ ~(call[c].m = x /\ Freed(call[c]))
    BY Zenon, <2>1, EntriesBefore
  <2> QED BY Zenon, <1>2, <2>2
<1>5. \A kind \in Kinds : <<kind, c>> \in H <=> Has(call[c], kind, f)
  BY <1>2, OwnSlots
<1>6. \A x \in X : <<"entry", x>> \in H <=> maps'[x] = f BY <1>0, <1>4
<1>7. Becomes(c, Idle, X, f, HeldBy(maps, call, f))
  BY <1>1, <1>2, <1>3, <1>5, <1>6 DEF Becomes
<1>8. \A x \in X : <<"entry", x>> \in HeldBy(maps, call, f) =>
         ~Sole(Idle, x) /\ (x \in writable' => x \in writable)
  BY <1>0, <1>1, <1>2, <1>6
<1>9. ~Has(Idle, "new", f) BY <1>1 DEF Kinds
<1> QED BY Zenon, <1>1, <1>7, <1>8, <1>9, SameAt

(* alloc and alloc_on: the frame, if there was one, goes to entry n.        *)
LEMMA ReturnAlloc ==
    ASSUME IInv, NEW c \in Cpus, call[c].st = "done", call[c].op \in {"alloc", "alloc_on"},
           call' = [call EXCEPT ![c] = Idle], maps' = [maps EXCEPT ![call[c].n] = call[c].res],
           \/ writable' = writable \ {call[c].m, call[c].n}
           \/ writable' = writable /\ call[c].res = NoFrame
           \/ writable' = writable \union {call[c].n} /\ call[c].res # NoFrame,
           UNCHANGED pool
    PROVE  IInv'
<1>0. PICK X : X = {call[c].m, call[c].n} BY Zenon
<1>1. /\ maps[call[c].n] = NoFrame /\ call[c].dst = NoFrame
      /\ call[c].res \in Frames \union {NoFrame}
  <2>1. Fits(call[c], maps) /\ call[c] # Idle BY Fitting
  <2> QED BY <2>1 DEF Fits
<1>2. KeptOff(X) BY <1>0 DEF KeptOff, IInv, TypeOK
<1>3. /\ Idle \in CallType /\ Acts(c, Idle, X) /\ X \subseteq Mappings
      /\ call[c] \in CallType /\ call[c].m \in Mappings /\ call[c].n \in Mappings
      /\ ~Freed(Idle) /\ ~Freed(call[c])
      /\ \A f \in Frames : \A kind \in Kinds : ~Has(Idle, kind, f)
  BY Zenon, <1>0, <1>2, ReturnActs DEF Freed
<1>4. /\ maps' \in [Mappings -> Frames \union {NoFrame}] /\ writable' \subseteq Mappings
      /\ maps'[call[c].n] = call[c].res
      /\ \A x \in Mappings : x # call[c].n => maps'[x] = maps[x]
  BY <1>1, <1>3 DEF IInv, TypeOK
<1>5. \A x \in X : x \in writable' => maps'[x] \in Frames
  BY <1>0, <1>1, <1>3, <1>4, FramesAreNat DEF IInv, WritableMapped
<1>6. ASSUME NEW f \in Frames
      PROVE  /\ pool.refs[f] = Cardinality(HeldBy(maps', call', f))
             /\ OwnedAt(maps', call', writable', f)
  <2>1. CASE f = call[c].res
    <3>1. PICK x, y : x = <<"new", c>> /\ y = <<"entry", call[c].n>> BY Zenon
    <3>2. x \in Touched(c, X) /\ y \in Touched(c, X) /\ x # y /\ \A kind \in Kinds : <<kind, c>> # y
      BY Zenon, <1>0, <1>3, <3>1, SlotsAre DEF Kinds
    <3>3. x \in HeldBy(maps, call, f)
      <4>1. Has(call[c], "new", f) /\ "new" \in Kinds BY <2>1 DEF Has, Kinds
      <4> QED BY <3>1, <4>1, OwnSlots
    <3>4. HeldBy(maps, call, f) = {x} BY <3>1, <3>3, FreshAlone
    <3>5. \A z \in X : <<"entry", z>> \in HeldBy(maps, call, f) <=>
                         maps[z] = f /\ ~(call[c].m = z /\ Freed(call[c]))
      <4>1. Alone(c, X) /\ X \in SUBSET Mappings BY <1>3 DEF Acts
      <4> QED BY Zenon, <4>1, EntriesBefore
    <3>6. \A z \in X : maps[z] # f BY <1>3, <3>1, <3>4, <3>5
    <3>7. \A z \in X : <<"entry", z>> = y <=> maps'[z] = f /\ ~(Idle.m = z /\ Freed(Idle))
      BY <1>3, <1>4, <2>1, <3>1, <3>6
    <3>8. \A kind \in Kinds : <<kind, c>> = y <=> Has(Idle, kind, f) BY <1>3, <3>2
    <3>9. PassedTo(c, Idle, X, f, y) BY <3>7, <3>8 DEF PassedTo
    <3> QED BY Zenon, <1>3, <3>2, <3>4, <3>9, HandOver
  <2>2. CASE f # call[c].res
    <3>1. \A kind \in Kinds : ~Has(call[c], kind, f) BY <1>1, <2>2, FramesAreNat DEF Has, Kinds
    <3>2. \A x \in X : /\ maps'[x] = f <=> maps[x] = f /\ ~(call[c].m = x /\ Freed(call[c]))
                       /\ maps'[x] = f => (x \in writable' => x \in writable)
      BY <1>1, <1>3, <1>4, <2>2, FramesAreNat
    <3> QED BY Zenon, <1>0, <1>2, <3>1, <3>2, ReturnSame
  <2> QED BY <2>1, <2>2
<1> QED BY Zenon, <1>0, <1>2, <1>4, <1>5, <1>6, ReturnAssemble

(* alloc_contig: the two frames go to the two entries.                      *)
LEMMA ReturnContig ==
    ASSUME IInv, NEW c \in Cpus, call[c].st = "done", call[c].op = "contig",
           call[c].res # NoFrame, call' = [call EXCEPT ![c] = Idle],
           maps' = [maps EXCEPT ![call[c].m] = call[c].res, ![call[c].n] = call[c].res + 1],
           writable' = writable \union {call[c].m, call[c].n}, UNCHANGED pool
    PROVE  IInv'
<1>0. PICK X : X = {call[c].m, call[c].n} BY Zenon
<1>1. /\ call[c].m # call[c].n /\ maps[call[c].m] = NoFrame /\ maps[call[c].n] = NoFrame
      /\ call[c].dst = NoFrame /\ call[c].res \in Frames /\ call[c].res + 1 \in Frames
  <2>1. Fits(call[c], maps) /\ call[c] # Idle BY Fitting
  <2> QED BY <2>1 DEF Fits
<1>2. KeptOff(X) BY <1>0 DEF KeptOff, IInv, TypeOK
<1>3. /\ Idle \in CallType /\ Acts(c, Idle, X) /\ X \subseteq Mappings
      /\ call[c] \in CallType /\ call[c].m \in Mappings /\ call[c].n \in Mappings
      /\ ~Freed(Idle) /\ ~Freed(call[c])
      /\ \A f \in Frames : \A kind \in Kinds : ~Has(Idle, kind, f)
  BY Zenon, <1>0, <1>2, ReturnActs DEF Freed
<1>4. /\ maps' \in [Mappings -> Frames \union {NoFrame}] /\ writable' \subseteq Mappings
      /\ maps'[call[c].m] = call[c].res /\ maps'[call[c].n] = call[c].res + 1
  BY <1>1, <1>3 DEF IInv, TypeOK
<1>5. \A x \in X : x \in writable' => maps'[x] \in Frames BY <1>0, <1>1, <1>4
<1>6. ASSUME NEW f \in Frames
      PROVE  /\ pool.refs[f] = Cardinality(HeldBy(maps', call', f))
             /\ OwnedAt(maps', call', writable', f)
  <2>1. ASSUME NEW w \in X, maps'[w] = f
        PROVE  /\ pool.refs[f] = Cardinality(HeldBy(maps', call', f))
               /\ OwnedAt(maps', call', writable', f)
    <3>1. PICK x, y : x = <<"new", c>> /\ y = <<"entry", w>> BY Zenon
    <3>2. x \in Touched(c, X) /\ y \in Touched(c, X) /\ x # y /\ \A kind \in Kinds : <<kind, c>> # y
      BY Zenon, <1>0, <1>3, <3>1, SlotsAre DEF Kinds
    <3>3. x \in HeldBy(maps, call, f)
      <4>1. Has(call[c], "new", f) /\ "new" \in Kinds BY <1>0, <1>4, <2>1 DEF Has, Kinds
      <4> QED BY <3>1, <4>1, OwnSlots
    <3>4. HeldBy(maps, call, f) = {x} BY <3>1, <3>3, FreshAlone
    <3>5. call[c].res # call[c].res + 1
      <4>1. call[c].res \in Nat BY Zenon, <1>1, FramesAreNat
      <4>2. \A i \in Nat : i # i + 1 OBVIOUS
      <4> QED BY <4>1, <4>2
    <3>6. \A z \in X : maps'[z] = f <=> z = w BY <1>0, <1>4, <2>1, <3>5
    <3>7. \A z \in X : <<"entry", z>> = y <=> maps'[z] = f /\ ~(Idle.m = z /\ Freed(Idle))
      BY Zenon, <1>3, <3>1, <3>6
    <3>8. \A kind \in Kinds : <<kind, c>> = y <=> Has(Idle, kind, f) BY <1>3, <3>2
    <3>9. PassedTo(c, Idle, X, f, y) BY Zenon, <3>7, <3>8 DEF PassedTo
    <3> QED BY Zenon, <1>3, <3>2, <3>4, <3>9, HandOver
  <2>2. CASE \A w \in X : maps'[w] # f
    <3>1. \A kind \in Kinds : ~Has(call[c], kind, f)
      BY <1>0, <1>1, <1>4, <2>2, FramesAreNat DEF Has, Kinds
    <3>2. \A x \in X : /\ maps'[x] = f <=> maps[x] = f /\ ~(call[c].m = x /\ Freed(call[c]))
                       /\ maps'[x] = f => (x \in writable' => x \in writable)
      BY <1>0, <1>1, <2>2, FramesAreNat
    <3> QED BY Zenon, <1>0, <1>2, <3>1, <3>2, ReturnSame
  <2> QED BY Zenon, <2>1, <2>2
<1> QED BY Zenon, <1>0, <1>2, <1>4, <1>5, <1>6, ReturnAssemble

(* paging_cow_clear: the private frame the break copied into goes to the    *)
(* entry, whose old reference is already given back.                        *)
LEMMA ReturnBreak ==
    ASSUME IInv, NEW c \in Cpus, call[c].st = "done", call[c].op = "free",
           call[c].dst # NoFrame, call' = [call EXCEPT ![c] = Idle],
           maps' = [maps EXCEPT ![call[c].m] = call[c].dst],
           writable' = writable \union {call[c].m}, UNCHANGED pool
    PROVE  IInv'
<1>0. PICK X : X = {call[c].m, call[c].n} BY Zenon
<1>1. /\ call[c].m = call[c].n /\ maps[call[c].m] = call[c].arg
      /\ call[c].arg \in Frames /\ call[c].dst \in Frames
  <2>1. Fits(call[c], maps) /\ call[c] # Idle BY Fitting
  <2> QED BY <2>1 DEF Fits
<1>2. KeptOff(X) BY <1>0 DEF KeptOff, IInv, TypeOK
<1>3. /\ Idle \in CallType /\ Acts(c, Idle, X) /\ X \subseteq Mappings
      /\ call[c] \in CallType /\ call[c].m \in Mappings
      /\ ~Freed(Idle) /\ Freed(call[c])
      /\ \A f \in Frames : \A kind \in Kinds : ~Has(Idle, kind, f)
  BY Zenon, <1>0, <1>2, ReturnActs DEF Freed
<1>4. /\ maps' \in [Mappings -> Frames \union {NoFrame}] /\ writable' \subseteq Mappings
      /\ maps'[call[c].m] = call[c].dst
  BY <1>1, <1>3 DEF IInv, TypeOK
<1>5. \A x \in X : x \in writable' => maps'[x] \in Frames BY <1>0, <1>1, <1>4
<1>6. ASSUME NEW f \in Frames
      PROVE  /\ pool.refs[f] = Cardinality(HeldBy(maps', call', f))
             /\ OwnedAt(maps', call', writable', f)
  <2>1. CASE f = call[c].dst
    <3>1. PICK x, y : x = <<"copy", c>> /\ y = <<"entry", call[c].m>> BY Zenon
    <3>2. x \in Touched(c, X) /\ y \in Touched(c, X) /\ x # y /\ \A kind \in Kinds : <<kind, c>> # y
      <4>1. "copy" \in Kinds /\ "entry" \notin Kinds BY DEF Kinds
      <4>2. call[c].m \in X /\ call[c].m \in Mappings BY <1>0, <1>3
      <4> QED BY <3>1, <4>1, <4>2, SlotsAre
    <3>3. x \in HeldBy(maps, call, f)
      <4>1. Has(call[c], "copy", f) /\ "copy" \in Kinds BY <2>1 DEF Has, Kinds
      <4> QED BY <3>1, <4>1, OwnSlots
    <3>4. HeldBy(maps, call, f) = {x} BY <3>1, <3>3, FreshAlone
    <3>7. \A z \in X : <<"entry", z>> = y <=> maps'[z] = f /\ ~(Idle.m = z /\ Freed(Idle))
      BY <1>0, <1>1, <1>3, <1>4, <2>1, <3>1
    <3>8. \A kind \in Kinds : <<kind, c>> = y <=> Has(Idle, kind, f) BY <1>3, <3>2
    <3>9. PassedTo(c, Idle, X, f, y) BY <3>7, <3>8 DEF PassedTo
    <3> QED BY Zenon, <1>3, <3>2, <3>4, <3>9, HandOver
  <2>2. CASE f # call[c].dst
    <3>1. \A kind \in Kinds : ~Has(call[c], kind, f) BY <2>2, <1>1, FramesAreNat DEF Has, Kinds
    <3>2. \A x \in X : /\ maps'[x] = f <=> maps[x] = f /\ ~(call[c].m = x /\ Freed(call[c]))
                       /\ maps'[x] = f => (x \in writable' => x \in writable)
      BY <1>0, <1>1, <1>3, <1>4, <2>2
    <3> QED BY Zenon, <1>0, <1>2, <3>1, <3>2, ReturnSame
  <2> QED BY <2>1, <2>2
<1> QED BY Zenon, <1>0, <1>2, <1>4, <1>5, <1>6, ReturnAssemble

(* paging_cow_protect_user: the child's entry gets the second reference,    *)
(* and neither side may be written.                                         *)
LEMMA ReturnShare ==
    ASSUME IInv, NEW c \in Cpus, call[c].st = "done", call[c].op = "share",
           call[c].res = 1, call' = [call EXCEPT ![c] = Idle],
           maps' = [maps EXCEPT ![call[c].n] = call[c].arg],
           writable' = writable \ {call[c].m, call[c].n}, UNCHANGED pool
    PROVE  IInv'
<1>0. PICK X : X = {call[c].m, call[c].n} BY Zenon
<1>1. /\ call[c].m # call[c].n /\ maps[call[c].m] = call[c].arg /\ maps[call[c].n] = NoFrame
      /\ call[c].arg \in Frames /\ call[c].dst = NoFrame
  <2>1. Fits(call[c], maps) /\ call[c] # Idle BY Fitting
  <2> QED BY <2>1 DEF Fits
<1>2. KeptOff(X) BY <1>0 DEF KeptOff, IInv, TypeOK
<1>3. /\ Idle \in CallType /\ Acts(c, Idle, X) /\ X \subseteq Mappings
      /\ call[c] \in CallType /\ call[c].m \in Mappings /\ call[c].n \in Mappings
      /\ ~Freed(Idle) /\ ~Freed(call[c])
      /\ \A f \in Frames : \A kind \in Kinds : ~Has(Idle, kind, f)
  BY Zenon, <1>0, <1>2, ReturnActs DEF Freed
<1>4. /\ maps' \in [Mappings -> Frames \union {NoFrame}] /\ writable' \subseteq Mappings
      /\ maps'[call[c].n] = call[c].arg /\ maps'[call[c].m] = call[c].arg
  BY <1>1, <1>3 DEF IInv, TypeOK
<1>5. \A x \in X : x \in writable' => maps'[x] \in Frames BY <1>0
<1>6. ASSUME NEW f \in Frames
      PROVE  /\ pool.refs[f] = Cardinality(HeldBy(maps', call', f))
             /\ OwnedAt(maps', call', writable', f)
  <2>1. CASE f = call[c].arg
    <3>0. PICK H : H = HeldBy(maps, call, f) OBVIOUS
    <3>1. PICK x, y, B : /\ x = <<"new", c>> /\ y = <<"entry", call[c].n>>
                         /\ B = (H \ {x}) \union {y}
      BY Zenon
    <3>2. x \in Touched(c, X) /\ y \in Touched(c, X) /\ x # y /\ \A kind \in Kinds : <<kind, c>> # y
      BY Zenon, <1>0, <1>3, <3>1, SlotsAre DEF Kinds
    <3>3. \A kind \in Kinds : <<kind, c>> \in H <=> kind = "new"
      <4>1. \A kind \in Kinds : Has(call[c], kind, f) <=> kind = "new"
        BY <1>1, <2>1, FramesAreNat DEF Has, Kinds
      <4> QED BY Zenon, <3>0, <4>1, OwnSlots
    <3>4. \A z \in X : <<"entry", z>> \in H <=> maps[z] = f
      <4>1. Alone(c, X) /\ X \in SUBSET Mappings BY <1>3 DEF Acts
      <4>2. \A z \in X : <<"entry", z>> \in HeldBy(maps, call, f) <=>
                           maps[z] = f /\ ~(call[c].m = z /\ Freed(call[c]))
        BY Zenon, <4>1, EntriesBefore
      <4> QED BY Zenon, <1>3, <3>0, <4>2
    <3>5. x \in H /\ y \notin H
      BY <1>0, <1>1, <3>1, <3>3, <3>4, FramesAreNat DEF Kinds
    <3>6. Becomes(c, Idle, X, f, B)
      <4>1. H \subseteq Slots /\ Touched(c, X) \subseteq Slots BY <3>0, CountsHeld DEF Touched
      <4>2. \A z \in X : <<"entry", z>> \in B <=> maps'[z] = f /\ ~(Idle.m = z /\ Freed(Idle))
        BY <1>0, <1>1, <1>3, <1>4, <2>1, <3>1, <3>4
      <4>3. \A kind \in Kinds : <<kind, c>> \in B <=> Has(Idle, kind, f)
        BY <1>3, <3>1, <3>2, <3>3
      <4> QED BY <3>0, <3>1, <3>2, <4>1, <4>2, <4>3 DEF Becomes
    <3>7. \A t \in B \cap Touched(c, X) : ~Keeps(call', writable', t)
      <4> SUFFICES ASSUME NEW t \in B \cap Touched(c, X) PROVE ~Keeps(call', writable', t)
        BY Zenon
      <4>1. \A kind \in Kinds : t # <<kind, c>> BY <3>1, <3>2, <3>3
      <4>2. PICK z \in X : t = <<"entry", z>> BY <4>1, TouchedIs
      <4>3. \A d \in Cpus : ~Sole(call'[d], z)
        <5>1. call'[c] = Idle /\ \A d \in Cpus \ {c} : call'[d] = call[d]
          BY Zenon, <1>3, ActsCalls
        <5>2. \A d \in Cpus \ {c} : ~Sole(call[d], z) BY <1>3 DEF Acts, Alone, Sole
        <5>3. ~Sole(Idle, z) BY DEF Sole, Idle
        <5> QED BY <5>1, <5>2, <5>3
      <4> QED BY <1>0, <4>2, <4>3 DEF Keeps
    <3> QED BY Zenon, <1>3, <3>0, <3>1, <3>2, <3>5, <3>6, <3>7, SwapAt
  <2>2. CASE f # call[c].arg
    <3>1. \A kind \in Kinds : ~Has(call[c], kind, f) BY <2>2, <1>1, FramesAreNat DEF Has, Kinds
    <3>2. \A x \in X : /\ maps'[x] = f <=> maps[x] = f /\ ~(call[c].m = x /\ Freed(call[c]))
                       /\ maps'[x] = f => (x \in writable' => x \in writable)
      BY SMTT(20), <1>0, <1>1, <1>3, <1>4, <2>2, FramesAreNat
    <3> QED BY Zenon, <1>0, <1>2, <3>1, <3>2, ReturnSame
  <2> QED BY <2>1, <2>2
<1> QED BY Zenon, <1>0, <1>2, <1>4, <1>5, <1>6, ReturnAssemble

(* cow_claim found one reference: the page's own, and it may be written.    *)
LEMMA ReturnSole ==
    ASSUME IInv, NEW c \in Cpus, call[c].st = "done", call[c].op = "cow",
           call[c].res = COW_SOLE, call' = [call EXCEPT ![c] = Idle],
           writable' = writable \union {call[c].m}, UNCHANGED <<maps, pool>>
    PROVE  IInv'
<1>0. PICK X : X = {call[c].m, call[c].n} BY Zenon
<1>1. /\ call[c].m = call[c].n /\ maps[call[c].m] = call[c].arg
      /\ call[c].arg \in Frames /\ call[c].dst = NoFrame
  <2>1. Fits(call[c], maps) /\ call[c] # Idle BY Fitting
  <2> QED BY <2>1, FramesAreNat DEF Fits, COW_SOLE
<1>2. KeptOff(X) BY <1>0 DEF KeptOff
<1>3. /\ Idle \in CallType /\ Acts(c, Idle, X) /\ X \subseteq Mappings
      /\ call[c] \in CallType /\ call[c].m \in Mappings
      /\ ~Freed(Idle) /\ ~Freed(call[c])
      /\ \A f \in Frames : \A kind \in Kinds : ~Has(Idle, kind, f)
  BY Zenon, <1>0, <1>2, ReturnActs DEF Freed
<1>4. maps' \in [Mappings -> Frames \union {NoFrame}] /\ writable' \subseteq Mappings
  BY <1>3 DEF IInv, TypeOK
<1>5. \A x \in X : x \in writable' => maps'[x] \in Frames BY <1>0, <1>1
<1>6. \A f \in Frames : \A kind \in Kinds : ~Has(call[c], kind, f)
  BY <1>1, FramesAreNat DEF Has, Kinds, COW_SOLE
<1>7. ASSUME NEW f \in Frames
      PROVE  /\ pool.refs[f] = Cardinality(HeldBy(maps', call', f))
             /\ OwnedAt(maps', call', writable', f)
  <2>0. PICK H : H = HeldBy(maps, call, f) OBVIOUS
  <2>1. CASE f = call[c].arg
    <3>1. PICK x : x = <<"entry", call[c].m>> BY Zenon
    <3>2. x \in H
      <4>1. Alone(c, X) /\ X \in SUBSET Mappings BY <1>3 DEF Acts
      <4>2. \A z \in X : <<"entry", z>> \in HeldBy(maps, call, f) <=>
                           maps[z] = f /\ ~(call[c].m = z /\ Freed(call[c]))
        BY Zenon, <4>1, EntriesBefore
      <4> QED BY <1>0, <1>1, <1>3, <2>0, <2>1, <3>1, <4>2
    <3>3. Keeps(call, writable, x) BY <3>1 DEF Keeps, Sole
    <3>4. \A t \in H : t = x
      <4> SUFFICES ASSUME NEW t \in H, ForkOf(call, t, x) PROVE FALSE
        BY <2>0, <3>2, <3>3 DEF IInv, Owned, OwnedAt
      <4>1. t[2] \in Cpus BY <2>0 DEF HeldBy, Slots, ForkOf
      <4>2. Has(call[t[2]], "new", f) BY <2>0 DEF HeldBy, Held, ForkOf
      <4>3. call[t[2]].st # "idle" /\ call[t[2]].m = call[c].m /\ call[t[2]].op = "share"
        BY <3>1, <4>2 DEF Has, ForkOf
      <4>4. t[2] # c BY <4>3
      <4> QED BY Zenon, <4>1, <4>3, <4>4 DEF IInv, OneCall
    <3>5. Becomes(c, Idle, X, f, H)
      <4>1. H \subseteq Slots BY <2>0, CountsHeld
      <4>2. \A z \in X : <<"entry", z>> \in H <=> maps'[z] = f /\ ~(Idle.m = z /\ Freed(Idle))
        BY Zenon, <1>0, <1>1, <1>3, <2>1, <3>1, <3>2
      <4>3. \A kind \in Kinds : <<kind, c>> \in H <=> Has(Idle, kind, f)
        BY Zenon, <1>3, <1>6, <2>0, OwnSlots
      <4> QED BY <2>0, <4>1, <4>2, <4>3 DEF Becomes
    <3>6. HeldBy(maps', call', f) = H BY Zenon, <1>3, <3>5, HoldersBecome
    <3>7. \A t \in HeldBy(maps', call', f) \cap Touched(c, X) :
            /\ Keeps(call', writable', t) =>
                 \A u \in HeldBy(maps', call', f) : u = t \/ ForkOf(call', u, t)
            /\ HeldBy(maps', call', f) \subseteq {t}
      BY Zenon, <3>4, <3>6
    <3>8. OwnedAt(maps', call', writable', f) BY Zenon, <1>3, <3>7, OwnedTouched
    <3> QED BY <2>0, <3>6, <3>8, CountsHeld
  <2>2. CASE f # call[c].arg
    <3>2. \A x \in X : /\ maps'[x] = f <=> maps[x] = f /\ ~(call[c].m = x /\ Freed(call[c]))
                       /\ maps'[x] = f => (x \in writable' => x \in writable)
      BY Zenon, <1>0, <1>1, <1>3, <2>2
    <3> QED BY Zenon, <1>0, <1>2, <1>6, <3>2, ReturnSame
  <2> QED BY <2>1, <2>2
<1> QED BY Zenon, <1>0, <1>2, <1>4, <1>5, <1>7, ReturnAssemble

(* cow_claim gave a private frame: the break copies into it.                *)
LEMMA ReturnPrivate ==
    ASSUME IInv, NEW c \in Cpus, call[c].st = "done", call[c].op = "cow",
           call[c].res \in Frames, NEW k,
           k = Moved(call[c], "copying", call[c].op, call[c].res, call[c].res),
           call' = [call EXCEPT ![c] = k], UNCHANGED <<maps, writable, pool>>
    PROVE  IInv'
<1>0. PICK X : X = {call[c].m, call[c].n} BY Zenon
<1>1. /\ call[c].m = call[c].n /\ maps[call[c].m] = call[c].arg
      /\ call[c].arg \in Frames /\ call[c].dst = NoFrame /\ call[c] \in CallType
      /\ call[c].m \notin writable /\ call[c].m \in Mappings
  <2>1. /\ Fits(call[c], maps) /\ call[c] # Idle /\ call[c] \in CallType
        /\ call[c].m \in Mappings
    BY Fitting
  <2>2. call[c].m \notin writable BY DEF IInv, BreaksReadOnly
  <2>3. call[c].m = call[c].n /\ maps[call[c].m] = call[c].arg /\ call[c].arg \in Frames
    BY Zenon, <2>1 DEF Fits
  <2>4. call[c].dst = NoFrame BY <2>1 DEF Fits
  <2> QED BY <2>1, <2>2, <2>3, <2>4
<1>2. k \in CallType BY <1>1 DEF Moved, CallType, Ops
<1>3. Acts(c, k, X)
  <2>1. KeptOff({}) BY DEF KeptOff
  <2>2. k.m = call[c].m /\ k.n = call[c].n BY DEF Moved
  <2> QED BY Zenon, <1>0, <2>1, <2>2, SameActs
<1>4. /\ ~Freed(k) /\ ~Freed(call[c]) /\ \A x \in Mappings : ~Sole(k, x)
  BY DEF Freed, Sole, Moved
<1>5. \A f \in Frames : \A kind \in Kinds :
        /\ Has(k, kind, f) <=> kind = "copy" /\ f = call[c].res
        /\ Has(call[c], kind, f) <=> kind = "new" /\ f = call[c].res
  BY <1>1, FramesAreNat DEF Has, Kinds, Moved
<1>6. ASSUME NEW f \in Frames
      PROVE  /\ pool.refs[f] = Cardinality(HeldBy(maps', call', f))
             /\ OwnedAt(maps', call', writable', f)
  <2>0. Alone(c, X) /\ X \in SUBSET Mappings BY <1>3 DEF Acts
  <2>1. \A z \in X : <<"entry", z>> \in HeldBy(maps, call, f) <=>
                       maps[z] = f /\ ~(call[c].m = z /\ Freed(call[c]))
    BY Zenon, <2>0, EntriesBefore
  <2>2. CASE f = call[c].res
    <3>1. PICK x, y : x = <<"new", c>> /\ y = <<"copy", c>> BY Zenon
    <3>2. x \in Touched(c, X) /\ y \in Touched(c, X) /\ x # y
      BY Zenon, <3>1, SlotsAre DEF Kinds
    <3>3. x \in HeldBy(maps, call, f)
      <4>1. Has(call[c], "new", f) /\ "new" \in Kinds BY <2>2 DEF Has, Kinds
      <4> QED BY <3>1, <4>1, OwnSlots
    <3>4. HeldBy(maps, call, f) = {x} BY <3>1, <3>3, FreshAlone
    <3>5. \A z \in X : maps'[z] # f BY <1>4, <2>1, <3>1, <3>4
    <3>6. PassedTo(c, k, X, f, y)
      <4>1. \A z \in X : <<"entry", z>> # y BY <3>1
      <4>2. \A kind \in Kinds : <<kind, c>> = y <=> Has(k, kind, f) BY <1>5, <2>2, <3>1
      <4> QED BY <3>5, <4>1, <4>2 DEF PassedTo
    <3> QED BY Zenon, <1>2, <1>3, <3>2, <3>4, <3>6, HandOver
  <2>3. CASE f # call[c].res
    <3>1. \A kind \in Kinds : <<kind, c>> \in HeldBy(maps, call, f) <=> Has(k, kind, f)
      BY <1>5, <2>3, OwnSlots
    <3>2. HeldBy(maps, call, f) \in SUBSET Slots BY CountsHeld
    <3>3. \A z \in X : <<"entry", z>> \in HeldBy(maps, call, f) <=>
                         maps'[z] = f /\ ~(k.m = z /\ Freed(k))
      BY Zenon, <1>4, <2>1
    <3>4. Becomes(c, k, X, f, HeldBy(maps, call, f)) BY <3>1, <3>2, <3>3 DEF Becomes
    <3>5. ~Has(k, "new", f) BY <1>5 DEF Kinds
    <3>6. \A x \in X : <<"entry", x>> \in HeldBy(maps, call, f) =>
             ~Sole(k, x) /\ (x \in writable' => x \in writable)
      BY <1>4, <2>0
    <3> QED BY Zenon, <1>2, <1>3, <3>4, <3>5, <3>6, SameAt
  <2> QED BY Zenon, <2>2, <2>3
<1>7. Fits(k, maps') /\ (k.st # "idle" /\ k.op \in {"cow", "free"} => k.m \notin writable')
  BY <1>1 DEF Fits, Moved
<1>8. pool' \in Pool /\ PoolConsistent' BY Zenon DEF IInv, TypeOK, PoolConsistent
<1>9. /\ maps' \in [Mappings -> Frames \union {NoFrame}] /\ writable' \subseteq Mappings
      /\ \A x \in X : x \in writable' => maps'[x] \in Frames
  BY DEF IInv, TypeOK, WritableMapped
<1>10. \A f \in Frames : /\ pool'.refs[f] = Cardinality(HeldBy(maps', call', f))
                         /\ OwnedAt(maps', call', writable', f)
  BY Zenon, <1>6
<1> QED BY Zenon, <1>2, <1>3, <1>7, <1>8, <1>9, <1>10, Assemble

(* The other returns hand over nothing.                                     *)
LEMMA ReturnNothing ==
    ASSUME IInv, NEW c \in Cpus, call[c].st = "done", NEW k,
           \/ /\ k = Idle
              /\ \/ call[c].op = "contig" /\ call[c].res = NoFrame
                 \/ call[c].op = "cow" /\ call[c].res = COW_NO_FRAME
                 \/ call[c].op = "free" /\ call[c].dst = NoFrame
           \/ /\ call[c].op = "share" /\ call[c].res = 0
              /\ k = Moved(call[c], "copying", call[c].op, call[c].res, call[c].dst),
           call' = [call EXCEPT ![c] = k], UNCHANGED <<maps, writable, pool>>
    PROVE  IInv'
<1>0. PICK X : X = {call[c].m, call[c].n} BY Zenon
<1>1. call[c] \in CallType BY DEF IInv, TypeOK, CallType
<1>2. k \in CallType BY <1>1 DEF Moved, CallType, Ops, Idle, NoFrame
<1>3. call[c].dst = NoFrame /\ (call[c].op = "share" =>
         call[c].m # call[c].n /\ call[c].arg \in Frames /\ maps[call[c].m] = call[c].arg
         /\ maps[call[c].n] = NoFrame)
  <2>1. Fits(call[c], maps) /\ call[c] # Idle BY Fitting
  <2> QED BY <2>1, FramesAreNat DEF Fits, COW_NO_FRAME
<1>4. Acts(c, k, X)
  <2>1. KeptOff({}) BY DEF KeptOff
  <2>2. k = Idle \/ (k.m = call[c].m /\ k.n = call[c].n) BY DEF Moved
  <2> QED BY Zenon, <1>0, <2>1, <2>2, SameActs
<1>5. Fits(k, maps) BY SMTT(20), <1>3 DEF Fits, Moved
<1>6. ~Freed(call[c]) /\ ~Freed(k) /\ \A x \in Mappings : ~Sole(k, x)
  BY <1>3 DEF Freed, Sole, Moved, Idle
<1>7. \A f \in Frames : /\ ~Has(k, "new", f)
                        /\ \A kind \in Kinds : ~Has(k, kind, f) /\ ~Has(call[c], kind, f)
  BY SMTT(20), <1>3, FramesAreNat DEF Has, Kinds, Moved, Idle, NoFrame, COW_NO_FRAME
<1>8. k.st # "idle" /\ k.op \in {"cow", "free"} => k.m \notin writable BY DEF Moved, Idle
<1> QED BY <1>2, <1>4, <1>5, <1>6, <1>7, <1>8, QuietStep

LEMMA ReturnStep ==
    ASSUME IInv, NEW c \in Cpus, Return(c), UNCHANGED pool PROVE IInv'
<1>1. call[c].st = "done" BY Zenon DEF Return
<1>2. CASE /\ call[c].op = "alloc" /\ call[c].m # call[c].n
           /\ call' = [call EXCEPT ![c] = Idle]
           /\ maps' = [maps EXCEPT ![call[c].n] = call[c].res]
           /\ writable' = cow_protect(call[c].m, call[c].n)
  BY Zenon, <1>1, <1>2, ReturnAlloc DEF cow_protect
<1>3. CASE /\ call[c].op \in {"alloc", "alloc_on"} /\ call[c].m = call[c].n
           /\ call' = [call EXCEPT ![c] = Idle]
           /\ maps' = [maps EXCEPT ![call[c].m] = call[c].res]
           /\ writable' = IF call[c].res = NoFrame THEN writable ELSE writable \union {call[c].m}
  BY Zenon, <1>1, <1>3, ReturnAlloc
<1>4. CASE /\ call[c].op = "contig" /\ call[c].res # NoFrame
           /\ call' = [call EXCEPT ![c] = Idle]
           /\ maps' = [maps EXCEPT ![call[c].m] = call[c].res, ![call[c].n] = call[c].res + 1]
           /\ writable' = writable \union {call[c].m, call[c].n}
  BY Zenon, <1>1, <1>4, ReturnContig
<1>5. CASE /\ \/ call[c].op = "contig" /\ call[c].res = NoFrame
              \/ call[c].op = "cow" /\ call[c].res = COW_NO_FRAME
              \/ call[c].op = "free" /\ call[c].dst = NoFrame
           /\ call' = [call EXCEPT ![c] = Idle] /\ UNCHANGED <<maps, writable>>
  BY Zenon, <1>1, <1>5, ReturnNothing
<1>6. CASE /\ call[c].op = "free" /\ call[c].dst # NoFrame
           /\ call' = [call EXCEPT ![c] = Idle]
           /\ maps' = [maps EXCEPT ![call[c].m] = call[c].dst]
           /\ writable' = writable \union {call[c].m}
  BY Zenon, <1>1, <1>6, ReturnBreak
<1>7. CASE /\ call[c].op = "share" /\ call[c].res = 1
           /\ call' = [call EXCEPT ![c] = Idle]
           /\ maps' = [maps EXCEPT ![call[c].n] = call[c].arg]
           /\ writable' = cow_protect(call[c].m, call[c].n)
  BY Zenon, <1>1, <1>7, ReturnShare DEF cow_protect
<1>8. CASE /\ call[c].op = "share" /\ call[c].res = 0
           /\ call' = [call EXCEPT
                 ![c] = Moved(call[c], "copying", call[c].op, call[c].res, call[c].dst)]
           /\ UNCHANGED <<maps, writable>>
  BY Zenon, <1>1, <1>8, ReturnNothing
<1>9. CASE /\ call[c].op = "cow" /\ call[c].res = COW_SOLE
           /\ call' = [call EXCEPT ![c] = Idle]
           /\ writable' = writable \union {call[c].m} /\ UNCHANGED maps
  BY Zenon, <1>1, <1>9, ReturnSole
<1>10. CASE /\ call[c].op = "cow" /\ call[c].res \in Frames
            /\ call' = [call EXCEPT
                  ![c] = Moved(call[c], "copying", call[c].op, call[c].res, call[c].res)]
            /\ UNCHANGED <<maps, writable>>
  BY Zenon, <1>1, <1>10, ReturnPrivate
<1> QED BY Zenon, <1>2, <1>3, <1>4, <1>5, <1>6, <1>7, <1>8, <1>9, <1>10 DEF Return

----------------------------------------------------------------------------
(* The primitives under the pool lock.                                      *)

LEMMA LeastExists ==
    ASSUME NEW S \in SUBSET Nat, S # {} PROVE Least(S) \in S
<1>1. PICK x \in S : \A y \in S : ~(<<y, x>> \in OpToRel(<, Nat))
  BY Zenon, NatLessThanWellFounded, WFMin
<1>2. \A y \in S : ~(y < x) BY Zenon, <1>1 DEF OpToRel
<1>3. \A y \in S : x <= y BY <1>2
<1> QED BY Zenon, <1>3 DEF Least

(* What the finders return is free.                                         *)
LEMMA FindIn ==
    ASSUME NEW p, NEW lo, NEW hi
    PROVE  find_in(p, lo, hi) = NoFrame \/ find_in(p, lo, hi) \in Frames \ p.bitmap
<1>1. FreeIn(p, lo, hi) \in SUBSET Nat /\ FreeIn(p, lo, hi) \subseteq Frames \ p.bitmap
  BY Zenon, FramesAreNat DEF FreeIn
<1> QED BY <1>1, LeastExists DEF find_in

LEMMA FindFrom ==
    ASSUME NEW p PROVE find_from(p) = NoFrame \/ find_from(p) \in Frames \ p.bitmap
BY FindIn DEF find_from

LEMMA FindRun ==
    ASSUME NEW p
    PROVE  \/ find_run(p, 2) = NoFrame
           \/ find_run(p, 2) \in Frames \ p.bitmap /\ find_run(p, 2) + 1 \in Frames \ p.bitmap
<1> DEFINE starts == {f \in Frames : \A g \in f .. f + 2 - 1 : g \in Frames \ p.bitmap}
<1>1. starts \in SUBSET Nat BY Zenon, FramesAreNat
<1>2. starts # {} => Least(starts) \in starts BY <1>1, LeastExists
<1>3. \A f \in starts : f \in Nat /\ f \in f .. f + 2 - 1 /\ f + 1 \in f .. f + 2 - 1
  BY <1>1
<1>4. \A f \in starts : f \in Frames \ p.bitmap /\ f + 1 \in Frames \ p.bitmap BY <1>3
<1>5. find_run(p, 2) = IF starts = {} THEN NoFrame ELSE Least(starts) BY DEF find_run
<1> QED BY <1>2, <1>4, <1>5

Consistent(p) ==
    /\ p \in Pool /\ p.used = Cardinality(p.bitmap)
    /\ p.bitmap = {f \in Frames : p.refs[f] > 0} /\ ~p.panicked

(* q is p with the free frames F taken, one reference each.                 *)
Takes(p, q, F) ==
    /\ Consistent(q) /\ F \subseteq Frames \ p.bitmap
    /\ \A g \in Frames : q.refs[g] = IF g \in F THEN 1 ELSE p.refs[g]

LEMMA FramesFinite == \A S \in SUBSET Frames : IsFiniteSet(S)
<1>1. IsFiniteSet(Frames) BY PoolAssumption, FS_Interval DEF Frames
<1> QED BY <1>1, FS_Subset

LEMMA ClaimedOne ==
    ASSUME NEW p, Consistent(p), NEW f \in Frames \ p.bitmap, NEW h \in Nat
    PROVE  /\ Takes(p, Claimed(p, f, 1), {f})
           /\ Takes(p, [Claimed(p, f, 1) EXCEPT !.hint = h], {f})
<1>1. f .. f + 1 - 1 = {f} BY FramesAreNat
<1>2. p \in Pool BY DEF Consistent
<1> DEFINE q == Claimed(p, f, 1)
           r == [q EXCEPT !.hint = h]
<1>3. /\ q.bitmap = p.bitmap \union {f} /\ q.used = p.used + 1 /\ q.hint = p.hint
      /\ q.refs = [g \in Frames |-> IF g \in {f} THEN 1 ELSE p.refs[g]]
      /\ q.panicked = p.panicked
  BY <1>1, <1>2 DEF Claimed, Pool
<1>4. Cardinality(p.bitmap \union {f}) = Cardinality(p.bitmap) + 1
  BY <1>2, FramesFinite, FS_AddElement DEF Pool
<1>5. q.refs \in [Frames -> 0 .. SHARE_MAX] BY <1>2, <1>3, PoolAssumption DEF Pool
<1>6. q.bitmap = {g \in Frames : q.refs[g] > 0}
  BY <1>2, <1>3 DEF Consistent, Pool
<1>7. q.used = Cardinality(q.bitmap) /\ q.used \in Nat /\ q.bitmap \in SUBSET Frames
  BY <1>2, <1>3, <1>4 DEF Consistent, Pool
<1>8. q \in Pool BY Zenon, <1>2, <1>5, <1>7 DEF Pool, Claimed
<1>9. /\ r.bitmap = q.bitmap /\ r.used = q.used /\ r.refs = q.refs /\ r.panicked = q.panicked
      /\ r \in Pool
  BY <1>8 DEF Pool
<1>10. ~p.panicked BY DEF Consistent
<1>11. \A g \in Frames : q.refs[g] = IF g \in {f} THEN 1 ELSE p.refs[g] BY <1>3
<1> HIDE DEF q, r
<1>12. Takes(p, q, {f}) BY Zenon, <1>3, <1>6, <1>7, <1>8, <1>10, <1>11 DEF Takes, Consistent
<1>13. Takes(p, r, {f}) BY <1>3, <1>6, <1>7, <1>9, <1>10, <1>11 DEF Takes, Consistent
<1> QED BY <1>12, <1>13 DEF q, r

LEMMA ClaimedTwo ==
    ASSUME NEW p, Consistent(p), NEW f \in Frames \ p.bitmap, f + 1 \in Frames \ p.bitmap
    PROVE  Takes(p, Claimed(p, f, 2), {f, f + 1})
<1>1. f .. f + 2 - 1 = {f, f + 1}
  <2>1. f \in Nat BY FramesAreNat
  <2>2. \A i \in Nat : i .. i + 2 - 1 = {i, i + 1} OBVIOUS
  <2> QED BY <2>1, <2>2
<1>2. p \in Pool BY DEF Consistent
<1> DEFINE q == Claimed(p, f, 2)
<1>3. /\ q.bitmap = p.bitmap \union {f, f + 1} /\ q.used = p.used + 2 /\ q.hint = p.hint
      /\ q.refs = [g \in Frames |-> IF g \in {f, f + 1} THEN 1 ELSE p.refs[g]]
      /\ q.panicked = p.panicked
  BY <1>1, <1>2 DEF Claimed, Pool
<1>4. Cardinality(q.bitmap) = Cardinality(p.bitmap) + 2
  <2>1. IsFiniteSet(p.bitmap) /\ Cardinality(p.bitmap) \in Nat
    BY <1>2, FramesFinite, FS_CardinalityType DEF Pool
  <2>2. f \notin p.bitmap /\ f + 1 \notin p.bitmap \union {f}
    BY FramesAreNat
  <2>3. /\ IsFiniteSet(p.bitmap \union {f})
        /\ Cardinality(p.bitmap \union {f}) = Cardinality(p.bitmap) + 1
    BY <2>1, <2>2, FS_AddElement
  <2>4. Cardinality((p.bitmap \union {f}) \union {f + 1}) = Cardinality(p.bitmap \union {f}) + 1
    BY Zenon, <2>2, <2>3, FS_AddElement
  <2>5. q.bitmap = (p.bitmap \union {f}) \union {f + 1} BY <1>3
  <2> HIDE DEF q
  <2> QED BY <2>1, <2>3, <2>4, <2>5
<1>5. q.refs \in [Frames -> 0 .. SHARE_MAX] BY <1>2, <1>3, PoolAssumption DEF Pool
<1>6. q.bitmap = {g \in Frames : q.refs[g] > 0}
  BY <1>2, <1>3 DEF Consistent, Pool
<1>7. q.used = Cardinality(q.bitmap) /\ q.used \in Nat /\ q.bitmap \in SUBSET Frames
  BY <1>2, <1>3, <1>4 DEF Consistent, Pool
<1>8. q \in Pool BY Zenon, <1>2, <1>5, <1>7 DEF Pool, Claimed
<1>10. ~p.panicked BY DEF Consistent
<1>11. \A g \in Frames : q.refs[g] = IF g \in {f, f + 1} THEN 1 ELSE p.refs[g] BY <1>3
<1> HIDE DEF q
<1> QED BY SMTT(20), <1>3, <1>6, <1>7, <1>8, <1>10, <1>11 DEF Takes, Consistent, q

(* q is p with one reference to f more, or one less.                        *)
Gains(p, q, f) ==
    /\ Consistent(q) /\ p.refs[f] > 0
    /\ \A g \in Frames : q.refs[g] = IF g = f THEN p.refs[f] + 1 ELSE p.refs[g]
Loses(p, q, f) ==
    /\ Consistent(q)
    /\ \A g \in Frames : q.refs[g] = IF g = f THEN p.refs[f] - 1 ELSE p.refs[g]

LEMMA ClaimHinted ==
    ASSUME NEW p, Consistent(p)
    PROVE  \/ claim_hinted(p).res = NoFrame /\ claim_hinted(p).pool = p
           \/ /\ claim_hinted(p).res \in Frames
              /\ Takes(p, claim_hinted(p).pool, {claim_hinted(p).res})
<1>1. CASE find_from(p) = NoFrame BY <1>1 DEF claim_hinted
<1>2. CASE find_from(p) # NoFrame
  <2>1. PICK f : f = find_from(p) OBVIOUS
  <2>2. f \in Frames \ p.bitmap BY <1>2, <2>1, FindFrom
  <2>3. f - FRAME_POOL_BASE + 1 \in Nat BY <2>2, PoolAssumption DEF Frames
  <2>4. Takes(p, [Claimed(p, f, 1) EXCEPT !.hint = f - FRAME_POOL_BASE + 1], {f})
    BY Zenon, <2>2, <2>3, ClaimedOne
  <2>5. /\ claim_hinted(p).res = f
        /\ claim_hinted(p).pool = [Claimed(p, f, 1) EXCEPT !.hint = f - FRAME_POOL_BASE + 1]
    BY <1>2, <2>1 DEF claim_hinted
  <2> QED BY <2>2, <2>4, <2>5
<1> QED BY <1>1, <1>2

LEMMA ClaimOn ==
    ASSUME NEW p, Consistent(p), NEW node
    PROVE  \/ claim_on(p, node).res = NoFrame /\ claim_on(p, node).pool = p
           \/ /\ claim_on(p, node).res \in Frames
              /\ Takes(p, claim_on(p, node).pool, {claim_on(p, node).res})
<1>1. PICK f : f = find_in(p, NodeRange[node][1], NodeRange[node][2]) OBVIOUS
<1>2. CASE f = NoFrame
  <2>1. claim_on(p, node) = claim_hinted(p) BY <1>1, <1>2 DEF claim_on
  <2> QED BY <2>1, ClaimHinted
<1>3. CASE f # NoFrame
  <2>1. f \in Frames \ p.bitmap BY <1>1, <1>3, FindIn
  <2>2. Takes(p, Claimed(p, f, 1), {f}) BY Zenon, <2>1, ClaimedOne
  <2>3. claim_on(p, node).res = f /\ claim_on(p, node).pool = Claimed(p, f, 1)
    BY SMTT(20), <1>1, <1>3 DEF claim_on
  <2> QED BY <2>1, <2>2, <2>3
<1> QED BY <1>2, <1>3

LEMMA Contig ==
    ASSUME NEW p, Consistent(p)
    PROVE  \/ contig(p, 2).res = NoFrame /\ contig(p, 2).pool = p
           \/ /\ contig(p, 2).res \in Frames /\ contig(p, 2).res + 1 \in Frames
              /\ Takes(p, contig(p, 2).pool, {contig(p, 2).res, contig(p, 2).res + 1})
<1>1. PICK f : f = find_run(p, 2) OBVIOUS
<1>2. CASE f = NoFrame BY Zenon, <1>1, <1>2 DEF contig
<1>3. CASE f # NoFrame
  <2>1. f \in Frames \ p.bitmap /\ f + 1 \in Frames \ p.bitmap BY <1>1, <1>3, FindRun
  <2>2. Takes(p, Claimed(p, f, 2), {f, f + 1}) BY <2>1, ClaimedTwo
  <2>3. contig(p, 2).res = f /\ contig(p, 2).pool = Claimed(p, f, 2)
    BY <1>1, <1>3 DEF contig
  <2> QED BY SMTT(20), <2>1, <2>2, <2>3
<1> QED BY <1>2, <1>3

LEMMA Release ==
    ASSUME NEW p, Consistent(p), NEW f \in Frames, p.refs[f] > 0
    PROVE  release(p, f).res = 0 /\ Loses(p, release(p, f).pool, f)
<1>1. p \in Pool /\ f \in p.bitmap /\ p.refs[f] \in Nat BY DEF Consistent, Pool
<1> DEFINE q == release(p, f).pool
<1>2. CASE p.refs[f] > 1
  <2>1. q = [p EXCEPT !.refs[f] = p.refs[f] - 1] BY <1>1, <1>2 DEF release
  <2>2. /\ q.bitmap = p.bitmap /\ q.used = p.used /\ q.panicked = p.panicked
        /\ q.refs = [p.refs EXCEPT ![f] = p.refs[f] - 1]
    BY <1>1, <2>1 DEF Pool
  <2>3. q.refs \in [Frames -> 0 .. SHARE_MAX]
    <3>1. p.refs \in [Frames -> 0 .. SHARE_MAX] BY <1>1 DEF Pool
    <3>2. p.refs[f] - 1 \in 0 .. SHARE_MAX BY <1>2, <3>1, PoolAssumption
    <3> HIDE DEF q
    <3> QED BY <2>2, <3>1, <3>2
  <2>4. q \in Pool BY <1>1, <2>1, <2>3 DEF Pool
  <2>5. \A g \in Frames : q.refs[g] = IF g = f THEN p.refs[f] - 1 ELSE p.refs[g]
    BY <1>1, <2>2 DEF Pool
  <2>6. q.bitmap = {g \in Frames : q.refs[g] > 0}
    BY <1>1, <1>2, <2>2, <2>5 DEF Consistent
  <2> HIDE DEF q
  <2>7. Loses(p, q, f) BY <2>2, <2>4, <2>5, <2>6 DEF Loses, Consistent
  <2> QED BY <2>7 DEF q, release
<1>3. CASE ~(p.refs[f] > 1)
  <2>0. p.refs[f] = 1 BY <1>1, <1>3
  <2>1. q = [p EXCEPT !.refs[f] = 0, !.bitmap = p.bitmap \ {f}, !.used = p.used - 1]
    BY <1>1, <1>3 DEF release
  <2>2. /\ q.bitmap = p.bitmap \ {f} /\ q.used = p.used - 1 /\ q.panicked = p.panicked
        /\ q.refs = [p.refs EXCEPT ![f] = 0]
    BY <1>1, <2>1 DEF Pool
  <2>3. q.refs \in [Frames -> 0 .. SHARE_MAX] BY <1>1, <2>2, PoolAssumption DEF Pool
  <2>4. /\ Cardinality(p.bitmap \ {f}) = Cardinality(p.bitmap) - 1
        /\ Cardinality(p.bitmap \ {f}) \in Nat
    BY <1>1, FramesFinite, FS_RemoveElement, FS_CardinalityType DEF Pool
  <2>5. q.used = Cardinality(q.bitmap) /\ q.used \in Nat BY Zenon, <2>2, <2>4 DEF Consistent
  <2>6. q \in Pool BY Zenon, <1>1, <2>1, <2>3, <2>5 DEF Pool
  <2>7. \A g \in Frames : q.refs[g] = IF g = f THEN p.refs[f] - 1 ELSE p.refs[g]
    BY <1>1, <2>0, <2>2 DEF Pool
  <2>8. q.bitmap = {g \in Frames : q.refs[g] > 0}
    BY <1>1, <2>0, <2>2, <2>7 DEF Consistent
  <2> HIDE DEF q
  <2>9. Loses(p, q, f) BY Zenon, <2>2, <2>5, <2>6, <2>7, <2>8 DEF Loses, Consistent
  <2> QED BY <2>9 DEF q, release
<1> QED BY <1>2, <1>3

LEMMA AddRef ==
    ASSUME NEW p, Consistent(p), NEW f \in Frames
    PROVE  \/ add_ref(p, f).res = 0 /\ add_ref(p, f).pool = p
           \/ add_ref(p, f).res = 1 /\ Gains(p, add_ref(p, f).pool, f)
<1>1. p \in Pool /\ p.refs[f] \in 0 .. SHARE_MAX BY DEF Consistent, Pool
<1>2. CASE p.refs[f] = 0 \/ p.refs[f] = SHARE_MAX BY <1>2 DEF add_ref
<1>3. CASE ~(p.refs[f] = 0 \/ p.refs[f] = SHARE_MAX)
  <2> DEFINE q == [p EXCEPT !.refs[f] = p.refs[f] + 1]
  <2>1. add_ref(p, f).res = 1 /\ add_ref(p, f).pool = q BY <1>1, <1>3 DEF add_ref
  <2>2. /\ q.bitmap = p.bitmap /\ q.used = p.used /\ q.panicked = p.panicked
        /\ q.refs = [p.refs EXCEPT ![f] = p.refs[f] + 1]
    BY <1>1 DEF Pool
  <2>3. q.refs \in [Frames -> 0 .. SHARE_MAX] BY <1>1, <1>3, <2>2, PoolAssumption DEF Pool
  <2>4. q \in Pool BY <1>1, <2>3 DEF Pool
  <2>5. \A g \in Frames : q.refs[g] = IF g = f THEN p.refs[f] + 1 ELSE p.refs[g]
    BY <1>1, <2>2 DEF Pool
  <2>6. q.bitmap = {g \in Frames : q.refs[g] > 0}
    BY <1>1, <1>3, <2>2, <2>5 DEF Consistent
  <2>7. p.refs[f] > 0 BY <1>1, <1>3
  <2> HIDE DEF q
  <2>8. Gains(p, q, f) BY SMTT(20), <2>2, <2>4, <2>5, <2>6, <2>7 DEF Gains, Consistent
  <2> QED BY <2>1, <2>8
<1> QED BY <1>2, <1>3

----------------------------------------------------------------------------
(* A call takes effect.                                                     *)

(* What is known of call c, now k, when it takes effect with result r.      *)
Effect(c, k, X, r) ==
    /\ k \in CallType /\ Acts(c, k, X) /\ X = {call[c].m, call[c].n} /\ X \in SUBSET Mappings
    /\ k.st = "done" /\ k.op = call[c].op /\ k.m = call[c].m /\ k.n = call[c].n
    /\ k.arg = call[c].arg /\ k.dst = call[c].dst /\ k.res = r
    /\ call[c].st = "called" /\ ~Freed(call[c]) /\ Alone(c, X)
    /\ UNCHANGED <<maps, writable>>

LEMMA ExecuteActs ==
    ASSUME IInv, NEW c \in Cpus, call[c].st = "called", NEW r \in Nat,
           call' = [call EXCEPT ![c] = Done(@, r)], UNCHANGED <<maps, writable>>
    PROVE  Effect(c, Done(call[c], r), {call[c].m, call[c].n}, r)
<1>1. call[c] \in CallType BY DEF IInv, TypeOK, CallType
<1>2. PICK k : k = Done(call[c], r) OBVIOUS
<1>3. /\ k \in CallType /\ k.st = "done" /\ k.op = call[c].op /\ k.m = call[c].m
      /\ k.n = call[c].n /\ k.arg = call[c].arg /\ k.dst = call[c].dst /\ k.res = r
  BY <1>1, <1>2 DEF Done, Moved, CallType
<1>4. call' = [call EXCEPT ![c] = k] BY <1>2 DEF IInv, TypeOK
<1>5. KeptOff({}) BY DEF KeptOff
<1>6. Acts(c, k, {call[c].m, call[c].n}) BY Zenon, <1>3, <1>4, <1>5, SameActs
<1>7. /\ {call[c].m, call[c].n} \in SUBSET Mappings /\ ~Freed(call[c])
      /\ Alone(c, {call[c].m, call[c].n})
  BY <1>6 DEF Acts, Freed
<1> QED BY Zenon, <1>2, <1>3, <1>6, <1>7 DEF Effect

(* A frame the call took no reference to.                                   *)
LEMMA ExecuteSame ==
    ASSUME IInv, NEW c \in Cpus, NEW k, NEW X, NEW r, Effect(c, k, X, r), NEW f \in Frames,
           ~Has(k, "new", f),
           \A kind \in Kinds : Has(k, kind, f) <=> Has(call[c], kind, f),
           \A x \in X : maps[x] = f => ~Sole(k, x) /\ ~Freed(k)
    PROVE  /\ pool.refs[f] = Cardinality(HeldBy(maps', call', f))
           /\ HeldBy(maps', call', f) = HeldBy(maps, call, f)
           /\ OwnedAt(maps', call', writable', f)
<1>1. k \in CallType /\ Acts(c, k, X) /\ X \in SUBSET Mappings /\ Alone(c, X)
  BY Zenon DEF Effect
<1>2. \A z \in X : <<"entry", z>> \in HeldBy(maps, call, f) <=>
                     maps[z] = f /\ ~(call[c].m = z /\ Freed(call[c]))
  BY Zenon, <1>1, EntriesBefore
<1>3. \A z \in X : <<"entry", z>> \in HeldBy(maps, call, f) <=>
                     maps'[z] = f /\ ~(k.m = z /\ Freed(k))
  BY Zenon, <1>2 DEF Effect
<1>4. \A kind \in Kinds : <<kind, c>> \in HeldBy(maps, call, f) <=> Has(k, kind, f)
  BY SMTT(20), OwnSlots
<1>5. HeldBy(maps, call, f) \in SUBSET Slots BY CountsHeld
<1>6. Becomes(c, k, X, f, HeldBy(maps, call, f)) BY Zenon, <1>3, <1>4, <1>5 DEF Becomes
<1>7. \A x \in X : <<"entry", x>> \in HeldBy(maps, call, f) =>
         ~Sole(k, x) /\ (x \in writable' => x \in writable)
  BY Zenon, <1>2 DEF Effect
<1> QED BY Zenon, <1>1, <1>6, <1>7, SameAt

(* A frame that was free: the call is its only holder.                      *)
LEMMA ExecuteTakes ==
    ASSUME IInv, NEW c \in Cpus, NEW k, NEW X, NEW r, Effect(c, k, X, r), NEW f \in Frames,
           pool.refs[f] = 0, \A kind \in Kinds : Has(k, kind, f) <=> kind = "new"
    PROVE  /\ Cardinality(HeldBy(maps', call', f)) = 1
           /\ OwnedAt(maps', call', writable', f)
<1>1. k \in CallType /\ Acts(c, k, X) /\ X \in SUBSET Mappings /\ Alone(c, X)
  BY Zenon DEF Effect
<1>2. HeldBy(maps, call, f) = {} BY Zenon, CountsHeld, FS_EmptySet
<1>3. \A z \in X : <<"entry", z>> \in HeldBy(maps, call, f) <=>
                     maps[z] = f /\ ~(call[c].m = z /\ Freed(call[c]))
  BY Zenon, <1>1, EntriesBefore
<1>4. \A z \in X : maps'[z] # f BY Zenon, <1>2, <1>3 DEF Effect
<1>5. PICK B : B = {<<"new", c>>} BY Zenon
<1>6. B \in SUBSET Slots /\ B \subseteq Touched(c, X) BY <1>5 DEF Kinds, Slots, Touched
<1>7. Becomes(c, k, X, f, B)
  <2>1. \A z \in X : <<"entry", z>> \notin B BY <1>5
  <2>2. \A kind \in Kinds : <<kind, c>> \in B <=> Has(k, kind, f) BY <1>5
  <2> QED BY SMTT(20), <1>2, <1>4, <1>6, <2>1, <2>2 DEF Becomes
<1>8. HeldBy(maps', call', f) = B BY Zenon, <1>1, <1>7, HoldersBecome
<1>9. \A t \in HeldBy(maps', call', f) \cap Touched(c, X) :
        /\ Keeps(call', writable', t) =>
             \A u \in HeldBy(maps', call', f) : u = t \/ ForkOf(call', u, t)
        /\ HeldBy(maps', call', f) \subseteq {t}
  BY <1>5, <1>8
<1>10. OwnedAt(maps', call', writable', f) BY Zenon, <1>1, <1>9, OwnedTouched
<1> QED BY Zenon, <1>5, <1>8, <1>10, FS_Singleton

(* The invariant after the call, if it holds for the pool and its holders.  *)
LEMMA ExecuteAssemble ==
    ASSUME IInv, NEW c \in Cpus, NEW k, NEW X, NEW r, Effect(c, k, X, r), Fits(k, maps),
           Consistent(pool'),
           \A f \in Frames : /\ pool'.refs[f] = Cardinality(HeldBy(maps', call', f))
                             /\ OwnedAt(maps', call', writable', f)
    PROVE  IInv'
<1>1. k \in CallType /\ Acts(c, k, X) /\ Fits(k, maps') BY Zenon DEF Effect
<1>2. pool' \in Pool /\ PoolConsistent' BY Zenon DEF Consistent, PoolConsistent
<1>3. /\ maps' \in [Mappings -> Frames \union {NoFrame}] /\ writable' \subseteq Mappings
      /\ \A x \in X : x \in writable' => maps'[x] \in Frames
  BY Zenon DEF Effect, IInv, TypeOK, WritableMapped
<1>4. k.st # "idle" /\ k.op \in {"cow", "free"} => k.m \notin writable'
  BY Zenon DEF Effect, IInv, BreaksReadOnly
<1> QED BY Zenon, <1>1, <1>2, <1>3, <1>4, Assemble

LEMMA PoolIsConsistent == ASSUME IInv PROVE Consistent(pool)
BY DEF IInv, TypeOK, PoolConsistent, Consistent

(* The pool gives the call the free frames F, or nothing.                   *)
LEMMA ExecuteClaim ==
    ASSUME IInv, NEW c \in Cpus, NEW k, NEW X, NEW r, Effect(c, k, X, r), Fits(k, maps),
           NEW F \in SUBSET Frames, (pool' = pool /\ F = {}) \/ Takes(pool, pool', F),
           ~Freed(k), \A x \in X : ~Sole(k, x),
           \A f \in Frames, kind \in Kinds :
              /\ ~Has(call[c], kind, f)
              /\ Has(k, kind, f) <=> kind = "new" /\ f \in F
    PROVE  IInv'
<1>1. Consistent(pool') BY Zenon, PoolIsConsistent DEF Takes
<1>2. ASSUME NEW f \in Frames
      PROVE  /\ pool'.refs[f] = Cardinality(HeldBy(maps', call', f))
             /\ OwnedAt(maps', call', writable', f)
  <2>1. CASE f \in F
    <3>1. pool.refs[f] = 0 /\ pool'.refs[f] = 1
      <4>1. Takes(pool, pool', F) BY <2>1
      <4>2. f \notin pool.bitmap /\ pool'.refs[f] = 1 BY Zenon, <2>1, <4>1 DEF Takes
      <4>3. pool.bitmap = {g \in Frames : pool.refs[g] > 0} /\ pool.refs[f] \in Nat
        BY PoolIsConsistent DEF Consistent, Pool
      <4>4. ~(pool.refs[f] > 0) BY Zenon, <4>2, <4>3
      <4>5. pool.refs[f] \in Nat BY Zenon, <4>3
      <4>6. pool.refs[f] = 0 BY <4>4, <4>5
      <4> QED BY Zenon, <4>2, <4>6
    <3>2. \A kind \in Kinds : Has(k, kind, f) <=> kind = "new" BY <2>1
    <3> QED BY Zenon, <3>1, <3>2, ExecuteTakes
  <2>2. CASE f \notin F
    <3>1. pool'.refs[f] = pool.refs[f] BY SMTT(20), <2>2 DEF Takes
    <3>2. \A kind \in Kinds : Has(k, kind, f) <=> Has(call[c], kind, f) BY <2>2
    <3>3. ~Has(k, "new", f) BY <2>2 DEF Kinds
    <3> QED BY Zenon, <3>1, <3>2, <3>3, ExecuteSame
  <2> QED BY <2>1, <2>2
<1> QED BY <1>1, <1>2, ExecuteAssemble

LEMMA CowClaim ==
    ASSUME NEW p, Consistent(p), NEW f \in Frames
    PROVE  \/ p.refs[f] <= 1 /\ cow_claim(p, f).res = COW_SOLE /\ cow_claim(p, f).pool = p
           \/ cow_claim(p, f).res = COW_NO_FRAME /\ cow_claim(p, f).pool = p
           \/ /\ cow_claim(p, f).res \in Frames
              /\ Takes(p, cow_claim(p, f).pool, {cow_claim(p, f).res})
<1>1. CASE p.refs[f] <= 1 BY Zenon, <1>1 DEF cow_claim
<1>2. CASE ~(p.refs[f] <= 1)
  <2>1. /\ cow_claim(p, f).pool = claim_hinted(p).pool
        /\ cow_claim(p, f).res = IF claim_hinted(p).res = NoFrame THEN COW_NO_FRAME
                                 ELSE claim_hinted(p).res
    BY <1>2 DEF cow_claim
  <2> QED BY Zenon, <2>1, ClaimHinted, FramesAreNat
<1> QED BY SMTT(20), <1>1, <1>2

(* The call's frames come fresh from the pool: alloc, alloc_on and contig.  *)
LEMMA ExecuteAlloc ==
    ASSUME IInv, NEW c \in Cpus, Execute(c), call[c].op \in {"alloc", "alloc_on", "contig"}
    PROVE  IInv'
<1> DEFINE e == fc_execute(pool, call[c].op, call[c].arg)
           F == IF e.res = NoFrame THEN {}
                ELSE IF call[c].op = "contig" THEN {e.res, e.res + 1} ELSE {e.res}
<1>1. Consistent(pool) BY PoolIsConsistent
<1>2. /\ e.res = NoFrame \/ (e.res \in Frames /\ (call[c].op = "contig" => e.res + 1 \in Frames))
      /\ (e.pool = pool /\ F = {}) \/ Takes(pool, e.pool, F)
  <2>1. CASE call[c].op = "alloc"
    BY <1>1, <2>1, ClaimHinted, FramesAreNat DEF fc_execute
  <2>2. CASE call[c].op = "alloc_on"
    BY <1>1, <2>2, ClaimOn, FramesAreNat DEF fc_execute
  <2>3. CASE call[c].op = "contig"
    BY <1>1, <2>3, Contig, FramesAreNat DEF fc_execute
  <2> QED BY Zenon, <2>1, <2>2, <2>3
<1>3. /\ call[c].st = "called" /\ pool' = e.pool /\ call' = [call EXCEPT ![c] = Done(@, e.res)]
      /\ UNCHANGED <<maps, writable>>
  BY DEF Execute
<1> HIDE DEF e
<1>4. F \in SUBSET Frames BY <1>2
<1>5. PICK r, k : r = e.res /\ k = Done(call[c], r) OBVIOUS
<1>6. r \in Nat
  <2>1. r = NoFrame \/ r \in Frames BY <1>2, <1>5
  <2>2. NoFrame \in Nat BY DEF NoFrame
  <2> QED BY Zenon, <2>1, <2>2, FramesAreNat
<1>7. Effect(c, k, {call[c].m, call[c].n}, r) BY Zenon, <1>3, <1>5, <1>6, ExecuteActs
<1>8. Fits(call[c], maps) /\ call[c] # Idle BY <1>3 DEF IInv, CallsFit, Idle
<1>9. call[c].dst = NoFrame /\ Fits(k, maps)
  <2>1. call[c].dst = NoFrame BY Zenon, <1>8 DEF Fits
  <2>2. /\ k.st = "done" /\ k.op = call[c].op /\ k.m = call[c].m /\ k.n = call[c].n
        /\ k.arg = call[c].arg /\ k.dst = call[c].dst /\ k.res = r
    BY Zenon, <1>7 DEF Effect
  <2> QED BY Zenon, <1>2, <1>5, <1>8, <2>1, <2>2 DEF Fits
<1>10. ~Freed(k) /\ \A x : ~Sole(k, x) BY SMTT(20), <1>7 DEF Effect, Freed, Sole
<1>11. ASSUME NEW f \in Frames, NEW kind \in Kinds
       PROVE  ~Has(call[c], kind, f) /\ (Has(k, kind, f) <=> kind = "new" /\ f \in F)
  <2>1. f # NoFrame BY FramesAreNat
  <2>2. /\ k.st = "done" /\ k.op = call[c].op /\ k.dst = NoFrame /\ k.res = r
    BY Zenon, <1>7, <1>9 DEF Effect
  <2>3. ~Has(call[c], kind, f) BY <1>3, <1>9, <2>1 DEF Has
  <2>4. Has(k, kind, f) <=> kind = "new" /\ f \in F
    <3>1. CASE call[c].op = "contig"
      <4>1. Has(k, kind, f) <=> kind = "new" /\ r # NoFrame /\ f \in {r, r + 1}
        BY <2>1, <2>2, <3>1 DEF Has
      <4>2. f \in F <=> r # NoFrame /\ f \in {r, r + 1} BY <1>5, <3>1
      <4> QED BY Zenon, <4>1, <4>2
    <3>2. CASE call[c].op \in {"alloc", "alloc_on"}
      <4>1. Has(k, kind, f) <=> kind = "new" /\ r = f BY <2>1, <2>2, <3>2 DEF Has
      <4>2. f \in F <=> r = f BY <1>5, <2>1, <3>2
      <4> QED BY Zenon, <4>1, <4>2
    <3> QED BY <3>1, <3>2
  <2> QED BY <2>3, <2>4
<1> HIDE DEF F
<1> QED BY Zenon, <1>2, <1>3, <1>4, <1>7, <1>9, <1>10, <1>11, ExecuteClaim

(* A call that neither gets nor gives back a reference.                     *)
LEMMA ExecuteNothing ==
    ASSUME IInv, NEW c \in Cpus, NEW k, NEW X, NEW r, Effect(c, k, X, r), Fits(k, maps),
           pool' = pool, call[c].dst = NoFrame,
           \/ call[c].op = "share" /\ r = 0
           \/ call[c].op = "cow" /\ r = COW_NO_FRAME
    PROVE  IInv'
<1>1. /\ k.st = "done" /\ k.op = call[c].op /\ k.dst = NoFrame /\ k.res = r
      /\ call[c].st = "called"
  BY SMTT(20) DEF Effect
<1>2. ~Freed(k) /\ \A x : ~Sole(k, x) BY SMTT(20), <1>1 DEF Freed, Sole, COW_SOLE, COW_NO_FRAME
<1>3. ASSUME NEW f \in Frames, NEW kind \in Kinds
      PROVE  ~Has(call[c], kind, f) /\ ~Has(k, kind, f)
  <2>1. f # NoFrame /\ f # COW_NO_FRAME BY FramesAreNat DEF COW_NO_FRAME
  <2>2. ~Has(call[c], kind, f) BY SMTT(20), <1>1, <2>1 DEF Has
  <2>3. ~Has(k, kind, f) BY <1>1, <2>1 DEF Has
  <2> QED BY Zenon, <2>2, <2>3
<1>4. \A f \in Frames, kind \in Kinds :
         ~Has(call[c], kind, f) /\ (Has(k, kind, f) <=> kind = "new" /\ f \in {})
  BY <1>3
<1>5. {} \in SUBSET Frames OBVIOUS
<1> QED BY Zenon, <1>2, <1>4, <1>5, ExecuteClaim

(* cow_claim finds one reference: the page's entry is the only holder.      *)
LEMMA ExecuteSole ==
    ASSUME IInv, NEW c \in Cpus, NEW k, NEW X, Effect(c, k, X, COW_SOLE), Fits(k, maps),
           pool' = pool, call[c].op = "cow", call[c].dst = NoFrame, call[c].arg \in Frames,
           call[c].m = call[c].n, maps[call[c].m] = call[c].arg, pool.refs[call[c].arg] <= 1
    PROVE  IInv'
<1>1. PICK m, a : m = call[c].m /\ a = call[c].arg OBVIOUS
<1>2. /\ X = {m} /\ m \in Mappings /\ maps[m] = a /\ a \in Frames
      /\ k.st = "done" /\ k.op = "cow" /\ k.dst = NoFrame /\ k.res = COW_SOLE /\ k.m = m
      /\ call[c].st = "called" /\ k \in CallType /\ Acts(c, k, X) /\ Alone(c, X)
      /\ ~Freed(call[c]) /\ X \in SUBSET Mappings
  BY Zenon, <1>1 DEF Effect
<1>3. ~Freed(k) /\ ~Freed(call[c]) BY Zenon, <1>2 DEF Freed
<1>4. \A f \in Frames, kind \in Kinds : ~Has(call[c], kind, f) /\ ~Has(k, kind, f)
  BY Zenon, <1>2, FramesAreNat DEF Has, COW_SOLE, NoFrame
<1>5. <<"new", c>> \in Slots /\ "new" \in Kinds BY DEF Slots, Kinds
<1>6. ASSUME NEW f \in Frames, f # a
      PROVE  /\ pool'.refs[f] = Cardinality(HeldBy(maps', call', f))
             /\ OwnedAt(maps', call', writable', f)
  <2>1. \A x \in X : maps[x] = f => ~Sole(k, x) /\ ~Freed(k) BY Zenon, <1>2, <1>6
  <2>2. \A kind \in Kinds : Has(k, kind, f) <=> Has(call[c], kind, f) BY Zenon, <1>4
  <2>3. ~Has(k, "new", f) BY <1>4, <1>5
  <2> QED BY Zenon, <2>1, <2>2, <2>3, ExecuteSame
<1>7. /\ pool'.refs[a] = Cardinality(HeldBy(maps', call', a))
      /\ OwnedAt(maps', call', writable', a)
  <2>1. PICK A : A = HeldBy(maps, call, a) OBVIOUS
  <2>2. /\ pool.refs[a] = Cardinality(A) /\ IsFiniteSet(A) /\ A \subseteq Slots
    BY Zenon, <1>2, <2>1, CountsHeld
  <2>3. \A z \in X : <<"entry", z>> \in HeldBy(maps, call, a) <=>
                       maps[z] = a /\ ~(call[c].m = z /\ Freed(call[c]))
    BY Zenon, <1>2, EntriesBefore
  <2>4. <<"entry", m>> \in A BY Zenon, <1>2, <2>1, <2>3
  <2>5. Cardinality(A) = 1
    <3>1. Cardinality(A) \in Nat BY Zenon, <2>2, FS_CardinalityType
    <3>2. Cardinality(A) # 0 BY <2>2, <2>4, FS_EmptySet
    <3>3. Cardinality(A) <= 1 BY <1>1, <2>2
    <3>4. \A i \in Nat : i # 0 /\ i <= 1 => i = 1 OBVIOUS
    <3> QED BY <3>1, <3>2, <3>3, <3>4
  <2>6. A = {<<"entry", m>>} BY <2>2, <2>4, <2>5, FS_Singleton
  <2>7. \A kind \in Kinds : <<kind, c>> \in A <=> Has(k, kind, a)
    BY Zenon, <1>2, <1>4, <2>1, OwnSlots
  <2>8. \A z \in X : <<"entry", z>> \in A <=> maps'[z] = a /\ ~(k.m = z /\ Freed(k))
    BY Zenon, <1>2, <1>3, <2>4 DEF Effect
  <2>9. Becomes(c, k, X, a, A) BY Zenon, <2>1, <2>2, <2>7, <2>8 DEF Becomes
  <2>10. HeldBy(maps', call', a) = A BY Zenon, <1>2, <2>9, HoldersBecome
  <2>11. \A t \in HeldBy(maps', call', a) \cap Touched(c, X) :
           /\ Keeps(call', writable', t) =>
                \A u \in HeldBy(maps', call', a) : u = t \/ ForkOf(call', u, t)
           /\ HeldBy(maps', call', a) \subseteq {t}
    <3>1. ASSUME NEW t \in A PROVE A = {t} BY <2>6, <3>1
    <3> QED BY Zenon, <2>10, <3>1
  <2>12. OwnedAt(maps', call', writable', a) BY Zenon, <1>2, <2>11, OwnedTouched
  <2> QED BY Zenon, <2>2, <2>10, <2>12
<1>8. Consistent(pool') BY Zenon, PoolIsConsistent
<1> QED BY Zenon, <1>6, <1>7, <1>8, ExecuteAssemble

LEMMA ExecuteCow ==
    ASSUME IInv, NEW c \in Cpus, Execute(c), call[c].op = "cow"
    PROVE  IInv'
<1>1. PICK a, e : a = call[c].arg /\ e = fc_execute(pool, call[c].op, call[c].arg) OBVIOUS
<1>2. /\ call[c].st = "called" /\ pool' = e.pool /\ call' = [call EXCEPT ![c] = Done(@, e.res)]
      /\ UNCHANGED <<maps, writable>>
  BY <1>1 DEF Execute
<1>3. /\ a \in Frames /\ call[c].m = call[c].n /\ maps[call[c].m] = a /\ call[c].dst = NoFrame
  <2>1. Fits(call[c], maps) /\ call[c] # Idle BY <1>2 DEF IInv, CallsFit, Idle
  <2> QED BY Zenon, <1>1, <1>2, <2>1 DEF Fits
<1>4. e = cow_claim(pool, a) BY <1>1 DEF fc_execute
<1>5. \/ pool.refs[a] <= 1 /\ e.res = COW_SOLE /\ e.pool = pool
      \/ e.res = COW_NO_FRAME /\ e.pool = pool
      \/ e.res \in Frames /\ Takes(pool, e.pool, {e.res})
  BY Zenon, <1>3, <1>4, PoolIsConsistent, CowClaim
<1>6. PICK r, k : r = e.res /\ k = Done(call[c], r) OBVIOUS
<1>7. r \in Nat /\ r \in Frames \union {COW_SOLE, COW_NO_FRAME}
  <2>1. COW_SOLE \in Nat /\ COW_NO_FRAME \in Nat BY DEF COW_SOLE, COW_NO_FRAME
  <2> QED BY Zenon, <1>5, <1>6, <2>1, FramesAreNat
<1>8. Effect(c, k, {call[c].m, call[c].n}, r) BY Zenon, <1>2, <1>6, <1>7, ExecuteActs
<1>9. /\ k.st = "done" /\ k.op = "cow" /\ k.dst = NoFrame /\ k.res = r /\ k.m = k.n
      /\ k.arg = a /\ maps[k.m] = a /\ k.m = call[c].m
  BY Zenon, <1>1, <1>3, <1>8 DEF Effect
<1>10. Fits(k, maps) BY Zenon, <1>3, <1>7, <1>9 DEF Fits
<1>11. CASE r = COW_SOLE /\ pool.refs[a] <= 1 /\ e.pool = pool
  BY Zenon, <1>1, <1>2, <1>3, <1>8, <1>10, <1>11, ExecuteSole
<1>12. CASE r = COW_NO_FRAME /\ e.pool = pool
  BY Zenon, <1>2, <1>3, <1>8, <1>10, <1>12, ExecuteNothing
<1>13. CASE r \in Frames /\ Takes(pool, e.pool, {r})
  <2>1. ~Freed(k) /\ \A x : ~Sole(k, x)
    BY Zenon, <1>9, <1>13, FramesAreNat DEF Freed, Sole, COW_SOLE
  <2>2. \A f \in Frames, kind \in Kinds :
           ~Has(call[c], kind, f) /\ (Has(k, kind, f) <=> kind = "new" /\ f \in {r})
    BY Zenon, <1>2, <1>3, <1>9, FramesAreNat DEF Has
  <2>3. {r} \in SUBSET Frames BY Zenon, <1>13
  <2> QED BY Zenon, <1>2, <1>8, <1>10, <1>13, <2>1, <2>2, <2>3, ExecuteClaim
<1> QED BY <1>5, <1>6, <1>11, <1>12, <1>13

(* share: a second reference beside the entry's, for the fork that asked.   *)
LEMMA ExecuteShare ==
    ASSUME IInv, NEW c \in Cpus, Execute(c), call[c].op = "share"
    PROVE  IInv'
<1>1. PICK m, a, e : /\ m = call[c].m /\ a = call[c].arg
                     /\ e = fc_execute(pool, call[c].op, call[c].arg)
  BY Zenon
<1>2. /\ call[c].st = "called" /\ pool' = e.pool /\ call' = [call EXCEPT ![c] = Done(@, e.res)]
      /\ UNCHANGED <<maps, writable>>
  BY <1>1 DEF Execute
<1>3. /\ a \in Frames /\ m # call[c].n /\ maps[m] = a /\ maps[call[c].n] = NoFrame
      /\ call[c].dst = NoFrame
  <2>1. Fits(call[c], maps) /\ call[c] # Idle BY <1>2 DEF IInv, CallsFit, Idle
  <2> QED BY Zenon, <1>1, <1>2, <2>1 DEF Fits
<1>4. e = add_ref(pool, a) BY <1>1 DEF fc_execute
<1>5. \/ e.res = 0 /\ e.pool = pool
      \/ e.res = 1 /\ Gains(pool, e.pool, a)
  BY <1>3, <1>4, PoolIsConsistent, AddRef
<1>6. PICK r, k : r = e.res /\ k = Done(call[c], r) OBVIOUS
<1>7. r \in Nat /\ r \in {0, 1} BY <1>5, <1>6
<1>8. PICK X : X = {call[c].m, call[c].n} BY Zenon
<1>9. Effect(c, k, X, r) BY Zenon, <1>2, <1>6, <1>7, <1>8, ExecuteActs
<1>10. /\ k.st = "done" /\ k.op = "share" /\ k.dst = NoFrame /\ k.res = r /\ k.m = m
       /\ k.n = call[c].n /\ k.arg = a /\ k \in CallType /\ Acts(c, k, X) /\ Alone(c, X)
       /\ X \in SUBSET Mappings /\ m \in X /\ m \in Mappings
  BY Zenon, <1>1, <1>3, <1>8, <1>9 DEF Effect
<1>11. Fits(k, maps) BY Zenon, <1>3, <1>7, <1>10 DEF Fits
<1>12. CASE r = 0 /\ e.pool = pool
  BY Zenon, <1>2, <1>3, <1>9, <1>11, <1>12, ExecuteNothing
<1>13. CASE r = 1 /\ Gains(pool, e.pool, a)
  <2>1. Consistent(pool') BY <1>2, <1>13 DEF Gains
  <2>2. \A f \in Frames, kind \in Kinds :
           ~Has(call[c], kind, f) /\ (Has(k, kind, f) <=> kind = "new" /\ f = a)
    BY Zenon, <1>2, <1>3, <1>10, <1>13, FramesAreNat DEF Has
  <2>3. "new" \in Kinds /\ <<"new", c>> \in Slots BY DEF Kinds, Slots
  <2>4. ~Freed(k) /\ ~Freed(call[c]) /\ \A x : ~Sole(k, x)
    BY SMTT(20), <1>10 DEF Freed, Sole, Effect
  <2>5. ASSUME NEW f \in Frames, f # a
        PROVE  /\ pool'.refs[f] = Cardinality(HeldBy(maps', call', f))
               /\ OwnedAt(maps', call', writable', f)
    <3>1. \A x \in X : maps[x] = f => ~Sole(k, x) /\ ~Freed(k) BY Zenon, <2>4
    <3>2. \A kind \in Kinds : Has(k, kind, f) <=> Has(call[c], kind, f) BY <2>2, <2>5
    <3>3. ~Has(k, "new", f) BY <2>2, <2>3, <2>5
    <3>4. pool'.refs[f] = pool.refs[f] BY <1>2, <1>13, <2>5 DEF Gains
    <3> QED BY Zenon, <1>9, <3>1, <3>2, <3>3, <3>4, ExecuteSame
  <2>6. PICK A : A = HeldBy(maps, call, a) OBVIOUS
  <2>7. PICK B : B = A \union {<<"new", c>>} BY Zenon
  <2>8. pool.refs[a] = Cardinality(A) /\ IsFiniteSet(A) /\ A \subseteq Slots
    BY SMTT(20), <1>3, <2>6, CountsHeld
  <2>9. \A z \in X : <<"entry", z>> \in A <=> maps[z] = a /\ ~(call[c].m = z /\ Freed(call[c]))
    <3>1. \A z \in X : <<"entry", z>> \in HeldBy(maps, call, a) <=>
                         maps[z] = a /\ ~(call[c].m = z /\ Freed(call[c]))
      BY Zenon, <1>3, <1>10, EntriesBefore
    <3> QED BY Zenon, <2>6, <3>1
  <2>10. \A kind \in Kinds : <<kind, c>> \notin A BY <1>3, <2>2, <2>6, OwnSlots
  <2>11. Becomes(c, k, X, a, B)
    <3>1. \A z \in X : <<"entry", z>> \in B <=> maps'[z] = a /\ ~(k.m = z /\ Freed(k))
      BY Zenon, <1>2, <2>4, <2>7, <2>9
    <3>2. \A kind \in Kinds : <<kind, c>> \in B <=> Has(k, kind, a)
      BY <1>3, <2>2, <2>7, <2>10
    <3>3. <<"new", c>> \in Touched(c, X) BY <2>3, SlotsAre
    <3>4. B \in SUBSET Slots BY <2>3, <2>7, <2>8
    <3>5. \A s \in Slots \ Touched(c, X) : s \in B <=> s \in HeldBy(maps, call, a)
      BY <2>6, <2>7, <3>3
    <3> QED BY Zenon, <3>1, <3>2, <3>4, <3>5 DEF Becomes
  <2>12. HeldBy(maps', call', a) = B BY Zenon, <1>3, <1>10, <2>11, HoldersBecome
  <2>13. pool'.refs[a] = Cardinality(B)
    <3>1. Cardinality(B) = Cardinality(A) + 1 BY Zenon, <2>3, <2>7, <2>8, <2>10, FS_AddElement
    <3>2. pool'.refs[a] = pool.refs[a] + 1 BY <1>2, <1>3, <1>13 DEF Gains
    <3> QED BY <2>8, <3>1, <3>2
  <2>14. ASSUME NEW t \in B \cap Touched(c, X), Keeps(call', writable', t), NEW u \in B
         PROVE  u = t \/ ForkOf(call', u, t)
    <3>1. call'[c] = k /\ \A d \in Cpus \ {c} : call'[d] = call[d]
      BY <1>2, <1>6 DEF IInv, TypeOK
    <3>2. t # <<"new", c>>
      <4>1. SUFFICES ASSUME t = <<"new", c>> PROVE FALSE OBVIOUS
      <4>2. t[1] = "new" /\ t[2] = c BY <4>1
      <4>3. call'[c].op = "share" BY Zenon, <1>10, <3>1
      <4>4. Keeps(call', writable', t) BY Zenon, <2>14
      <4> QED BY <4>2, <4>3, <4>4 DEF Keeps
    <3>3. t \in A BY <2>7, <2>14, <3>2
    <3>4. t = <<"entry", m>>
      <4>1. \A kind \in Kinds : t # <<kind, c>> BY <2>10, <3>3
      <4>2. PICK x \in X : t = <<"entry", x>> BY <2>14, <4>1, TouchedIs
      <4>3. maps[x] = a BY <2>9, <3>3, <4>2
      <4>4. x = m BY Zenon, <1>1, <1>3, <1>8, <4>3, FramesAreNat
      <4> QED BY <4>2, <4>4
    <3>5. \A d \in Cpus : ~Sole(call'[d], m)
      BY Zenon, <1>10, <2>4, <3>1 DEF Alone, Sole
    <3>6. m \in writable BY <1>2, <2>14, <3>4, <3>5 DEF Keeps
    <3>7. CASE u = <<"new", c>> BY <1>10, <3>1, <3>4, <3>7 DEF ForkOf
    <3>8. CASE u # <<"new", c>>
      <4>1. u \in A BY <2>7, <3>8
      <4>2. Keeps(call, writable, t) BY <3>4, <3>6 DEF Keeps
      <4>3. u = t \/ ForkOf(call, u, t)
        BY Zenon, <1>3, <2>6, <3>3, <4>1, <4>2 DEF IInv, Owned, OwnedAt
      <4>4. ASSUME ForkOf(call, u, t) PROVE ForkOf(call', u, t)
        <5>1. u \in Slots /\ u[1] = "new" BY <2>8, <4>1, <4>4 DEF ForkOf
        <5>2. PICK d \in Cpus : u = <<"new", d>> BY <5>1 DEF Slots, Kinds
        <5>3. d # c BY <3>8, <5>2
        <5> QED BY <3>1, <4>4, <5>2, <5>3 DEF ForkOf
      <4> QED BY <4>3, <4>4
    <3> QED BY <3>7, <3>8
  <2>15. \E u \in Touched(c, X) : u \in HeldBy(maps, call, a)
    <3>1. <<"entry", m>> \in A BY Zenon, <1>3, <1>10, <2>4, <2>9
    <3>2. <<"entry", m>> \in Touched(c, X) BY <1>10, SlotsAre
    <3> QED BY <2>6, <3>1, <3>2
  <2>16. OwnedAt(maps', call', writable', a)
    BY Zenon, <1>3, <1>10, <2>12, <2>14, <2>15, OwnedTouched
  <2> QED BY Zenon, <1>9, <1>11, <2>1, <2>5, <2>12, <2>13, <2>16, ExecuteAssemble
<1> QED BY Zenon, <1>5, <1>6, <1>12, <1>13

(* free: the reference given up is the one the call held since unmap, or    *)
(* the entry's that a copy-on-write break has copied from.                  *)
LEMMA ExecuteFree ==
    ASSUME IInv, NEW c \in Cpus, Execute(c), call[c].op = "free"
    PROVE  IInv'
<1>1. PICK m, a, e : /\ m = call[c].m /\ a = call[c].arg
                     /\ e = fc_execute(pool, call[c].op, call[c].arg)
  OBVIOUS
<1>2. /\ call[c].st = "called" /\ pool' = e.pool /\ call' = [call EXCEPT ![c] = Done(@, e.res)]
      /\ UNCHANGED <<maps, writable>>
  BY <1>1 DEF Execute
<1>3. /\ a \in Frames /\ m = call[c].n /\ m \in Mappings
      /\ maps[m] = (IF call[c].dst = NoFrame THEN NoFrame ELSE a)
  <2>1. Fits(call[c], maps) /\ call[c] # Idle /\ call[c].m \in Mappings
    BY <1>2 DEF IInv, CallsFit, Idle
  <2> QED BY Zenon, <1>1, <1>2, <2>1 DEF Fits
<1>4. e = release(pool, a) BY <1>1 DEF fc_execute
<1>5. PICK X, x : X = {m} /\ x = IF call[c].dst = NoFrame THEN <<"free", c>> ELSE <<"entry", m>>
  BY Zenon
<1>6. PICK A : A = HeldBy(maps, call, a) OBVIOUS
<1>7. pool.refs[a] = Cardinality(A) /\ IsFiniteSet(A) /\ A \subseteq Slots
  BY Zenon, <1>3, <1>6, CountsHeld
<1>8. ~Freed(call[c]) BY <1>2 DEF Freed
<1>9. \A kind \in Kinds : <<kind, c>> \in A <=> Has(call[c], kind, a) BY <1>3, <1>6, OwnSlots
<1>10. "free" \in Kinds /\ "copy" \in Kinds /\ "new" \in Kinds BY DEF Kinds
<1>11. a # NoFrame BY <1>3, FramesAreNat
<1>12. x \in A
  <2>1. CASE call[c].dst = NoFrame
    <3>1. Has(call[c], "free", a) BY <1>1, <1>2, <2>1 DEF Has
    <3> QED BY <1>5, <1>9, <1>10, <2>1, <3>1
  <2>2. CASE call[c].dst # NoFrame
    <3>1. maps[m] = a BY <1>3, <2>2
    <3>2. \A d \in Cpus : ~(call[d].m = m /\ Freed(call[d]))
      BY Zenon, <1>1, <1>2, <1>8 DEF IInv, OneCall, Freed
    <3>3. EntryHeld(maps, call, m, a) BY <3>1, <3>2 DEF EntryHeld
    <3>4. <<"entry", m>> \in Slots BY <1>3 DEF Slots
    <3> QED BY <1>5, <1>6, <2>2, <3>3, <3>4 DEF HeldBy, Held
  <2> QED BY <2>1, <2>2
<1>13. pool.refs[a] > 0
  <2>1. Cardinality(A) \in Nat /\ Cardinality(A) # 0
    BY <1>7, <1>12, FS_CardinalityType, FS_EmptySet
  <2> QED BY <1>7, <2>1
<1>14. e.res = 0 /\ Loses(pool, e.pool, a) BY <1>3, <1>4, <1>13, PoolIsConsistent, Release
<1>15. PICK r, k : r = e.res /\ k = Done(call[c], r) OBVIOUS
<1>16. X = {call[c].m, call[c].n} BY <1>1, <1>3, <1>5
<1>17. Effect(c, k, X, r)
  <2>1. r \in Nat BY <1>14, <1>15
  <2> QED BY Zenon, <1>2, <1>15, <1>16, <2>1, ExecuteActs
<1>18. /\ k.st = "done" /\ k.op = "free" /\ k.dst = call[c].dst /\ k.m = m
       /\ k.n = m /\ k.arg = a /\ k \in CallType /\ Acts(c, k, X) /\ Alone(c, X)
       /\ X \in SUBSET Mappings
  BY Zenon, <1>1, <1>3, <1>17 DEF Effect
<1>19. Fits(k, maps)
  <2>1. k.dst \in Frames \union {NoFrame} BY <1>18 DEF CallType
  <2> QED BY Zenon, <1>3, <1>18, <2>1 DEF Fits
<1>20. Consistent(pool') BY <1>2, <1>14 DEF Loses
<1>21. ASSUME NEW f \in Frames, f # a
       PROVE  /\ pool'.refs[f] = Cardinality(HeldBy(maps', call', f))
              /\ OwnedAt(maps', call', writable', f)
  <2>1. \A z \in X : maps[z] # f BY <1>3, <1>5, <1>21, FramesAreNat
  <2>2. \A kind \in Kinds : Has(k, kind, f) <=> Has(call[c], kind, f)
    BY Zenon, <1>1, <1>2, <1>18, <1>21 DEF Has
  <2>3. ~Has(k, "new", f) BY Zenon, <1>18 DEF Has
  <2>4. pool'.refs[f] = pool.refs[f] BY <1>2, <1>14, <1>21 DEF Loses
  <2>5. \A z \in X : maps[z] = f => ~Sole(k, z) /\ ~Freed(k) BY <2>1
  <2> QED BY Zenon, <1>17, <2>2, <2>3, <2>4, <2>5, ExecuteSame
<1>22. PICK B : B = A \ {x} BY Zenon
<1>23. x \in Touched(c, X) BY <1>3, <1>5 DEF Touched, Slots, Kinds
<1>24. \A kind \in Kinds : <<kind, c>> \notin B /\ ~Has(k, kind, a)
  <2>1. CASE call[c].dst = NoFrame
    BY Zenon, <1>2, <1>5, <1>9, <1>11, <1>18, <1>22, <2>1 DEF Has
  <2>2. CASE call[c].dst # NoFrame
    <3>1. call[c].dst # a
      <4>1. SUFFICES ASSUME call[c].dst = a PROVE FALSE OBVIOUS
      <4>2. <<"copy", c>> \in A BY <1>2, <1>9, <1>10, <4>1 DEF Has
      <4>3. Keeps(call, writable, <<"copy", c>>) BY DEF Keeps
      <4>4. <<"entry", m>> \in A BY <1>5, <1>12, <2>2
      <4>5. <<"entry", m>> = <<"copy", c>> \/ ForkOf(call, <<"entry", m>>, <<"copy", c>>)
        BY Zenon, <1>3, <1>6, <4>2, <4>3, <4>4 DEF IInv, Owned, OwnedAt
      <4> QED BY <4>5 DEF ForkOf
    <3> QED BY Zenon, <1>2, <1>5, <1>9, <1>18, <1>22, <2>2, <3>1 DEF Has
  <2> QED BY SMTT(20), <2>1, <2>2
<1>25. <<"entry", m>> \notin B /\ ~(maps'[m] = a /\ ~Freed(k))
  <2>1. CASE call[c].dst = NoFrame
    <3>1. maps[m] # a BY <1>3, <1>11, <2>1
    <3>2. <<"entry", m>> \notin HeldBy(maps, call, a) BY <3>1 DEF HeldBy, Held, EntryHeld
    <3> QED BY <1>2, <1>6, <1>22, <3>1, <3>2
  <2>2. CASE call[c].dst # NoFrame
    BY <1>5, <1>18, <1>22, <2>2 DEF Freed
  <2> QED BY <2>1, <2>2
<1>26. Becomes(c, k, X, a, B)
  <2>1. \A z \in X : <<"entry", z>> \in B <=> maps'[z] = a /\ ~(k.m = z /\ Freed(k))
    BY Zenon, <1>5, <1>18, <1>25
  <2>2. \A kind \in Kinds : <<kind, c>> \in B <=> Has(k, kind, a) BY <1>24
  <2>3. B \in SUBSET Slots BY Zenon, <1>7, <1>22
  <2>4. \A s \in Slots \ Touched(c, X) : s \in B <=> s \in HeldBy(maps, call, a)
    BY <1>6, <1>22, <1>23
  <2> QED BY Zenon, <2>1, <2>2, <2>3, <2>4 DEF Becomes
<1>27. HeldBy(maps', call', a) = B BY Zenon, <1>3, <1>18, <1>26, HoldersBecome
<1>28. pool'.refs[a] = Cardinality(B)
  <2>1. Cardinality(B) = Cardinality(A) - 1 BY Zenon, <1>7, <1>12, <1>22, FS_RemoveElement
  <2>2. pool'.refs[a] = pool.refs[a] - 1 BY Zenon, <1>2, <1>3, <1>14 DEF Loses
  <2> QED BY <1>7, <2>1, <2>2
<1>29. \A t \in B : t \notin Touched(c, X)
  <2> SUFFICES ASSUME NEW t \in B, t \in Touched(c, X) PROVE FALSE BY Zenon
  <2>1. (\E z \in X : t = <<"entry", z>>) \/ (\E kind \in Kinds : t = <<kind, c>>) BY TouchedIs
  <2> QED BY Zenon, <1>5, <1>24, <1>25, <2>1
<1>30. OwnedAt(maps', call', writable', a) BY Zenon, <1>3, <1>18, <1>27, <1>29, OwnedTouched
<1> QED BY Zenon, <1>17, <1>19, <1>20, <1>21, <1>27, <1>28, <1>30, ExecuteAssemble

LEMMA ExecuteStep ==
    ASSUME IInv, NEW c \in Cpus, Execute(c)
    PROVE  IInv'
<1>1. call[c].op \in Ops BY DEF IInv, TypeOK
<1> QED BY <1>1, ExecuteAlloc, ExecuteShare, ExecuteFree, ExecuteCow DEF Ops

----------------------------------------------------------------------------
(* The invariant holds initially and every step keeps it.                   *)

LEMMA InitInvariant == ASSUME Init PROVE IInv
<1>1. EmptyPool \in Pool /\ Cardinality({}) = 0 BY PoolAssumption, FS_EmptySet DEF Pool, EmptyPool
<1>2. TypeOK BY <1>1, MappingsAssumption DEF Init, TypeOK, Idle, Ops, NoFrame
<1>3. PoolConsistent
  <2>1. /\ EmptyPool.used = 0 /\ EmptyPool.bitmap = {} /\ EmptyPool.panicked = FALSE
        /\ \A f \in Frames : EmptyPool.refs[f] = 0
    BY DEF EmptyPool
  <2> QED BY <1>1, <2>1 DEF Init, PoolConsistent
<1>4. \A c \in Cpus : call[c] = Idle BY DEF Init
<1>5. \A f \in Frames : HeldBy(maps, call, f) = {}
  <2> SUFFICES ASSUME NEW f \in Frames, NEW s \in Slots PROVE ~Held(maps, call, f, s)
    BY DEF HeldBy
  <2>1. CASE s \in {"entry"} \X Mappings
    BY <2>1, FramesAreNat DEF Init, Held, EntryHeld
  <2>2. CASE s \in Kinds \X Cpus
    <3>1. PICK kind \in Kinds, c \in Cpus : s = <<kind, c>> BY <2>2
    <3>2. s[1] # "entry" /\ s[1] = kind /\ s[2] = c BY <3>1 DEF Kinds
    <3>3. ~Has(Idle, kind, f) BY DEF Has, Idle
    <3> QED BY <1>4, <3>2, <3>3 DEF Held
  <2> QED BY <2>1, <2>2 DEF Slots
<1>6. RefsAreHolders
  <2>1. \A f \in Frames : pool.refs[f] = 0 BY DEF Init, EmptyPool
  <2>2. ASSUME NEW f \in Frames PROVE Holders(f) = {} BY <1>2, <1>5, <2>2, HoldersAre DEF HeldBy
  <2> QED BY <1>1, <2>1, <2>2 DEF RefsAreHolders
<1>7. OneCall /\ CallsFit /\ BreaksReadOnly /\ WritableMapped
  BY Zenon, <1>4 DEF OneCall, CallsFit, BreaksReadOnly, WritableMapped, Fits, Idle, Init
<1>8. Owned BY <1>5 DEF Owned, OwnedAt
<1> QED BY <1>2, <1>3, <1>6, <1>7, <1>8 DEF IInv

LEMMA NextInvariant == ASSUME IInv, [Next]_vars PROVE IInv'
<1>1. ASSUME NEW c \in Cpus, Call(c), UNCHANGED pool PROVE IInv'
  BY <1>1, StartCalls, UnmapStep, SecondCalls DEF Call
<1>2. ASSUME NEW c \in Cpus, Return(c), UNCHANGED pool PROVE IInv'
  BY <1>2, ReturnStep
<1>3. ASSUME NEW c \in Cpus, Execute(c) PROVE IInv' BY <1>3, ExecuteStep
<1>4. ASSUME UNCHANGED vars PROVE IInv'
  <2>1. UNCHANGED <<pool, maps, writable, call>> BY <1>4 DEF vars
  <2>2. TypeOK' /\ PoolConsistent' BY Zenon, <2>1 DEF IInv, TypeOK, PoolConsistent
  <2>3. RefsAreHolders'
    <3>1. \A f : Holders(f)' = Holders(f) BY Zenon, <2>1 DEF Holders, BreakFreed
    <3> QED BY Zenon, <2>1, <3>1 DEF IInv, RefsAreHolders
  <2>4. OneCall' /\ CallsFit' /\ BreaksReadOnly' /\ WritableMapped'
    BY Zenon, <2>1 DEF IInv, OneCall, CallsFit, BreaksReadOnly, WritableMapped
  <2>5. Owned' BY <2>1 DEF IInv, Owned
  <2> QED BY <2>2, <2>3, <2>4, <2>5 DEF IInv
<1> QED BY <1>1, <1>2, <1>3, <1>4 DEF Next

LEMMA Invariant == Spec => []IInv
BY InitInvariant, NextInvariant, PTL DEF Spec

----------------------------------------------------------------------------
(* The theorems.                                                            *)

(* The bitmap, the counts, the mappings and the calls in progress always    *)
(* have their types: frames.rs's one-byte counts never pass SHARE_MAX.      *)
THEOREM PoolTyped == Spec => []TypeOK
BY Invariant, PTL DEF IInv

(* frames.rs, used_matches_bitmap: whatever the CPUs call and in whichever  *)
(* order, USED counts the bitmap, a bit is set exactly when the frame is    *)
(* referenced, and release never meets a frame that is already free.        *)
THEOREM PoolStaysConsistent == Spec => []PoolConsistent
BY Invariant, PTL DEF IInv

(* frames.rs, SHARED: the count of every frame is the number of entries and *)
(* calls that hold it, so that none is leaked and none freed while held,    *)
(* among callers that take a reference with every mapping.                  *)
THEOREM CountsAreHolders == Spec => []RefsAreHolders
BY Invariant, PTL DEF IInv

(* mm/mod.rs, fork_leaf and break_cow: a page that may be written is mapped *)
(* nowhere else, but by an entry whose own break has already copied it.     *)
THEOREM WritablePagesArePrivate == Spec => []WritableIsPrivate
<1>1. ASSUME IInv PROVE WritableIsPrivate
  <2> SUFFICES ASSUME NEW m \in writable, NEW n \in Mappings \ {m}, maps[n] = maps[m]
               PROVE  \E c \in Cpus : call[c].m = n /\ BreakFreed(c)
    BY DEF WritableIsPrivate
  <2>1. SUFFICES ASSUME \A c \in Cpus : ~(call[c].m = n /\ BreakFreed(c)) PROVE FALSE
    OBVIOUS
  <2>2. PICK f : f = maps[m] OBVIOUS
  <2>3. m \in Mappings /\ f \in Frames BY <1>1, <2>2 DEF IInv, TypeOK, WritableMapped
  <2>4. <<"entry", n>> \in HeldBy(maps, call, f)
    BY <2>1, <2>2 DEF HeldBy, Held, EntryHeld, Slots, Freed, BreakFreed
  <2>5. <<"entry", m>> \in HeldBy(maps, call, f)
    <3>1. \A c \in Cpus : ~(call[c].m = m /\ Freed(call[c]))
      BY <1>1 DEF IInv, BreaksReadOnly, Freed
    <3> QED BY <2>2, <2>3, <3>1 DEF HeldBy, Held, EntryHeld, Slots
  <2>6. Keeps(call, writable, <<"entry", m>>) BY DEF Keeps
  <2>7. OwnedAt(maps, call, writable, f) BY <1>1, <2>3 DEF IInv, Owned
  <2>8. <<"entry", n>> = <<"entry", m>> \/ ForkOf(call, <<"entry", n>>, <<"entry", m>>)
    BY <2>4, <2>5, <2>6, <2>7 DEF OwnedAt
  <2> QED BY <2>8 DEF ForkOf
<1> QED BY <1>1, Invariant, PTL
=============================================================================
