--------------------------- MODULE VaSpaceProofs ---------------------------
(***************************************************************************)
(* The address-space allocator never lets two regions overlap, for every   *)
(* size of the space, of the guards and of the table, and every request.   *)
(***************************************************************************)
EXTENDS VaSpace, TLAPS

\* A table whose regions are disjoint, inside the user range and all below hw.
InRange(r) == VA_FLOOR <= r.base /\ end(r) <= USER_VA_TOP

Apart(r, s) == end(r) <= s.base \/ end(s) <= r.base

Sound(table, hw) ==
    /\ table \in [Slots -> Region]
    /\ \A i \in Slots : live(table[i]) => i < hw /\ InRange(table[i])
    /\ \A i, j \in Slots : live(table[i]) /\ live(table[j]) /\ i # j
                              => Apart(table[i], table[j])

Counters ==
    /\ capacity \in 0 .. MaxRecords
    /\ high_water \in 0 .. capacity
    /\ top \in 0 .. USER_VA_TOP
    /\ hint \in VA_FLOOR .. USER_VA_TOP

\* The inductive invariant.  No overlap alone is not inductive: a live region
\* above the high water mark would be invisible to the scan that places the next.
IInv == Counters /\ Sound(regions, high_water)

\* The inductive invariant is the type invariant with the two safety invariants.
LEMMA IInvIsInv == IInv <=> TypeOK /\ NoneForgotten /\ NoOverlap
  BY Zenon DEF IInv, Counters, Sound, TypeOK, NoneForgotten, NoOverlap, InRange, Apart

\* A table of free records is sound.
LEMMA EmptySound ==
  ASSUME NEW hw \in Nat
  PROVE  Sound([i \in Slots |-> FREE], hw)
  <1>1. FREE \in Region /\ ~live(FREE)
    BY DEF FREE, Region, RegionKind, live
  <1> QED
    BY <1>1 DEF Sound

\* Writing a region that meets none into a slot that is free keeps a table sound.
LEMMA PutSound ==
  ASSUME NEW table, NEW hw \in Nat, NEW hw2 \in Nat, NEW s \in Slots, NEW r \in Region,
         Sound(table, hw), hw <= hw2, s < hw2, ~live(table[s]), InRange(r), 
         \A i \in Slots : live(table[i]) => Apart(table[i], r)
  PROVE  Sound([table EXCEPT ![s] = r], hw2)
  <1> DEFINE t2 == [table EXCEPT ![s] = r]
  <1>1. /\ t2 \in [Slots -> Region]
        /\ t2[s] = r
        /\ \A i \in Slots : i # s => t2[i] = table[i]
    BY DEF Sound
  <1>2. \A i \in Slots : live(t2[i]) => i < hw2 /\ InRange(t2[i])
    BY <1>1 DEF Sound, Slots
  <1>3. ASSUME NEW i \in Slots, NEW j \in Slots, live(t2[i]), live(t2[j]), i # j
        PROVE  Apart(t2[i], t2[j])
    <2>1. CASE i = s
      BY <1>1, <1>3, <2>1 DEF Apart
    <2>2. CASE j = s
      BY <1>1, <1>3, <2>2 DEF Apart
    <2>3. CASE i # s /\ j # s
      BY <1>1, <1>3, <2>3 DEF Sound
    <2> QED
      BY <2>1, <2>2, <2>3
  <1> HIDE DEF t2
  <1>4. Sound(t2, hw2)
    BY <1>1, <1>2, <1>3 DEF Sound
  <1> QED
    BY <1>4 DEF t2

\* Regions that only shrink, in the slots they had, stay sound.
LEMMA ShrinkSound ==
  ASSUME NEW table, NEW t2 \in [Slots -> Region], NEW hw \in Nat, Sound(table, hw),
         \A i \in Slots : live(t2[i]) => /\ live(table[i])
                                         /\ table[i].base <= t2[i].base
                                         /\ end(t2[i]) <= end(table[i])
  PROVE  Sound(t2, hw)
  <1>1. \A i \in Slots : /\ table[i].base \in Nat /\ end(table[i]) \in Nat
                         /\ t2[i].base \in Nat /\ end(t2[i]) \in Nat
    BY DEF Sound, Region, end
  <1>2. \A i \in Slots : live(t2[i]) => i < hw /\ InRange(t2[i])
    BY <1>1, VaSpaceConstants DEF Sound, InRange
  <1>3. ASSUME NEW i \in Slots, NEW j \in Slots, live(t2[i]), live(t2[j]), i # j
        PROVE  Apart(t2[i], t2[j])
    BY <1>1, <1>3 DEF Sound, Apart
  <1> QED
    BY <1>2, <1>3 DEF Sound

\* A region probed free by a scan is apart from every live region.
LEMMA FreeIsApart ==
  ASSUME IInv, NEW lo \in Nat, NEW hi \in Nat, NEW r \in Region, span_free(lo, hi),
         lo <= r.base, end(r) <= hi, NEW i \in Slots, live(regions[i]), live(r)
  PROVE  Apart(regions[i], r)
  <1>1. i \in Iter /\ regions[i] \in Region
    BY DEF IInv, Sound, Iter
  <1>2. ~Meets(regions[i], lo, hi)
    BY <1>1 DEF span_free
  <1> QED
    BY <1>1, <1>2 DEF Meets, Apart, Region, end, live

\* insert keeps the invariant of the table it writes to and of the counters.
LEMMA InsertSound ==
  ASSUME IInv, NEW table, Sound(table, high_water), NEW r \in Region, InRange(r),
         \A i \in Slots : live(table[i]) => live(regions[i]),
         \A i \in Slots : live(table[i]) => Apart(table[i], r),
         insert(table, r)
  PROVE  /\ Sound(regions', high_water')
         /\ capacity' \in 0 .. MaxRecords
         /\ high_water' \in 0 .. capacity'
  <1>0. /\ MaxRecords \in Nat /\ capacity \in 0 .. MaxRecords
        /\ high_water \in 0 .. capacity
    BY VaSpaceConstants DEF IInv, Counters
  <1>1. CASE \E i \in FreeSlots : /\ regions' = [table EXCEPT ![i] = r]
                                  /\ UNCHANGED <<capacity, high_water>>
    <2>1. PICK i \in FreeSlots : /\ regions' = [table EXCEPT ![i] = r]
                                 /\ UNCHANGED <<capacity, high_water>>
      BY <1>1
    <2>2. i \in Slots /\ i < high_water /\ ~live(table[i])
      BY <2>1 DEF FreeSlots
    <2>3. Sound([table EXCEPT ![i] = r], high_water)
      BY <1>0, <2>2, PutSound
    <2> QED
      BY <1>0, <2>1, <2>3
  <1>2. CASE /\ high_water < MaxRecords
             /\ regions' = [table EXCEPT ![high_water] = r]
             /\ high_water' = high_water + 1
             /\ capacity' = MaxOf(capacity, high_water + 1)
    <2>1. high_water \in Slots /\ high_water < high_water + 1 /\ high_water <= high_water + 1
      BY <1>0, <1>2 DEF Slots
    <2>2. ~live(table[high_water])
      BY <1>0, <2>1 DEF Sound
    <2>3. Sound([table EXCEPT ![high_water] = r], high_water + 1)
      BY <1>0, <2>1, <2>2, PutSound
    <2>4. capacity' \in 0 .. MaxRecords /\ high_water' \in 0 .. capacity'
      BY <1>0, <1>2 DEF MaxOf
    <2> QED
      BY <1>2, <2>3, <2>4
  <1> QED
    BY <1>1, <1>2 DEF insert

\* What is left of a region after a cut lies within it.
LEMMA CutShrinks ==
  ASSUME NEW r \in Region, NEW lo \in Nat, NEW hi \in Nat, lo <= hi
  PROVE  /\ Cut(r, lo, hi) \in Region
         /\ live(Cut(r, lo, hi)) => /\ live(r)
                                    /\ r.base <= Cut(r, lo, hi).base
                                    /\ end(Cut(r, lo, hi)) <= end(r)
  BY DEF Cut, Region, RegionKind, live, Meets, end, Head, Tail, Placed, FREE

LEMMA TrimmedSound ==
  ASSUME IInv, NEW lo \in Nat, NEW hi \in Nat, lo <= hi
  PROVE  /\ Sound(Trimmed(lo, hi), high_water)
         /\ \A i \in Slots : live(Trimmed(lo, hi)[i]) =>
               /\ live(regions[i])
               /\ regions[i].base <= Trimmed(lo, hi)[i].base
               /\ end(Trimmed(lo, hi)[i]) <= end(regions[i])
  <1>1. \A i \in Slots : regions[i] \in Region
    BY DEF IInv, Sound
  <1>2. \A i \in Slots : regions[i].base <= regions[i].base /\ end(regions[i]) <= end(regions[i])
    BY <1>1 DEF Region, end
  <1>3. Trimmed(lo, hi) \in [Slots -> Region]
    BY <1>1, CutShrinks DEF Trimmed
  <1>4. \A i \in Slots : live(Trimmed(lo, hi)[i]) =>
               /\ live(regions[i])
               /\ regions[i].base <= Trimmed(lo, hi)[i].base
               /\ end(Trimmed(lo, hi)[i]) <= end(regions[i])
    BY <1>1, <1>2, CutShrinks DEF Trimmed
  <1>5. high_water \in Nat
    BY VaSpaceConstants DEF IInv, Counters
  <1>6. Sound(Trimmed(lo, hi), high_water)
    BY <1>3, <1>4, <1>5, ShrinkSound DEF IInv
  <1> QED
    BY <1>4, <1>6

\* The tail of the region a hole is made in is apart from what the hole leaves.
LEMMA TailApart ==
  ASSUME IInv, NEW lo \in Nat, NEW hi \in Nat, lo <= hi, NEW i \in Straddlers(lo, hi)
  PROVE  /\ Tail(regions[i], hi) \in Region
         /\ InRange(Tail(regions[i], hi))
         /\ \A j \in Slots : live(Trimmed(lo, hi)[j]) =>
                              Apart(Trimmed(lo, hi)[j], Tail(regions[i], hi))
  <1> DEFINE r == regions[i]
             t == Tail(r, hi)
  <1>1. /\ i \in Slots /\ i < high_water /\ live(r) /\ r \in Region /\ r.base < lo /\ hi < end(r)
        /\ InRange(r)
    BY DEF Straddlers, Iter, IInv, Sound, Region, end
  <1>2. /\ t \in Region /\ t.base = hi /\ end(t) = end(r) /\ r.base <= t.base
    BY <1>1 DEF Tail, Placed, Region, end
  <1>3. InRange(t)
    BY <1>1, <1>2, VaSpaceConstants DEF InRange, Region
  <1>4. ASSUME NEW j \in Slots, live(Trimmed(lo, hi)[j])
        PROVE  Apart(Trimmed(lo, hi)[j], t)
    <2> DEFINE c == Trimmed(lo, hi)[j]
    <2>1. /\ c \in Region /\ live(regions[j]) /\ regions[j].base <= c.base
          /\ end(c) <= end(regions[j]) /\ regions[j] \in Region
      BY <1>4, TrimmedSound DEF Sound, IInv
    <2>2. CASE j = i
      <3>1. c = Head(r, lo)
        BY <1>1, <2>2 DEF Trimmed, Cut, Meets, Region, end
      <3>2. end(c) = lo
        BY <1>1, <3>1 DEF Head, Placed, Region, end
      <3> QED
        BY <1>2, <3>2 DEF Apart
    <2>3. CASE j # i
      <3>1. Apart(regions[j], r)
        BY <1>1, <2>1, <2>3 DEF IInv, Sound, Apart
      <3>2. /\ end(regions[j]) \in Nat /\ regions[j].base \in Nat /\ end(c) \in Nat /\ c.base \in Nat
            /\ end(r) \in Nat /\ r.base \in Nat
        BY <1>1, <2>1 DEF Region, end
      <3> HIDE DEF c, t, r
      <3>3. Apart(c, t)
        BY <1>2, <2>1, <3>1, <3>2 DEF Apart
      <3> QED
        BY <3>3 DEF c, t
    <2> QED
      BY <2>2, <2>3
  <1> QED
    BY <1>2, <1>3, <1>4

-----------------------------------------------------------------------------

\* A region placed in a free span keeps the invariant of the table.
LEMMA PlaceSound ==
  ASSUME IInv, NEW base \in Nat, NEW len \in Nat, len # 0, NEW kind \in RegionKind,
         NEW lo \in Nat, NEW hi \in Nat, lo <= base, base + len <= hi, span_free(lo, hi),
         VA_FLOOR <= base, base + len <= USER_VA_TOP,
         insert(regions, Placed(base, len, kind))
  PROVE  /\ Sound(regions', high_water')
         /\ capacity' \in 0 .. MaxRecords
         /\ high_water' \in 0 .. capacity'
  <1> DEFINE r == Placed(base, len, kind)
  <1>1. r \in Region /\ InRange(r) /\ live(r) /\ r.base = base /\ end(r) = base + len
    BY DEF Placed, Region, InRange, live, end
  <1> HIDE DEF r
  <1>2. \A i \in Slots : live(regions[i]) => Apart(regions[i], r)
    BY <1>1, FreeIsApart
  <1>3. insert(regions, r)
    BY DEF r
  <1> QED
    BY <1>1, <1>2, <1>3, InsertSound DEF IInv

LEMMA LoweredType ==
  ASSUME IInv, NEW page \in Nat
  PROVE  Lowered(page) \in VA_FLOOR .. USER_VA_TOP
  BY VaSpaceConstants DEF IInv, Counters, Lowered, MaxOf

LEMMA ProbeFacts ==
  ASSUME NEW base \in Nat, NEW len \in Nat, VA_FLOOR <= base
  PROVE  /\ ProbeBase(base) \in Nat /\ ProbeBase(base) <= base
         /\ ProbeEnd(base, len) \in Nat /\ base + len <= ProbeEnd(base, len)
  BY VaSpaceConstants DEF ProbeBase, ProbeEnd, MaxOf

LEMMA InitIInv == Init => IInv
  BY EmptySound, VaSpaceConstants DEF Init, IInv, Counters

LEMMA StepIInv ==
  ASSUME IInv, [Next]_vars
  PROVE  IInv'
  <1> USE VaSpaceConstants
  <1>0. /\ MaxRecords \in Nat /\ capacity \in Nat /\ high_water \in Nat /\ top \in Nat
        /\ top <= USER_VA_TOP /\ hint \in Nat /\ hint <= USER_VA_TOP
    BY DEF IInv, Counters
  <1>1. ASSUME NEW len \in Lengths, NEW align \in Aligns, reserve(len, align)
        PROVE  IInv'
    <2>1. PICK base \in VA_FLOOR .. (USER_VA_TOP - 1) :
             /\ ProbeEnd(base, len) <= MaxOf(top, hint)
             /\ span_free(ProbeBase(base), ProbeEnd(base, len))
             /\ insert(regions, Placed(base, len, "placed"))
             /\ hint' = ProbeEnd(base, len)
      BY <1>1 DEF reserve
    <2>2. /\ len \in Nat /\ len # 0 /\ base \in Nat /\ VA_FLOOR <= base /\ top' = top
          /\ "placed" \in RegionKind
      BY <1>0, <1>1, <2>1 DEF reserve, RegionKind
    <2>3. base + len <= USER_VA_TOP /\ hint' \in VA_FLOOR .. USER_VA_TOP
      <3>1. MaxOf(top, hint) <= USER_VA_TOP /\ MaxOf(top, hint) \in Nat
        BY <1>0 DEF MaxOf
      <3>2. ProbeEnd(base, len) \in Nat /\ base + len <= ProbeEnd(base, len)
        BY <2>2, ProbeFacts
      <3>3. ProbeEnd(base, len) <= USER_VA_TOP
        BY <2>1, <3>1, <3>2
      <3> QED
        BY <2>1, <2>2, <3>2, <3>3
    <2>4. /\ Sound(regions', high_water') /\ capacity' \in 0 .. MaxRecords
          /\ high_water' \in 0 .. capacity'
      BY <2>1, <2>2, <2>3, ProbeFacts, PlaceSound
    <2> QED
      BY <1>0, <2>2, <2>3, <2>4 DEF IInv, Counters
  <1>2. ASSUME NEW w \in Windows, NEW len \in Lengths, NEW align \in Aligns,
               reserve_in(w, len, align)
        PROVE  IInv'
    <2> DEFINE lo == MaxOf(w.lo, VA_FLOOR)
               hi == MinOf(w.hi, top)
    <2>0. lo \in Nat /\ VA_FLOOR <= lo /\ hi \in Nat /\ hi <= top
      BY <1>0 DEF MaxOf, MinOf
    <2>1. PICK base \in lo .. (hi - 1) :
             /\ base + len <= hi
             /\ span_free(ProbeBase(base), ProbeEnd(base, len))
             /\ insert(regions, Placed(base, len, "placed"))
      BY <1>2 DEF reserve_in
    <2> HIDE DEF lo, hi
    <2>2. /\ len \in Nat /\ len # 0 /\ base \in Nat /\ VA_FLOOR <= base
          /\ top' = top /\ hint' = hint /\ "placed" \in RegionKind
      BY <1>0, <1>2, <2>0, <2>1 DEF reserve_in, RegionKind
    <2>3. base + len <= USER_VA_TOP
      BY <1>0, <2>0, <2>1, <2>2
    <2>4. /\ Sound(regions', high_water') /\ capacity' \in 0 .. MaxRecords
          /\ high_water' \in 0 .. capacity'
      BY <2>1, <2>2, <2>3, ProbeFacts, PlaceSound
    <2> QED
      BY <2>2, <2>4 DEF IInv, Counters
  <1>3. ASSUME NEW base \in Pages, NEW len \in Lengths, reserve_fixed(base, len)
        PROVE  IInv'
    <2>1. /\ len \in Nat /\ len # 0 /\ base \in Nat /\ VA_FLOOR <= base
          /\ base + len <= USER_VA_TOP /\ span_free(base, base + len)
          /\ insert(regions, Placed(base, len, "fixed"))
          /\ top' = top /\ hint' = hint /\ "fixed" \in RegionKind
      BY <1>0, <1>3 DEF reserve_fixed, Pages, RegionKind
    <2>2. /\ Sound(regions', high_water') /\ capacity' \in 0 .. MaxRecords
          /\ high_water' \in 0 .. capacity'
      BY <2>1, PlaceSound
    <2> QED
      BY <2>1, <2>2 DEF IInv, Counters
  <1>4. ASSUME NEW i \in Slots, release_at(i)
        PROVE  IInv'
    <2>1. FREE \in Region /\ ~live(FREE)
      BY DEF FREE, Region, RegionKind, live
    <2>2. /\ regions' \in [Slots -> Region]
          /\ \A j \in Slots : live(regions'[j]) => regions'[j] = regions[j]
      BY <1>4, <2>1 DEF release_at, IInv, Sound
    <2>3. \A j \in Slots : regions[j].base <= regions[j].base /\ end(regions[j]) <= end(regions[j])
      BY DEF IInv, Sound, Region, end
    <2>4. Sound(regions', high_water)
      BY <1>0, <2>2, <2>3, ShrinkSound DEF IInv
    <2>5. regions[i].base \in Nat
      BY DEF IInv, Sound, Region
    <2>6. hint' \in VA_FLOOR .. USER_VA_TOP
      BY <1>4, <2>5, LoweredType DEF release_at
    <2> QED
      BY <1>4, <2>4, <2>6 DEF release_at, IInv, Counters
  <1>5. ASSUME NEW lo \in Pages, NEW len \in Lengths, release_range(lo, len)
        PROVE  IInv'
    <2> DEFINE hi == lo + len
    <2>1. lo \in Nat /\ len \in Nat /\ hi \in Nat /\ lo <= hi
      BY DEF Pages
    <2>2. hint' \in VA_FLOOR .. USER_VA_TOP /\ top' = top
      BY <1>5, <2>1, LoweredType DEF release_range
    <2>3. CASE regions' = Trimmed(lo, hi) /\ UNCHANGED <<capacity, high_water>>
      <3>1. Sound(regions', high_water')
        BY <2>1, <2>3, TrimmedSound
      <3> QED
        BY <2>2, <2>3, <3>1 DEF IInv, Counters
    <2>4. CASE \E i \in Straddlers(lo, hi) : insert(Trimmed(lo, hi), Tail(regions[i], hi))
      <3>1. PICK i \in Straddlers(lo, hi) : insert(Trimmed(lo, hi), Tail(regions[i], hi))
        BY <2>4
      <3>2. /\ Sound(regions', high_water') /\ capacity' \in 0 .. MaxRecords
            /\ high_water' \in 0 .. capacity'
        BY <2>1, <3>1, TrimmedSound, TailApart, InsertSound
      <3> QED
        BY <2>2, <3>2 DEF IInv, Counters
    <2>5. CASE UNCHANGED <<regions, capacity, high_water>>
      BY <2>2, <2>5 DEF IInv, Counters
    <2> QED
      BY <1>5, <2>3, <2>4, <2>5 DEF release_range
  <1>6. ASSUME NEW want \in 0 .. MaxRecords, fund(want)
        PROVE  IInv'
    BY <1>0, <1>6 DEF fund, IInv, Counters, MaxOf
  <1>7. ASSUME NEW page \in Ceilings, set_ceiling(page)
        PROVE  IInv'
    BY <1>0, <1>7 DEF set_ceiling, IInv, Counters, MinOf
  <1>8. CASE clear
    <2>1. FREE \in Region /\ ~live(FREE)
      BY DEF FREE, Region, RegionKind, live
    <2>2. regions' \in [Slots -> Region] /\ \A i \in Slots : ~live(regions'[i])
      BY <1>8, <2>1 DEF clear, IInv, Sound
    <2>3. Sound(regions', high_water')
      BY <2>2 DEF Sound
    <2> QED
      BY <1>0, <1>8, <2>3 DEF clear, IInv, Counters
  <1>9. CASE release
    BY <1>0, <1>9, EmptySound DEF release, IInv, Counters
  <1>10. CASE init
    BY <1>0, <1>10, EmptySound DEF init, IInv, Counters
  <1>11. CASE UNCHANGED vars
    BY <1>11 DEF vars, IInv, Counters
  <1> QED
    BY <1>1, <1>2, <1>3, <1>4, <1>5, <1>6, <1>7, <1>8, <1>9, <1>10, <1>11 DEF Next

\* The invariant holds in every reachable state.
LEMMA AlwaysIInv == Spec => []IInv
  BY InitIInv, StepIInv, PTL DEF Spec

\* The table, its counters, the ceiling and the hint keep their types.
THEOREM TypeCorrect == Spec => []TypeOK
  <1>1. IInv => TypeOK
    BY IInvIsInv
  <1> QED
    BY <1>1, AlwaysIInv, PTL

\* No live record is ever out of the scans' sight (vaspace.rs:185).
THEOREM NeverForgotten == Spec => []NoneForgotten
  <1>1. IInv => NoneForgotten
    BY IInvIsInv
  <1> QED
    BY <1>1, AlwaysIInv, PTL

\* "Overlap becomes impossible" (vaspace.rs:47): for any size of the space, of
\* the guards and of the table, whatever is asked for.
THEOREM NeverOverlap == Spec => []NoOverlap
  <1>1. IInv => NoOverlap
    BY IInvIsInv
  <1> QED
    BY <1>1, AlwaysIInv, PTL

-----------------------------------------------------------------------------
(* Guard gaps *)

\* A span within a live region is not free.
LEMMA WithinIsTaken ==
  ASSUME IInv, NEW i \in Slots, live(regions[i]), NEW r \in Region, live(r),
         regions[i].base <= r.base, end(r) <= end(regions[i])
  PROVE  ~span_free(r.base, end(r))
  <1>1. i \in Iter /\ regions[i] \in Region
    BY DEF IInv, Sound, Iter
  <1>2. Meets(regions[i], r.base, end(r))
    BY <1>1 DEF Meets, Region, end, live
  <1> QED
    BY <1>1, <1>2 DEF span_free

\* Where insert writes, and that it writes nowhere else.
LEMMA InsertPlace ==
  ASSUME IInv, NEW table, table \in [Slots -> Region], NEW r \in Region, insert(table, r)
  PROVE  \E s \in Slots : /\ ~live(regions[s])
                          /\ regions'[s] = r
                          /\ \A i \in Slots : i # s => regions'[i] = table[i]
  <1>1. CASE \E i \in FreeSlots : regions' = [table EXCEPT ![i] = r]
    BY <1>1 DEF FreeSlots
  <1>2. CASE /\ high_water < MaxRecords
             /\ regions' = [table EXCEPT ![high_water] = r]
    <2>1. high_water \in Slots
      BY <1>2, VaSpaceConstants DEF IInv, Counters, Slots
    <2>2. ~live(regions[high_water])
      BY <2>1, VaSpaceConstants DEF IInv, Counters, Sound
    <2> QED
      BY <1>2, <2>1, <2>2
  <1> QED
    BY <1>1, <1>2 DEF insert

\* Placing a region with its probe free is a guarded step.
LEMMA PlaceGuarded ==
  ASSUME IInv, NEW base \in Nat, NEW len \in Nat, len # 0, VA_FLOOR <= base,
         hint <= top => base + len <= top, span_free(ProbeBase(base), ProbeEnd(base, len)),
         insert(regions, Placed(base, len, "placed"))
  PROVE  GuardedStep
  <1> DEFINE n == Placed(base, len, "placed")
  <1>0. regions \in [Slots -> Region]
    BY DEF IInv, Sound
  <1>1. n \in Region /\ live(n) /\ n.base = base /\ end(n) = base + len
    BY DEF Placed, Region, RegionKind, live, end
  <1>2. PICK s \in Slots : /\ regions'[s] = n
                           /\ \A i \in Slots : i # s => regions'[i] = regions[i]
    BY <1>0, <1>1, InsertPlace
  <1> HIDE DEF n
  <1>3. ASSUME NEW j \in Slots, live(regions[j])
        PROVE  ~Meets(regions[j], base - GUARD_PAGES, base + len + GUARD_PAGES)
    <2>1. j \in Iter /\ regions[j] \in Region /\ VA_FLOOR <= regions[j].base
      BY <1>3 DEF IInv, Sound, Iter, InRange
    <2>2. ~Meets(regions[j], ProbeBase(base), ProbeEnd(base, len))
      BY <2>1 DEF span_free
    <2> QED
      BY <1>3, <2>1, <2>2, VaSpaceConstants
      DEF Meets, ProbeBase, ProbeEnd, MaxOf, Region, end, live
  <1>4. ASSUME NEW i \in Slots, live(regions'[i]), span_free(regions'[i].base, end(regions'[i]))
        PROVE  i = s
    <2> SUFFICES ASSUME i # s PROVE FALSE
      OBVIOUS
    <2>1. regions'[i] = regions[i] /\ regions[i] \in Region
      BY <1>0, <1>2
    <2>2. regions[i].base <= regions[i].base /\ end(regions[i]) <= end(regions[i])
      BY <2>1 DEF Region, end
    <2> QED
      BY <1>4, <2>1, <2>2, WithinIsTaken
  <1> QED
    BY <1>1, <1>2, <1>3, <1>4 DEF GuardedStep

\* A step after which every live region is of the caller's choice, or lies
\* within one that was there, is guarded.
LEMMA OtherGuarded ==
  ASSUME IInv, \A i \in Slots : live(regions'[i]) =>
                  \/ regions'[i].kind = "fixed"
                  \/ /\ regions'[i] \in Region
                     /\ \E j \in Slots : /\ live(regions[j])
                                         /\ regions[j].base <= regions'[i].base
                                         /\ end(regions'[i]) <= end(regions[j])
  PROVE  GuardedStep
  BY WithinIsTaken DEF GuardedStep

LEMMA StepGuarded ==
  ASSUME IInv, [Next]_vars
  PROVE  [GuardedStep]_vars
  <1> USE VaSpaceConstants
  <1>0. /\ regions \in [Slots -> Region] /\ top \in Nat /\ hint \in Nat
        /\ \A i \in Slots : /\ regions[i] \in Region
                             /\ regions[i].base <= regions[i].base
                             /\ end(regions[i]) <= end(regions[i])
    BY DEF IInv, Counters, Sound, Region, end
  <1>1. ASSUME NEW len \in Lengths, NEW align \in Aligns, reserve(len, align)
        PROVE  GuardedStep
    <2>1. PICK base \in VA_FLOOR .. (USER_VA_TOP - 1) :
             /\ ProbeEnd(base, len) <= MaxOf(top, hint)
             /\ span_free(ProbeBase(base), ProbeEnd(base, len))
             /\ insert(regions, Placed(base, len, "placed"))
      BY <1>1 DEF reserve
    <2>2. len \in Nat /\ len # 0 /\ base \in Nat /\ VA_FLOOR <= base
      BY <1>0, <1>1, <2>1 DEF reserve
    <2>3. hint <= top => base + len <= top
      BY <1>0, <2>1, <2>2, ProbeFacts DEF MaxOf
    <2> QED
      BY <2>1, <2>2, <2>3, PlaceGuarded
  <1>2. ASSUME NEW w \in Windows, NEW len \in Lengths, NEW align \in Aligns,
               reserve_in(w, len, align)
        PROVE  GuardedStep
    <2> DEFINE lo == MaxOf(w.lo, VA_FLOOR)
               hi == MinOf(w.hi, top)
    <2>0. lo \in Nat /\ VA_FLOOR <= lo /\ hi \in Nat /\ hi <= top
      BY <1>0 DEF MaxOf, MinOf
    <2>1. PICK base \in lo .. (hi - 1) :
             /\ base + len <= hi
             /\ span_free(ProbeBase(base), ProbeEnd(base, len))
             /\ insert(regions, Placed(base, len, "placed"))
      BY <1>2 DEF reserve_in
    <2> HIDE DEF lo, hi
    <2>2. len \in Nat /\ len # 0 /\ base \in Nat /\ VA_FLOOR <= base /\ base + len <= top
      BY <1>0, <1>2, <2>0, <2>1 DEF reserve_in
    <2> QED
      BY <2>1, <2>2, PlaceGuarded
  <1>3. ASSUME NEW base \in Pages, NEW len \in Lengths, reserve_fixed(base, len)
        PROVE  GuardedStep
    <2>1. /\ Placed(base, len, "fixed") \in Region /\ Placed(base, len, "fixed").kind = "fixed"
          /\ insert(regions, Placed(base, len, "fixed"))
      BY <1>3 DEF reserve_fixed, Placed, Region, RegionKind, Pages
    <2>2. \A i \in Slots : regions'[i].kind = "fixed" \/ regions'[i] = regions[i]
      BY <1>0, <2>1, InsertPlace
    <2> QED
      BY <1>0, <2>2, OtherGuarded
  <1>4. ASSUME NEW i \in Slots, release_at(i)
        PROVE  GuardedStep
    <2>1. \A j \in Slots : live(regions'[j]) => regions'[j] = regions[j]
      BY <1>0, <1>4 DEF release_at, FREE, live
    <2> QED
      BY <1>0, <2>1, OtherGuarded
  <1>5. ASSUME NEW lo \in Pages, NEW len \in Lengths, release_range(lo, len)
        PROVE  GuardedStep
    <2> DEFINE hi == lo + len
               T == Trimmed(lo, hi)
    <2>1. lo \in Nat /\ len \in Nat /\ hi \in Nat /\ lo <= hi
      BY DEF Pages
    <2>2. /\ T \in [Slots -> Region]
          /\ \A i \in Slots : live(T[i]) => /\ live(regions[i])
                                            /\ regions[i].base <= T[i].base
                                            /\ end(T[i]) <= end(regions[i])
      BY <2>1, TrimmedSound DEF Sound
    <2> HIDE DEF T
    <2>3. CASE regions' = T
      BY <2>2, <2>3, OtherGuarded
    <2>4. CASE \E i \in Straddlers(lo, hi) : insert(T, Tail(regions[i], hi))
      <3>1. PICK i \in Straddlers(lo, hi) : insert(T, Tail(regions[i], hi))
        BY <2>4
      <3>2. /\ i \in Slots /\ live(regions[i]) /\ regions[i] \in Region
            /\ Tail(regions[i], hi) \in Region
            /\ regions[i].base <= Tail(regions[i], hi).base
            /\ end(Tail(regions[i], hi)) <= end(regions[i])
        BY <1>0, <2>1 DEF Straddlers, Iter, Tail, Placed, Region, end
      <3>3. PICK s \in Slots : /\ regions'[s] = Tail(regions[i], hi)
                               /\ \A j \in Slots : j # s => regions'[j] = T[j]
        BY <2>2, <3>1, <3>2, InsertPlace
      <3> QED
        BY <2>2, <3>2, <3>3, OtherGuarded
    <2>5. CASE regions' = regions
      BY <1>0, <2>5, OtherGuarded
    <2> QED
      BY <1>5, <2>3, <2>4, <2>5 DEF release_range, T
  <1>6. CASE regions' = regions
    BY <1>0, <1>6, OtherGuarded
  <1>7. CASE \A i \in Slots : ~live(regions'[i])
    BY <1>7, OtherGuarded
  <1>8. clear \/ release \/ init => \A i \in Slots : ~live(regions'[i])
    BY <1>0 DEF clear, release, init, FREE, live, IInv, Sound
  <1>9. (\E want \in 0 .. MaxRecords : fund(want)) \/ (\E page \in Ceilings : set_ceiling(page))
          => regions' = regions
    BY DEF fund, set_ceiling
  <1> QED
    BY <1>1, <1>2, <1>3, <1>4, <1>5, <1>6, <1>7, <1>8, <1>9 DEF Next

\* A region the allocator places has its guard gaps on both sides, in every step
\* of every run (vaspace.rs:55), and is below the ceiling unless the hint is not.
THEOREM AlwaysGuarded == Spec => GuardGaps
  <1>1. IInv /\ [Next]_vars => [GuardedStep]_vars
    BY StepGuarded
  <1> QED
    BY <1>1, AlwaysIInv, PTL DEF Spec, GuardGaps

-----------------------------------------------------------------------------
(* Partial release *)

Holds(r, page) == r.base <= page /\ page < end(r)

\* A cut region holds the pages it held outside the range, and keeps its kind;
\* of a region with a hole in it only the head is left.
LEMMA CutHolds ==
  ASSUME NEW r \in Region, NEW lo \in Nat, NEW hi \in Nat, lo <= hi, NEW page \in Nat
  PROVE  /\ Holds(Cut(r, lo, hi), page) => Cut(r, lo, hi).kind = r.kind
         /\ r.base < lo /\ hi < end(r)
              => (Holds(Cut(r, lo, hi), page) <=> Holds(r, page) /\ page < lo)
         /\ ~(r.base < lo /\ hi < end(r))
              => (Holds(Cut(r, lo, hi), page) <=> Holds(r, page) /\ ~(lo <= page /\ page < hi))
  BY DEF Cut, Region, RegionKind, live, Meets, end, Head, Tail, Placed, FREE, Holds

\* The kinds at a page are those of the regions that hold it.
LEMMA SameKinds ==
  ASSUME NEW page, NEW out \in BOOLEAN,
         out => \A i \in Slots : ~Holds(regions'[i], page),
         ~out => \A i \in Slots : Holds(regions[i], page) =>
                    \E j \in Slots : Holds(regions'[j], page) /\ regions'[j].kind = regions[i].kind,
         ~out => \A j \in Slots : Holds(regions'[j], page) =>
                    \E i \in Slots : Holds(regions[i], page) /\ regions'[j].kind = regions[i].kind
  PROVE  KindsAt(page)' = IF out THEN {} ELSE KindsAt(page)
  <1>1. CASE out
    BY <1>1, Zenon DEF KindsAt, Holds, end
  <1>2. CASE ~out
    <2>1. \A k : k \in KindsAt(page) <=>
                   \E i \in Slots : Holds(regions[i], page) /\ k = regions[i].kind
      BY Zenon DEF KindsAt, Holds
    <2>2. \A k : k \in KindsAt(page)' <=>
                   \E i \in Slots : Holds(regions'[i], page) /\ k = regions'[i].kind
      BY Zenon DEF KindsAt, Holds, end
    <2>3. \A k : k \in KindsAt(page)' <=> k \in KindsAt(page)
      BY <1>2, <2>1, <2>2
    <2> QED
      BY <1>2, <2>3, Zenon
  <1> QED
    BY <1>1, <1>2

\* Releasing a range that is a hole in no region cuts every region it meets.
LEMMA TrimReleases ==
  ASSUME IInv, NEW lo \in Nat, NEW hi \in Nat, lo <= hi, Straddlers(lo, hi) = {},
         regions' = Trimmed(lo, hi)
  PROVE  Released(lo, hi)
  <1>1. ASSUME NEW page \in Pages
        PROVE  KindsAt(page)' = IF lo <= page /\ page < hi THEN {} ELSE KindsAt(page)
    <2> DEFINE out == lo <= page /\ page < hi
    <2>0. page \in Nat
      BY VaSpaceConstants DEF Pages
    <2>1. ASSUME NEW i \in Slots
          PROVE  /\ Holds(regions'[i], page) => regions'[i].kind = regions[i].kind
                 /\ Holds(regions'[i], page) <=> Holds(regions[i], page) /\ ~out
      <3>1. regions[i] \in Region
        BY DEF IInv, Sound
      <3>2. CASE i < high_water
        <4>1. ~(regions[i].base < lo /\ hi < end(regions[i]))
          BY <3>1, <3>2 DEF Straddlers, Iter, live, Region, end
        <4>2. regions'[i] = Cut(regions[i], lo, hi)
          BY <3>2 DEF Trimmed
        <4> QED
          BY <2>0, <3>1, <4>1, <4>2, CutHolds
      <3>3. CASE ~(i < high_water)
        <4>1. regions'[i] = regions[i] /\ ~live(regions[i])
          BY <3>3 DEF Trimmed, IInv, Sound
        <4>2. ~Holds(regions[i], page)
          BY <2>0, <3>1, <4>1 DEF Holds, live, end, Region
        <4> QED
          BY <4>1, <4>2
      <3> QED
        BY <3>2, <3>3
    <2>2. out \in BOOLEAN
      OBVIOUS
    <2> HIDE DEF out
    <2>3. KindsAt(page)' = IF out THEN {} ELSE KindsAt(page)
      BY <2>1, <2>2, SameKinds
    <2> QED
      BY <2>3 DEF out
  <1> QED
    BY <1>1 DEF Released

\* Making a hole leaves the head where the region was and the tail in a new record.
LEMMA HoleReleases ==
  ASSUME IInv, NEW lo \in Nat, NEW hi \in Nat, lo <= hi, NEW s \in Straddlers(lo, hi),
         insert(Trimmed(lo, hi), Tail(regions[s], hi))
  PROVE  Released(lo, hi)
  <1> DEFINE T == Trimmed(lo, hi)
             t == Tail(regions[s], hi)
  <1>0. T \in [Slots -> Region] /\ \A i \in Slots : regions[i] \in Region
    BY TrimmedSound DEF Sound, IInv
  <1>1. /\ s \in Slots /\ s < high_water /\ live(regions[s]) /\ regions[s].base < lo
        /\ hi < end(regions[s])
    BY <1>0 DEF Straddlers, Iter, Region, end
  <1>2. t \in Region /\ t.base = hi /\ end(t) = end(regions[s]) /\ t.kind = regions[s].kind
    BY <1>0, <1>1 DEF Tail, Placed, Region, end
  <1>3. PICK n \in Slots : /\ ~live(regions[n])
                           /\ regions'[n] = t
                           /\ \A i \in Slots : i # n => regions'[i] = T[i]
    BY <1>0, <1>2, InsertPlace
  <1>4. n # s
    BY <1>1, <1>3
  <1>5. T[s] = Cut(regions[s], lo, hi)
    BY <1>1 DEF Trimmed
  <1>6. ASSUME NEW i \in Slots, i # s, live(regions[i])
        PROVE  /\ T[i] = regions[i]
               /\ \A page \in Nat : lo <= page /\ page < hi => ~Holds(regions[i], page)
    <2>1. Apart(regions[i], regions[s])
      BY <1>1, <1>6 DEF IInv, Sound
    <2>2. ~Meets(regions[i], lo, hi)
      BY <1>0, <1>1, <2>1 DEF Apart, Meets, Region, end
    <2>3. T[i] = regions[i]
      BY <2>2 DEF Trimmed, Cut
    <2> QED
      BY <1>0, <1>1, <2>1, <2>3 DEF Apart, Holds, Region, end
  <1>7. ASSUME NEW i \in Slots, ~live(regions[i])
        PROVE  T[i] = regions[i] /\ \A page \in Nat : ~Holds(regions[i], page)
    BY <1>0, <1>7 DEF Trimmed, Cut, Holds, live, Region, end
  <1> HIDE DEF T, t
  <1>8. ASSUME NEW page \in Pages
        PROVE  KindsAt(page)' = IF lo <= page /\ page < hi THEN {} ELSE KindsAt(page)
    <2> DEFINE out == lo <= page /\ page < hi
    <2>0. page \in Nat
      BY VaSpaceConstants DEF Pages
    <2>1. /\ Holds(regions'[n], page) <=> Holds(regions[s], page) /\ hi <= page
          /\ regions'[n].kind = regions[s].kind
          /\ ~Holds(regions[n], page)
      BY <1>0, <1>1, <1>2, <1>3, <1>7, <2>0 DEF Holds, Region, end
    <2>2. /\ Holds(regions'[s], page) <=> Holds(regions[s], page) /\ page < lo
          /\ Holds(regions'[s], page) => regions'[s].kind = regions[s].kind
      BY <1>0, <1>1, <1>3, <1>4, <1>5, <2>0, CutHolds
    <2>3. \A i \in Slots : i # n /\ i # s =>
             /\ regions'[i] = regions[i]
             /\ out => ~Holds(regions[i], page)
      BY <1>3, <1>6, <1>7, <2>0
    <2>4. /\ out \in BOOLEAN
          /\ out => ~(hi <= page) /\ ~(page < lo)
          /\ ~out => hi <= page \/ page < lo
      BY <2>0
    <2> HIDE DEF out
    <2>5. out => \A i \in Slots : ~Holds(regions'[i], page)
      BY <2>1, <2>2, <2>3, <2>4
    <2>6. ~out => \A i \in Slots : Holds(regions[i], page) =>
             \E j \in Slots : Holds(regions'[j], page) /\ regions'[j].kind = regions[i].kind
      BY <1>1, <2>1, <2>2, <2>3, <2>4
    <2>7. ~out => \A j \in Slots : Holds(regions'[j], page) =>
             \E i \in Slots : Holds(regions[i], page) /\ regions'[j].kind = regions[i].kind
      BY <1>1, <2>1, <2>2, <2>3, <2>4
    <2>8. KindsAt(page)' = IF out THEN {} ELSE KindsAt(page)
      BY <2>4, <2>5, <2>6, <2>7, SameKinds
    <2> QED
      BY <2>8 DEF out
  <1> QED
    BY <1>8 DEF Released

\* release_range takes exactly its range out of the layout, or nothing at all
\* when a hole's tail cannot be recorded (vaspace.rs:521).
THEOREM AlwaysExact == Spec => ReleaseExact
  <1>1. ASSUME IInv, NEW lo \in Pages, NEW len \in Lengths, release_range(lo, len)
        PROVE  Released(lo, lo + len)
    <2>1. lo \in Nat /\ lo + len \in Nat /\ lo <= lo + len
      BY VaSpaceConstants DEF Pages
    <2>2. CASE Straddlers(lo, lo + len) = {} /\ regions' = Trimmed(lo, lo + len)
      BY <1>1, <2>1, <2>2, TrimReleases
    <2>3. CASE \E i \in Straddlers(lo, lo + len) :
                  insert(Trimmed(lo, lo + len), Tail(regions[i], lo + len))
      BY <1>1, <2>1, <2>3, HoleReleases
    <2>4. CASE Straddlers(lo, lo + len) # {} /\ NoMetadata /\ regions' = regions
      BY <2>4 DEF Released
    <2> QED
      BY <1>1, <2>2, <2>3, <2>4 DEF release_range
  <1>2. IInv => [\A lo \in Pages, len \in Lengths :
                    release_range(lo, len) => Released(lo, lo + len)]_vars
    BY <1>1
  <1> QED
    BY <1>2, AlwaysIInv, PTL DEF ReleaseExact
=============================================================================
