------------------------------ MODULE VaSpace ------------------------------
(***************************************************************************)
(* The layout of one cell's address space (kernel/src/mm/vaspace.rs): a    *)
(* table of disjoint regions that only grows as far as its owner can fund  *)
(* it, searched first-fit with guard gaps.  Addresses and lengths are in   *)
(* pages, so an alignment is a number of pages; the tag of a region, which *)
(* the allocator never reads, is left out, and of its kind the model keeps *)
(* whether the allocator or the caller chose the place.                    *)
(***************************************************************************)
EXTENDS Integers, FiniteSets

CONSTANTS VA_FLOOR,      \* lowest page handed out
          USER_VA_TOP,   \* exclusive end of the user range of this machine
          GUARD_PAGES,   \* pages kept free around an allocated region
          MaxRecords,    \* bound: records the owner's budget can ever fund
          Lengths,       \* bound: lengths asked for, after round_up
          Aligns,        \* bound: alignments asked for
          Windows,       \* bound: windows [lo, hi) reserve_in is called with
          Ceilings       \* bound: ceilings asked for

ASSUME VaSpaceConstants ==
    /\ VA_FLOOR \in Nat /\ USER_VA_TOP \in Nat /\ VA_FLOOR < USER_VA_TOP
    /\ GUARD_PAGES \in Nat /\ MaxRecords \in Nat
    /\ Lengths \subseteq Nat /\ Aligns \subseteq Nat \ {0}
    /\ Windows \subseteq [lo : Nat, hi : Nat] /\ Ceilings \subseteq Nat

VARIABLES regions,      \* the table: a record for every funded index
          capacity,     \* records funded so far
          high_water,   \* indices ever used since the last reset
          top,          \* exclusive ceiling in force
          hint          \* where the next first-fit scan starts

vars == <<regions, capacity, high_water, top, hint>>

None == -1
\* What a caller may name: the pages below the floor, which are refused, too.
Pages == 0 .. (USER_VA_TOP - 1)
RegionKind == {"placed", "fixed"}

Region == [base : Nat, len : Nat, kind : RegionKind]
FREE == [base |-> 0, len |-> 0, kind |-> "fixed"]

live(r) == r.len # 0
end(r) == r.base + r.len

\* The slots the scans visit, and the live regions among them.
Slots == 0 .. (MaxRecords - 1)
Iter == {i \in Slots : i < high_water /\ live(regions[i])}

Meets(r, lo, hi) == lo < end(r) /\ r.base < hi

span_free(lo, hi) == \A i \in Iter : ~Meets(regions[i], lo, hi)

MaxOf(a, b) == IF a >= b THEN a ELSE b
MinOf(a, b) == IF a <= b THEN a ELSE b

align_up(page, align) == ((page + align - 1) \div align) * align

ProbeUnguarded(base) == base

\* The span probed for a region of len pages at base: the region and its guards.
ProbeBase(base) == MaxOf(base - GUARD_PAGES, VA_FLOOR)
ProbeEnd(base, len) == base + len + GUARD_PAGES

\* The highest end of a live region that meets [lo, hi), or none.
blocking_end(lo, hi, none) ==
    LET ends == {end(regions[i]) : i \in {j \in Iter : Meets(regions[j], lo, hi)}}
    IN  IF ends = {} THEN none ELSE CHOOSE e \in ends : \A f \in ends : f <= e

-----------------------------------------------------------------------------
(* The record table *)

FreeSlots == {i \in Slots : i < high_water /\ ~live(regions[i])}

insertForgetsHighWater(table, r) ==
    /\ high_water < MaxRecords
    /\ regions' = [table EXCEPT ![high_water] = r]
    /\ UNCHANGED <<capacity, high_water>>

\* The lowest freed slot is reused; else the table is extended, past what is funded
\* only if the owner's budget allows (nondeterministic) and never past
\* MaxRecords.
insert(table, r) ==
    \/ \E i \in FreeSlots :
          /\ \A j \in FreeSlots : i <= j
          /\ regions' = [table EXCEPT ![i] = r]
          /\ UNCHANGED <<capacity, high_water>>
    \/ /\ FreeSlots = {} /\ high_water < MaxRecords
       /\ regions' = [table EXCEPT ![high_water] = r]
       /\ high_water' = high_water + 1
       /\ capacity' = MaxOf(capacity, high_water + 1)

\* No freed slot and no frame for another record: NoMetadata.
NoMetadata == FreeSlots = {} /\ high_water >= capacity

-----------------------------------------------------------------------------
(* Placement *)

\* One pass of reserve over [from, to): the first aligned base whose span and
\* guards are free, jumping past whatever blocks a probe.
Scan(from, to, len, align) ==
    LET scan[base \in Nat] ==
          IF base >= to \/ ProbeEnd(base, len) > to THEN None
          ELSE IF span_free(ProbeBase(base), ProbeEnd(base, len)) THEN base
          ELSE scan[align_up(blocking_end(ProbeBase(base), ProbeEnd(base, len), base)
                               + GUARD_PAGES, align)]
    IN  scan[align_up(MaxOf(from, VA_FLOOR), align)]

\* From the hint to the ceiling, then from the floor to the hint.
FirstFit(len, align) ==
    LET above == Scan(hint, top, len, align)
    IN  IF above # None THEN above ELSE Scan(VA_FLOOR, hint, len, align)

\* reserve_in looks for what blocked it among the regions that meet the span
\* itself; a region met only by the guards makes it jump past the span.
ScanIn(lo, hi, len, align) ==
    LET scan[base \in Nat] ==
          IF base >= hi \/ base + len > hi THEN None
          ELSE IF span_free(ProbeBase(base), ProbeEnd(base, len)) THEN base
          ELSE scan[align_up(blocking_end(base, base + len, base + len)
                               + GUARD_PAGES, align)]
    IN  scan[align_up(lo, align)]

Placed(base, len, kind) == [base |-> base, len |-> len, kind |-> kind]

\* The second pass ends at the hint, which a lowered ceiling leaves where it was.
reserve(len, align) ==
    /\ len # 0
    /\ \E base \in VA_FLOOR .. (USER_VA_TOP - 1) :
          /\ base = FirstFit(len, align)
          /\ ProbeEnd(base, len) <= MaxOf(top, hint)
          /\ span_free(ProbeBase(base), ProbeEnd(base, len))
          /\ insert(regions, Placed(base, len, "placed"))
          /\ hint' = ProbeEnd(base, len)
    /\ UNCHANGED top

reserve_in(w, len, align) ==
    /\ len # 0
    /\ LET lo == MaxOf(w.lo, VA_FLOOR)
           hi == MinOf(w.hi, top)
       IN  \E base \in lo .. (hi - 1) :
              /\ base = ScanIn(lo, hi, len, align)
              /\ base + len <= hi
              /\ span_free(ProbeBase(base), ProbeEnd(base, len))
              /\ insert(regions, Placed(base, len, "placed"))
    /\ UNCHANGED <<top, hint>>

reserve_fixedUnchecked(base, len) ==
    /\ len # 0
    /\ base >= VA_FLOOR /\ base + len <= top
    /\ insert(regions, Placed(base, len, "fixed"))
    /\ UNCHANGED <<top, hint>>

\* A place the caller chose: refused when it meets a region, guards or not.
reserve_fixed(base, len) ==
    /\ len # 0
    /\ base >= VA_FLOOR /\ base + len <= top
    /\ span_free(base, base + len)
    /\ insert(regions, Placed(base, len, "fixed"))
    /\ UNCHANGED <<top, hint>>

-----------------------------------------------------------------------------
(* Release *)

LoweredPastFloor(page) == IF page < hint THEN page ELSE hint

Lowered(page) == IF page < hint THEN MaxOf(page, VA_FLOOR) ELSE hint

release_at(i) ==
    /\ i \in Iter
    /\ regions' = [regions EXCEPT ![i] = FREE]
    /\ hint' = Lowered(regions[i].base)
    /\ UNCHANGED <<capacity, high_water, top>>

\* What is left of a region once [lo, hi) is taken out of it: the head, which
\* stays in its slot, or else the tail.
Head(r, lo) == Placed(r.base, lo - r.base, r.kind)
Tail(r, hi) == Placed(hi, end(r) - hi, r.kind)

CutDropsStraddler(r, lo, hi) ==
    IF ~live(r) \/ ~Meets(r, lo, hi) THEN r ELSE FREE

Cut(r, lo, hi) ==
    IF ~live(r) \/ ~Meets(r, lo, hi) THEN r
    ELSE IF r.base < lo THEN Head(r, lo)
    ELSE IF end(r) > hi THEN Tail(r, hi)
    ELSE FREE

Trimmed(lo, hi) ==
    [i \in Slots |-> IF i < high_water THEN Cut(regions[i], lo, hi) ELSE regions[i]]

\* The regions [lo, hi) is a hole in.  Regions are disjoint: there is at most one.
Straddlers(lo, hi) == {i \in Iter : regions[i].base < lo /\ end(regions[i]) > hi}

\* A hole needs a record for the tail; if none can be had the region is put
\* back whole.
release_range(lo, len) ==
    LET hi == lo + len
    IN  /\ hint' = Lowered(lo)
        /\ UNCHANGED top
        /\ \/ /\ Straddlers(lo, hi) = {}
              /\ regions' = Trimmed(lo, hi)
              /\ UNCHANGED <<capacity, high_water>>
           \/ \E i \in Straddlers(lo, hi) :
                 \/ insert(Trimmed(lo, hi), Tail(regions[i], hi))
                 \/ NoMetadata /\ UNCHANGED <<regions, capacity, high_water>>

-----------------------------------------------------------------------------
(* Funding, reset and the ceiling *)

fund(want) ==
    /\ capacity' = MaxOf(capacity, want)
    /\ UNCHANGED <<regions, high_water, top, hint>>

clear ==
    /\ regions' = [i \in Slots |-> IF i < high_water THEN FREE ELSE regions[i]]
    /\ high_water' = 0
    /\ hint' = VA_FLOOR
    /\ top' = USER_VA_TOP
    /\ UNCHANGED capacity

\* Every record and its frames go back; the ceiling stays as it is.
release ==
    /\ regions' = [i \in Slots |-> FREE]
    /\ high_water' = 0
    /\ capacity' = 0
    /\ hint' = VA_FLOOR
    /\ UNCHANGED top

init ==
    /\ regions' = [i \in Slots |-> FREE]
    /\ high_water' = 0
    /\ capacity' = 0
    /\ hint' = VA_FLOOR
    /\ top' = USER_VA_TOP

set_ceiling(page) ==
    /\ top' = MinOf(page, USER_VA_TOP)
    /\ UNCHANGED <<regions, capacity, high_water, hint>>

-----------------------------------------------------------------------------

Init ==
    /\ regions = [i \in Slots |-> FREE]
    /\ capacity = 0
    /\ high_water = 0
    /\ top = USER_VA_TOP
    /\ hint = VA_FLOOR

Next ==
    \/ \E len \in Lengths, align \in Aligns : reserve(len, align)
    \/ \E w \in Windows, len \in Lengths, align \in Aligns : reserve_in(w, len, align)
    \/ \E base \in Pages, len \in Lengths : reserve_fixed(base, len)
    \/ \E i \in Slots : release_at(i)
    \/ \E base \in Pages, len \in Lengths : release_range(base, len)
    \/ \E want \in 0 .. MaxRecords : fund(want)
    \/ \E page \in Ceilings : set_ceiling(page)
    \/ clear
    \/ release
    \/ init

Spec == Init /\ [][Next]_vars

-----------------------------------------------------------------------------
(* Properties *)

\* The table has a record for every index, high_water never passes what is
\* funded, and the hint stays inside the user range (vaspace.rs, VaSpace).
TypeOK ==
    /\ regions \in [Slots -> Region]
    /\ capacity \in 0 .. MaxRecords
    /\ high_water \in 0 .. capacity
    /\ top \in 0 .. USER_VA_TOP
    /\ hint \in VA_FLOOR .. USER_VA_TOP

\* A region is never lost to the scans: every live record is below the high
\* water mark (vaspace.rs:185), so find, span_free and the guards all see it.
NoneForgotten == \A i \in Slots : live(regions[i]) => i < high_water

\* "Overlap becomes impossible rather than unlikely" (vaspace.rs:47): whatever
\* mixture of placed, fixed, split and released regions a cell goes through, no
\* page belongs to two regions, and none is below the floor or past the user
\* range.
NoOverlap ==
    /\ \A i, j \in Slots :
          live(regions[i]) /\ live(regions[j]) /\ i # j
             => end(regions[i]) <= regions[j].base \/ end(regions[j]) <= regions[i].base
    /\ \A i \in Slots : live(regions[i]) =>
          VA_FLOOR <= regions[i].base /\ end(regions[i]) <= USER_VA_TOP

\* A region that a step adds where the allocator chose has no region within
\* GUARD_PAGES pages of it, and is below the ceiling unless the hint was above.
GuardedStep ==
    \A i \in Slots :
       LET r == regions'[i]
       IN  live(r) /\ r.kind = "placed" /\ span_free(r.base, end(r))
             => /\ hint <= top => end(r) <= top
                /\ \A j \in Slots : live(regions[j]) =>
                      ~Meets(regions[j], r.base - GUARD_PAGES, end(r) + GUARD_PAGES)

\* Guard gaps (vaspace.rs:55): a region the allocator places has GUARD_PAGES
\* pages on either side that belong to no region.  It is also below the ceiling
\* in force, unless set_ceiling lowered that below the hint: the second pass of
\* reserve compares with the hint only (vaspace.rs:352).
GuardGaps == [][GuardedStep]_vars

\* The kinds of the regions that hold a page: at most one, since none overlap.
KindsAt(page) ==
    {regions[i].kind : i \in {j \in Slots : regions[j].base <= page /\ page < end(regions[j])}}

\* What releasing [lo, hi) does to the pages: none of them has a region any
\* more and every other page keeps its own, or the range was a hole whose tail
\* could not be recorded and nothing was released.
Released(lo, hi) ==
    \/ regions' = regions /\ NoMetadata /\ Straddlers(lo, hi) # {}
    \/ \A page \in Pages :
          KindsAt(page)' = IF lo <= page /\ page < hi THEN {} ELSE KindsAt(page)

\* A partial release tells the truth (vaspace.rs:521): release_range takes
\* exactly its range out of the layout, whatever it cuts, or nothing.
ReleaseExact ==
    [][\A lo \in Pages, len \in Lengths :
          release_range(lo, len) => Released(lo, lo + len)]_vars
=============================================================================
