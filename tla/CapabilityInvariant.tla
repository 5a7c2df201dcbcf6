------------------------- MODULE CapabilityInvariant -------------------------
(* The inductive invariant behind the capability core's properties, and that *)
(* the cells' system calls preserve it.                                     *)
EXTENDS Capability, TLAPS

(* Every slot in use was written while its object's epoch was still 0.      *)
SlotEpochs ==
    \A c \in Cells, i \in SlotIds : table[c][i].in_use => table[c][i].epoch = 0

(* A dead handle is older than whatever its slot holds now.                 *)
DeadAreOlder ==
    \A c \in Cells : \A h \in dead[c] :
        /\ h[2] <= table[c][h[1]].generation
        /\ table[c][h[1]].in_use => h[2] < table[c][h[1]].generation

(* A grant record names a capability with READ, or one already gone.        *)
GrantRecords ==
    \A c \in Cells : \A h \in grants[c] :
        /\ h[2] <= table[c][h[1]].generation
        /\ table[c][h[1]].in_use /\ table[c][h[1]].generation = h[2]
             => "READ" \in table[c][h[1]].rights

(* An empty cell slot has no grant records left behind, and a launched cell *)
(* is never freed.                                                          *)
AbsentIsClean ==
    \A c \in Cells : personality[c] = "absent" => grants[c] = {} /\ c \notin Tops

(* An epoch moves once, and not before its object is created.               *)
EpochsAtMostOne ==
    \A o \in Objects : epoch[o] \in {0, 1} /\ (o >= next => epoch[o] = 0)

IInv ==
    /\ TypeOK
    /\ Attenuation
    /\ EpochsAtMostOne
    /\ SlotEpochs
    /\ DeadAreOlder
    /\ GrantRecords
    /\ AbsentIsClean

----------------------------------------------------------------------------
(* How one step may change a slot of a cell that stays: the capability in   *)
(* it is kept (or dropped, or charged), or one is minted into a free slot.  *)
Kept(c, i) ==
    /\ table'[c][i].in_use => table[c][i].in_use
    /\ table'[c][i].object = table[c][i].object
    /\ table'[c][i].rights = table[c][i].rights
    /\ table'[c][i].epoch = table[c][i].epoch
    /\ table'[c][i].generation = table[c][i].generation

Minted(c, i) ==
    /\ ~table[c][i].in_use
    /\ table'[c][i].object \in Objects
    /\ table'[c][i].epoch = 0
    /\ table'[c][i].rights \subseteq ceiling'[c][table'[c][i].object]
    /\ table'[c][i].generation = table[c][i].generation + 1

InPlace ==
    /\ \A c \in Cells, i \in SlotIds : Kept(c, i) \/ Minted(c, i)
    /\ \A c \in Cells, o \in Objects : ceiling[c][o] \subseteq ceiling'[c][o]
    /\ \A o \in Objects : epoch'[o] \in {0, 1} /\ (o >= next' => epoch'[o] = 0)
    /\ \A c \in Cells : \A h \in dead'[c] :
         h \in dead[c] \/ /\ ~table'[c][h[1]].in_use
                          /\ table'[c][h[1]].generation = h[2]
    /\ \A c \in Cells : \A h \in grants'[c] :
         h \in grants[c] \/ /\ table'[c][h[1]].generation = h[2]
                            /\ "READ" \in table'[c][h[1]].rights
                            /\ personality[c] # "absent"
    /\ personality' = personality

(* A step that changes slots in place preserves the invariant.              *)
LEMMA InPlacePreserves ==
    ASSUME IInv, TypeOK', InPlace
    PROVE  IInv'
<1> USE DEF TypeOK, CapSlot, Handles, Low32Handles
<1>1. Attenuation'
  <2> SUFFICES ASSUME NEW c \in Cells, NEW i \in SlotIds, table'[c][i].in_use
               PROVE  table'[c][i].rights \subseteq ceiling'[c][table'[c][i].object]
    BY Zenon DEF Attenuation
  <2>1. CASE Kept(c, i)
    <3>1. table[c][i].in_use /\ table[c][i].rights \subseteq ceiling[c][table[c][i].object]
      BY <2>1, Zenon DEF Kept, IInv, Attenuation
    <3>2. table[c][i].object \in Objects
      BY <3>1, BoundsAssumption DEF IInv, Objects
    <3> QED BY <2>1, <3>1, <3>2, Zenon DEF Kept, InPlace
  <2>2. CASE Minted(c, i) BY <2>2, Zenon DEF Minted
  <2> QED BY <2>1, <2>2, Zenon DEF InPlace
<1>2. EpochsAtMostOne' BY Zenon DEF InPlace, EpochsAtMostOne
<1>3. SlotEpochs' BY DEF InPlace, Kept, Minted, SlotEpochs, IInv
<1>4. DeadAreOlder'
  <2> SUFFICES ASSUME NEW c \in Cells, NEW h \in dead'[c]
               PROVE  /\ h[2] <= table'[c][h[1]].generation
                      /\ table'[c][h[1]].in_use => h[2] < table'[c][h[1]].generation
    BY Zenon DEF DeadAreOlder
  <2>1. h \in SlotIds \X (0 .. MaxGeneration) OBVIOUS
  <2>2. h[1] \in SlotIds /\ h[2] \in Nat BY <2>1, BoundsAssumption
  <2>3. CASE h \notin dead[c] BY <2>2, <2>3 DEF InPlace
  <2>4. CASE h \in dead[c]
    <3>1. table[c][h[1]] \in CapSlot BY <2>2 DEF IInv
    <3>2. table[c][h[1]].generation \in Nat BY <3>1, BoundsAssumption
    <3>3. /\ h[2] <= table[c][h[1]].generation
          /\ table[c][h[1]].in_use => h[2] < table[c][h[1]].generation
      BY <2>4, Zenon DEF IInv, DeadAreOlder
    <3> QED BY <2>2, <3>2, <3>3 DEF InPlace, Kept, Minted
  <2> QED BY <2>3, <2>4, Zenon
<1>5. GrantRecords'
  <2> SUFFICES ASSUME NEW c \in Cells, NEW h \in grants'[c]
               PROVE  /\ h[2] <= table'[c][h[1]].generation
                      /\ table'[c][h[1]].in_use /\ table'[c][h[1]].generation = h[2]
                           => "READ" \in table'[c][h[1]].rights
    BY Zenon DEF GrantRecords
  <2>1. h[1] \in SlotIds /\ h[2] \in Nat BY BoundsAssumption
  <2>2. CASE h \notin grants[c] BY <2>1, <2>2 DEF InPlace
  <2>3. CASE h \in grants[c]
    <3>1. table[c][h[1]] \in CapSlot BY <2>1 DEF IInv
    <3>2. table[c][h[1]].generation \in Nat BY <3>1, BoundsAssumption
    <3>3. /\ h[2] <= table[c][h[1]].generation
          /\ table[c][h[1]].in_use /\ table[c][h[1]].generation = h[2]
               => "READ" \in table[c][h[1]].rights
      BY <2>3, Zenon DEF IInv, GrantRecords
    <3>4. CASE Kept(c, h[1]) BY <3>3, <3>4, Zenon DEF Kept
    <3>5. CASE Minted(c, h[1]) BY <2>1, <3>2, <3>3, <3>5 DEF Minted
    <3> QED BY <2>1, <3>4, <3>5, Zenon DEF InPlace
  <2> QED BY <2>2, <2>3, Zenon
<1>6. AbsentIsClean' BY Zenon DEF InPlace, IInv, AbsentIsClean
<1> QED BY <1>1, <1>2, <1>3, <1>4, <1>5, <1>6, Zenon DEF IInv

----------------------------------------------------------------------------
(* What the slot helpers return.                                            *)

MintResult(m, t, i, o, r) ==
    /\ m \in [SlotIds -> CapSlot]
    /\ \A j \in SlotIds \ {i} : m[j] = t[j]
    /\ m[i].in_use /\ m[i].object = o /\ m[i].rights = r /\ m[i].epoch = epoch[o]
    /\ m[i].generation = t[i].generation + 1

LEMMA MintFacts ==
    ASSUME NEW t \in [SlotIds -> CapSlot], NEW i \in SlotIds, NEW o \in Objects,
           NEW r \in SUBSET Rights, NEW b \in Budgets,
           epoch \in [Objects -> Nat], t[i].generation < MaxGeneration
    PROVE  MintResult(Mint(t, i, o, r, b), t, i, o, r)
BY BoundsAssumption DEF MintResult, Mint, CapSlot, Objects

(* The same capabilities in every slot, whatever their budgets.             *)
SameCaps(u, t) ==
    /\ u \in [SlotIds -> CapSlot]
    /\ \A j \in SlotIds :
         /\ u[j].in_use = t[j].in_use /\ u[j].object = t[j].object
         /\ u[j].rights = t[j].rights /\ u[j].epoch = t[j].epoch
         /\ u[j].generation = t[j].generation

LEMMA SpendFacts ==
    ASSUME NEW t \in [SlotIds -> CapSlot], NEW i \in SlotIds, t[i].budget # 0
    PROVE  SameCaps(Spend(t, i), t)
BY BoundsAssumption DEF SameCaps, Spend, CapSlot, Budgets

(* The same capabilities but the one in slot i, which is gone.              *)
FreeResult(u, t, i) ==
    /\ u \in [SlotIds -> CapSlot]
    /\ ~u[i].in_use
    /\ \A j \in SlotIds :
         /\ u[j].in_use => t[j].in_use
         /\ u[j].object = t[j].object /\ u[j].rights = t[j].rights
         /\ u[j].epoch = t[j].epoch /\ u[j].generation = t[j].generation

LEMMA FreeFacts ==
    ASSUME NEW t \in [SlotIds -> CapSlot], NEW i \in SlotIds
    PROVE  FreeResult(Free(t, i), t, i)
BY Zenon DEF FreeResult, Free, CapSlot

(* The slot alloc_slot returns is free, inside the table as it is then, and *)
(* no table shrinks.                                                        *)
LEMMA AllocFacts ==
    ASSUME TypeOK, NEW c \in Cells, NEW i \in SlotIds, AllocSlot(c, i)
    PROVE  /\ ~table[c][i].in_use
           /\ pages' \in [Cells -> 0 .. MaxPages]
           /\ i < capacity(c)'
           /\ \A d \in Cells, j \in SlotIds : j < capacity(d) => j < capacity(d)'
<1>1. CASE i \in FreeSlots(c) /\ UNCHANGED pages
  BY <1>1, BoundsAssumption DEF FreeSlots, TypeOK, capacity, SlotIds
<1>2. CASE /\ pages[c] < MaxPages /\ i = capacity(c)
           /\ pages' = [pages EXCEPT ![c] = @ + 1]
  <2>1. pages[c] \in Nat /\ pages[c] + 1 \in 0 .. MaxPages
    BY <1>2, BoundsAssumption DEF TypeOK
  <2>2. pages'[c] = pages[c] + 1 /\ \A d \in Cells \ {c} : pages'[d] = pages[d]
    BY <1>2, Zenon DEF TypeOK
  <2>3. capacity(c)' = capacity(c) + PerPage
    BY <2>1, <2>2, BoundsAssumption DEF capacity
  <2>4. capacity(c) \in Nat /\ PerPage \in Nat /\ PerPage > 0
    BY <2>1, BoundsAssumption DEF capacity
  <2>5. ~table[c][i].in_use
    BY <1>2, <2>4 DEF TypeOK, SlotIds
  <2>6. pages' \in [Cells -> 0 .. MaxPages] BY <1>2, <2>1, Zenon DEF TypeOK
  <2>7. \A d \in Cells, j \in SlotIds : j < capacity(d) => j < capacity(d)'
    <3> TAKE d \in Cells, j \in SlotIds
    <3>1. CASE d = c
      <4>1. j < capacity(c) => j < capacity(c)' BY <2>3, <2>4 DEF SlotIds
      <4> QED BY <3>1, <4>1, Zenon DEF capacity
    <3>2. CASE d # c BY <3>2, <2>2, Zenon DEF capacity
    <3> QED BY <3>1, <3>2, Zenon
  <2>8. i < capacity(c)' BY <1>2, <2>3, <2>4
  <2> QED BY <2>5, <2>6, <2>7, <2>8, Zenon
<1> QED BY <1>1, <1>2, Zenon DEF AllocSlot

(* No truncation: with fewer mints per slot than the modulus, raw_low32     *)
(* keeps the whole generation.                                              *)
LEMMA ModSmall ==
    ASSUME NEW g \in Nat, NEW m \in Nat \ {0}, g < m
    PROVE  g % m = g
OBVIOUS

LEMMA CapIdFacts ==
    ASSUME MaxGeneration < GenModulus, NEW i \in SlotIds, NEW g \in 0 .. MaxGeneration
    PROVE  CapId(<<i, g>>) = <<i, g>> /\ <<i, g>> \in Low32Handles
<1>1. g \in Nat /\ g < GenModulus /\ GenModulus \in Nat \ {0} BY BoundsAssumption
<1>2. g % GenModulus = g BY <1>1, ModSmall, Zenon
<1> QED BY <1>1, <1>2 DEF CapId, Low32Handles

----------------------------------------------------------------------------
(* The two shapes of a capability call: no capability is added, or one is   *)
(* minted into slot i of cell c for an object that is not revoked.          *)

NewDead ==
    /\ dead' \in [Cells -> SUBSET Handles]
    /\ \A d \in Cells : \A h \in dead'[d] :
         h \in dead[d] \/ /\ ~table'[d][h[1]].in_use
                          /\ table'[d][h[1]].generation = h[2]

NewGrants ==
    /\ grants' \in [Cells -> SUBSET Low32Handles]
    /\ \A d \in Cells : \A h \in grants'[d] :
         h \in grants[d] \/ /\ table'[d][h[1]].generation = h[2]
                            /\ "READ" \in table'[d][h[1]].rights
                            /\ personality[d] # "absent"

LEMMA KeepPreserves ==
    ASSUME IInv, table' \in [Cells -> [SlotIds -> CapSlot]],
           \A d \in Cells, j \in SlotIds : Kept(d, j),
           UNCHANGED <<booted, next, kind, personality, pages, ceiling>>,
           epoch' \in [Objects -> Nat],
           \A o \in Objects : epoch'[o] \in {0, 1} /\ (o >= next => epoch'[o] = 0),
           NewDead, NewGrants
    PROVE  IInv'
<1>1. TypeOK'
  <2>1. \A d \in Cells, j \in SlotIds :
          table'[d][j].in_use => /\ j < capacity(d)' /\ table'[d][j].object < next'
                                 /\ personality'[d] # "absent"
    BY Zenon DEF IInv, TypeOK, Kept, capacity
  <2> QED BY <2>1, Zenon DEF IInv, TypeOK, NewDead, NewGrants
<1>2. InPlace BY Zenon DEF InPlace, NewDead, NewGrants, IInv, TypeOK
<1> QED BY <1>1, <1>2, InPlacePreserves, Zenon

(* One slot of one table takes a new capability, within its cell's ceiling. *)
MintedInto(c, i) ==
    /\ AllocSlot(c, i) /\ personality[c] # "absent"
    /\ table' \in [Cells -> [SlotIds -> CapSlot]]
    /\ \A d \in Cells, j \in SlotIds : d # c \/ j # i => Kept(d, j)
    /\ table'[c][i].object \in Objects /\ table'[c][i].object < next
    /\ table'[c][i].epoch = 0
    /\ table'[c][i].generation = table[c][i].generation + 1
    /\ table'[c][i].rights \subseteq ceiling'[c][table'[c][i].object]
    /\ UNCHANGED <<booted, next, kind, epoch, personality>>
    /\ ceiling' \in [Cells -> [Objects -> SUBSET Rights]]
    /\ \A d \in Cells, o \in Objects : ceiling[d][o] \subseteq ceiling'[d][o]
    /\ NewDead /\ NewGrants

LEMMA MintIntoPreserves ==
    ASSUME IInv, NEW c \in Cells, NEW i \in SlotIds, MintedInto(c, i)
    PROVE  IInv'
<1> USE DEF MintedInto
<1>1. /\ ~table[c][i].in_use /\ pages' \in [Cells -> 0 .. MaxPages]
      /\ i < capacity(c)'
      /\ \A d \in Cells, j \in SlotIds : j < capacity(d) => j < capacity(d)'
  BY AllocFacts, Zenon DEF IInv
<1>2. \A d \in Cells, j \in SlotIds :
        table'[d][j].in_use => /\ j < capacity(d)' /\ table'[d][j].object < next'
                               /\ personality'[d] # "absent"
  <2> TAKE d \in Cells, j \in SlotIds
  <2>1. CASE d = c /\ j = i BY <1>1, <2>1, Zenon DEF capacity
  <2>2. CASE d # c \/ j # i BY <1>1, <2>2, Zenon DEF Kept, IInv, TypeOK
  <2> QED BY <2>1, <2>2, Zenon
<1>3. TypeOK' BY <1>1, <1>2, Zenon DEF IInv, TypeOK, NewDead, NewGrants
<1>4. \A d \in Cells, j \in SlotIds : Kept(d, j) \/ Minted(d, j)
  BY <1>1, Zenon DEF Minted
<1>5. InPlace BY <1>4, Zenon DEF InPlace, NewDead, NewGrants, IInv, EpochsAtMostOne
<1> QED BY <1>3, <1>5, InPlacePreserves, Zenon

----------------------------------------------------------------------------
(* One lemma per action.                                                    *)

LEMMA CreateAndMintStep ==
    ASSUME IInv, MaxGeneration < GenModulus, UNCHANGED booted \/ booted' = TRUE,
           NEW c \in Cells, NEW k \in Kinds, NEW r \in SUBSET Rights,
           NEW recorded \in BOOLEAN, recorded => "READ" \in r,
           personality[c] # "absent", CreateAndMint(c, k, r, recorded)
    PROVE  IInv'
<1> USE DEF IInv, TypeOK
<1>1. /\ next \in Objects /\ next \in Nat /\ next' = next + 1 /\ next' \in 0 .. MaxObjects
      /\ kind' \in [Objects -> Kinds] /\ epoch' \in [Objects -> Nat]
      /\ epoch'[next] = 0 /\ \A o \in Objects \ {next} : epoch'[o] = epoch[o]
  BY BoundsAssumption DEF CreateAndMint, Create, Objects
<1>2. \A o \in Objects : epoch'[o] \in {0, 1} /\ (o >= next' => epoch'[o] = 0)
  BY <1>1 DEF EpochsAtMostOne, Objects
<1>3. personality' = personality /\ dead' = dead /\ booted' \in BOOLEAN
  BY Zenon DEF CreateAndMint
<1>4. CASE UNCHANGED <<pages, table, grants, ceiling>>
  <2>1. TypeOK'
    BY <1>1, <1>3, <1>4 DEF capacity, CapSlot
  <2>2. InPlace BY <1>2, <1>3, <1>4, Zenon DEF InPlace, Kept
  <2> QED BY <2>1, <2>2, InPlacePreserves, Zenon
<1>5. ASSUME NEW i \in SlotIds, AllocSlot(c, i), MintRoom(c, i),
             table' = [table EXCEPT ![c] = Mint(@, i, next, r, BUDGET_UNLIMITED)],
             ceiling' = [ceiling EXCEPT ![c][next] = @ \union r],
             grants' = IF recorded
                       THEN [grants EXCEPT ![c] =
                               @ \union {CapId(<<i, table[c][i].generation + 1>>)}]
                       ELSE grants
      PROVE  IInv'
  <2> DEFINE m == Mint(table[c], i, next, r, BUDGET_UNLIMITED)
  <2>1. epoch[next] = 0 BY <1>1 DEF EpochsAtMostOne
  <2>2. /\ m \in [SlotIds -> CapSlot]
        /\ \A j \in SlotIds \ {i} : m[j] = table[c][j]
        /\ m[i].in_use /\ m[i].object = next /\ m[i].rights = r /\ m[i].epoch = 0
        /\ m[i].generation = table[c][i].generation + 1
    <3>1. /\ table[c] \in [SlotIds -> CapSlot] /\ table[c][i].generation < MaxGeneration
          /\ BUDGET_UNLIMITED \in Budgets /\ epoch \in [Objects -> Nat]
      BY <1>5, BoundsAssumption DEF MintRoom, Budgets
    <3> HIDE DEF IInv, TypeOK
    <3>2. next \in Objects BY <1>1, Zenon
    <3>3. MintResult(m, table[c], i, next, r) BY <3>1, <3>2, MintFacts, Zenon
    <3> QED BY <2>1, <3>3, Zenon DEF MintResult
  <2>3. /\ table' \in [Cells -> [SlotIds -> CapSlot]] /\ table'[c] = m
        /\ \A d \in Cells \ {c} : table'[d] = table[d]
    BY <1>5, <2>2, Zenon
  <2>4. /\ ceiling' \in [Cells -> [Objects -> SUBSET Rights]]
        /\ r \subseteq ceiling'[c][next]
        /\ \A d \in Cells, o \in Objects : ceiling[d][o] \subseteq ceiling'[d][o]
    BY <1>1, <1>5, Zenon
  <2>5. /\ ~table[c][i].in_use /\ pages' \in [Cells -> 0 .. MaxPages]
        /\ i < capacity(c)'
        /\ \A d \in Cells, j \in SlotIds : j < capacity(d) => j < capacity(d)'
    BY <1>5, AllocFacts, Zenon
  <2>6. /\ table[c][i].generation + 1 \in 0 .. MaxGeneration
        /\ CapId(<<i, table[c][i].generation + 1>>) = <<i, table[c][i].generation + 1>>
        /\ <<i, table[c][i].generation + 1>> \in Low32Handles
    <3>1. table[c][i].generation + 1 \in 0 .. MaxGeneration
      BY <2>2, BoundsAssumption, Zenon DEF CapSlot
    <3> QED BY <3>1, CapIdFacts, Zenon
  <2>7. grants' \in [Cells -> SUBSET Low32Handles] BY <1>5, <2>6, Zenon
  <2>8. \A d \in Cells, j \in SlotIds :
          table'[d][j].in_use => /\ j < capacity(d)' /\ table'[d][j].object < next'
                                 /\ personality'[d] # "absent"
    <3> TAKE d \in Cells, j \in SlotIds
    <3>1. CASE d = c /\ j = i BY <3>1, <1>1, <1>3, <2>2, <2>3, <2>5, SMTT(30)
    <3>2. CASE ~(d = c /\ j = i)
      <4>1. table'[d][j] = table[d][j] BY <3>2, <2>2, <2>3
      <4>2. table[d][j].object \in Nat BY Zenon DEF CapSlot
      <4> QED BY <4>1, <4>2, <1>1, <1>3, <2>5
    <3> QED BY <3>1, <3>2, Zenon
  <2>9. TypeOK' BY <1>1, <1>3, <2>3, <2>4, <2>5, <2>7, <2>8, Zenon
  <2>10. \A d \in Cells, j \in SlotIds : Kept(d, j) \/ Minted(d, j)
    <3> TAKE d \in Cells, j \in SlotIds
    <3>1. CASE d = c /\ j = i BY <3>1, <1>1, <2>2, <2>3, <2>4, <2>5, SMTT(30) DEF Minted
    <3>2. CASE ~(d = c /\ j = i)
      <4>1. table'[d][j] = table[d][j] BY <3>2, <2>2, <2>3
      <4> QED BY <4>1, Zenon DEF Kept
    <3> QED BY <3>1, <3>2, Zenon
  <2>11. \A d \in Cells : \A h \in grants'[d] :
           h \in grants[d] \/ /\ table'[d][h[1]].generation = h[2]
                              /\ "READ" \in table'[d][h[1]].rights
                              /\ personality[d] # "absent"
    BY <1>5, <2>2, <2>3, <2>6, SMTT(30)
  <2>12. InPlace BY <1>2, <1>3, <2>4, <2>10, <2>11, Zenon DEF InPlace
  <2> QED BY <2>9, <2>12, InPlacePreserves, Zenon
<1> QED BY <1>4, <1>5, Zenon DEF CreateAndMint

LEMMA LiveFacts ==
    ASSUME IInv, NEW c \in Cells, NEW i \in SlotIds, table[c][i].in_use
    PROVE  /\ table[c] \in [SlotIds -> CapSlot]
           /\ table[c][i].object \in Objects /\ table[c][i].object < next
           /\ table[c][i].epoch = 0 /\ personality[c] # "absent"
           /\ table[c][i].rights \subseteq ceiling[c][table[c][i].object]
           /\ table[c][i].rights \in SUBSET Rights
           /\ table[c][i].generation \in 0 .. MaxGeneration
BY BoundsAssumption
   DEF IInv, TypeOK, CapSlot, Objects, SlotEpochs, Attenuation

LEMMA DeadKept ==
    ASSUME IInv, dead' = dead
    PROVE  NewDead
<1>1. dead \in [Cells -> SUBSET Handles] BY Zenon DEF IInv, TypeOK
<1> QED BY <1>1, Zenon DEF NewDead

LEMMA GrantsKept ==
    ASSUME IInv, grants' \in [Cells -> SUBSET Low32Handles],
           \A d \in Cells : grants'[d] \subseteq grants[d]
    PROVE  NewGrants
BY Zenon DEF NewGrants

(* The grant check charges the slot it passes and changes nothing else.     *)
LEMMA SpendStep ==
    ASSUME IInv, NEW c \in Cells, NEW i \in SlotIds, table[c][i].budget # 0,
           table' = [table EXCEPT ![c] = Spend(@, i)]
    PROVE  /\ table' \in [Cells -> [SlotIds -> CapSlot]]
           /\ \A d \in Cells, j \in SlotIds : Kept(d, j)
<1>1. table[c] \in [SlotIds -> CapSlot] BY Zenon DEF IInv, TypeOK
<1>2. SameCaps(Spend(table[c], i), table[c]) BY <1>1, SpendFacts, Zenon
<1>3. table' \in [Cells -> [SlotIds -> CapSlot]] BY <1>2, Zenon DEF IInv, TypeOK, SameCaps
<1>4. \A d \in Cells, j \in SlotIds : Kept(d, j)
  <2> TAKE d \in Cells, j \in SlotIds
  <2>1. CASE d = c
    <3>1. table'[d] = Spend(table[c], i) BY <2>1, Zenon DEF IInv, TypeOK
    <3> QED BY <1>2, <2>1, <3>1, Zenon DEF SameCaps, Kept
  <2>2. CASE d # c
    <3>1. table'[d] = table[d] BY <2>2, Zenon DEF IInv, TypeOK
    <3> QED BY <3>1, Zenon DEF Kept
  <2> QED BY <2>1, <2>2, Zenon
<1> QED BY <1>3, <1>4, Zenon

LEMMA SysUseStep ==
    ASSUME IInv, NEW c \in Cells, NEW h \in Low32Handles, NEW r \in Asked, SysUse(c, h, r)
    PROVE  IInv'
<1>1. h[1] \in SlotIds BY Zenon DEF Low32Handles
<1>2. table[c][h[1]].budget # 0 BY Zenon DEF SysUse, Granted
<1>3. /\ table' \in [Cells -> [SlotIds -> CapSlot]]
      /\ \A d \in Cells, j \in SlotIds : Kept(d, j)
  BY <1>1, <1>2, SpendStep, Zenon DEF SysUse
<1>4. NewDead /\ NewGrants
  <2>1. dead' = dead /\ grants' = grants /\ grants \in [Cells -> SUBSET Low32Handles]
    BY Zenon DEF SysUse, IInv, TypeOK
  <2> QED BY <2>1, DeadKept, GrantsKept, Zenon
<1> QED BY <1>3, <1>4, KeepPreserves, Zenon DEF SysUse, IInv, TypeOK, EpochsAtMostOne

LEMMA SysMunmapStep ==
    ASSUME IInv, NEW c \in Cells, NEW h \in Low32Handles, SysMunmap(c, h)
    PROVE  IInv'
<1>1. h[1] \in SlotIds BY Zenon DEF Low32Handles
<1>2. table[c][h[1]].budget # 0 BY Zenon DEF SysMunmap, Granted
<1>3. /\ table' \in [Cells -> [SlotIds -> CapSlot]]
      /\ \A d \in Cells, j \in SlotIds : Kept(d, j)
  BY <1>1, <1>2, SpendStep, Zenon DEF SysMunmap
<1>4. NewDead /\ NewGrants
  <2>1. /\ dead' = dead /\ grants' = [grants EXCEPT ![c] = @ \ {h}]
        /\ grants \in [Cells -> SUBSET Low32Handles]
    BY Zenon DEF SysMunmap, IInv, TypeOK
  <2>2. /\ grants' \in [Cells -> SUBSET Low32Handles]
        /\ \A d \in Cells : grants'[d] \subseteq grants[d]
    BY <2>1, Zenon
  <2> QED BY <2>1, <2>2, DeadKept, GrantsKept, Zenon
<1> QED BY <1>3, <1>4, KeepPreserves, Zenon DEF SysMunmap, IInv, TypeOK, EpochsAtMostOne

LEMMA SysCapRevokeStep ==
    ASSUME IInv, NEW c \in Cells, NEW h \in Low32Handles, SysCapRevoke(c, h)
    PROVE  IInv'
<1>1. h[1] \in SlotIds BY Zenon DEF Low32Handles
<1>2. table[c][h[1]].in_use /\ table[c][h[1]].epoch = epoch[table[c][h[1]].object]
  BY Zenon DEF SysCapRevoke, SlotOfLow32, Live
<1> DEFINE o == table[c][h[1]].object
<1>3. o \in Objects /\ o < next /\ epoch[o] = 0 BY <1>1, <1>2, LiveFacts, Zenon
<1>4. epoch' = [epoch EXCEPT ![o] = 1] BY <1>3, SMTT(30) DEF SysCapRevoke, IInv, TypeOK
<1>5. /\ epoch' \in [Objects -> Nat]
      /\ \A p \in Objects : epoch'[p] \in {0, 1} /\ (p >= next => epoch'[p] = 0)
  BY <1>3, <1>4 DEF IInv, TypeOK, EpochsAtMostOne, Objects
<1>6. table' = table /\ NewDead /\ NewGrants
  <2>1. /\ table' = table /\ dead' = dead /\ grants' = grants
        /\ grants \in [Cells -> SUBSET Low32Handles]
    BY Zenon DEF SysCapRevoke, IInv, TypeOK
  <2> QED BY <2>1, DeadKept, GrantsKept, Zenon
<1>7. \A d \in Cells, j \in SlotIds : Kept(d, j) BY <1>6, Zenon DEF Kept
<1> QED BY <1>5, <1>6, <1>7, KeepPreserves, Zenon DEF SysCapRevoke, IInv, TypeOK

LEMMA SysCapDropStep ==
    ASSUME IInv, NEW c \in Cells, NEW h \in Low32Handles, SysCapDrop(c, h)
    PROVE  IInv'
<1>1. h[1] \in SlotIds BY Zenon DEF Low32Handles
<1>2. table[c][h[1]].in_use BY Zenon DEF SysCapDrop, SlotOfLow32, Live
<1> DEFINE i == h[1]
<1>3. table[c] \in [SlotIds -> CapSlot] BY Zenon DEF IInv, TypeOK
<1>4. FreeResult(Free(table[c], i), table[c], i) BY <1>1, <1>3, FreeFacts, Zenon
<1>5. /\ table'[c] = Free(table[c], i)
      /\ \A d \in Cells \ {c} : table'[d] = table[d]
  BY Zenon DEF SysCapDrop, IInv, TypeOK
<1>6. table' \in [Cells -> [SlotIds -> CapSlot]]
  BY <1>4, Zenon DEF SysCapDrop, IInv, TypeOK, FreeResult
<1>7. \A d \in Cells, j \in SlotIds : Kept(d, j)
  BY <1>4, <1>5 DEF FreeResult, Kept
<1>8. NewDead
  <2>1. table[c][i].generation \in 0 .. MaxGeneration BY <1>1, <1>2, LiveFacts, Zenon
  <2>2. HandleOf(c, i) \in Handles BY <1>1, <2>1, Zenon DEF HandleOf, Handles
  <2>3. dead' = [dead EXCEPT ![c] = @ \union {HandleOf(c, i)}] BY Zenon DEF SysCapDrop
  <2>4. dead' \in [Cells -> SUBSET Handles] BY <2>2, <2>3, Zenon DEF IInv, TypeOK
  <2>5. ~table'[c][i].in_use /\ table'[c][i].generation = table[c][i].generation
    BY <1>1, <1>4, <1>5, Zenon DEF FreeResult
  <2>6. ASSUME NEW d \in Cells, NEW g \in dead'[d], g \notin dead[d]
        PROVE  ~table'[d][g[1]].in_use /\ table'[d][g[1]].generation = g[2]
    <3>1. dead \in [Cells -> SUBSET Handles] BY Zenon DEF IInv, TypeOK
    <3>2. d = c /\ g = HandleOf(c, i) BY <2>3, <2>6, <3>1, Zenon
    <3>3. g[1] = i /\ g[2] = table[c][i].generation BY <3>2, Zenon DEF HandleOf
    <3> QED BY <2>5, <3>2, <3>3, Zenon
  <2> QED BY <2>4, <2>6, Zenon DEF NewDead
<1>9. NewGrants
  <2>1. grants' = grants /\ grants \in [Cells -> SUBSET Low32Handles]
    BY Zenon DEF SysCapDrop, IInv, TypeOK
  <2> QED BY <2>1, GrantsKept, Zenon
<1> QED BY <1>6, <1>7, <1>8, <1>9, KeepPreserves, Zenon
        DEF SysCapDrop, IInv, TypeOK, EpochsAtMostOne

LEMMA SysCapDeriveStep ==
    ASSUME IInv, NEW c \in Cells, NEW h \in Low32Handles, NEW r \in Asked,
           NEW b \in Budgets, SysCapDerive(c, h, r, b)
    PROVE  IInv'
<1>1. h[1] \in SlotIds /\ r \in SUBSET Rights
  BY RightsAssumption, Zenon DEF Low32Handles
<1>2. table[c][h[1]].in_use /\ table[c][h[1]].epoch = epoch[table[c][h[1]].object]
  BY Zenon DEF SysCapDerive, SlotOfLow32, Live
<1> DEFINE o == table[c][h[1]].object
<1>3. /\ o \in Objects /\ o < next /\ epoch[o] = 0 /\ personality[c] # "absent"
      /\ table[c][h[1]].rights \subseteq ceiling[c][o]
  BY <1>1, <1>2, LiveFacts, Zenon
<1>4. r \subseteq ceiling[c][o] BY <1>3, Zenon DEF SysCapDerive, DeriveAllowed
<1>5. PICK i \in SlotIds :
        /\ AllocSlot(c, i) /\ MintRoom(c, i)
        /\ table' = [table EXCEPT ![c] = Mint(table[c], i, o, r, b)]
  BY Zenon DEF SysCapDerive
<1>6. /\ table[c] \in [SlotIds -> CapSlot] /\ table[c][i].generation < MaxGeneration
      /\ epoch \in [Objects -> Nat]
  BY <1>5, Zenon DEF IInv, TypeOK, MintRoom
<1>7. MintResult(Mint(table[c], i, o, r, b), table[c], i, o, r)
  BY <1>1, <1>3, <1>6, MintFacts, Zenon
<1>8. /\ table'[c] = Mint(table[c], i, o, r, b)
      /\ \A d \in Cells \ {c} : table'[d] = table[d]
      /\ table' \in [Cells -> [SlotIds -> CapSlot]]
  <2>1. table \in [Cells -> [SlotIds -> CapSlot]] BY Zenon DEF IInv, TypeOK
  <2>2. Mint(table[c], i, o, r, b) \in [SlotIds -> CapSlot] BY <1>7, Zenon DEF MintResult
  <2> QED BY <1>5, <2>1, <2>2, Zenon
<1>9. \A d \in Cells, j \in SlotIds : d # c \/ j # i => Kept(d, j)
  <2> DEFINE m == Mint(table[c], i, o, r, b)
  <2>1. /\ \A j \in SlotIds \ {i} : m[j] = table[c][j]
        /\ table'[c] = m /\ \A d \in Cells \ {c} : table'[d] = table[d]
    BY <1>7, <1>8, Zenon DEF MintResult
  <2> HIDE DEF m
  <2> QED BY <2>1, Zenon DEF Kept
<1>10. /\ table'[c][i].object = o /\ table'[c][i].rights = r /\ table'[c][i].epoch = 0
       /\ table'[c][i].generation = table[c][i].generation + 1
  BY <1>3, <1>7, <1>8, Zenon DEF MintResult
<1>11. NewDead /\ NewGrants /\ UNCHANGED <<booted, next, kind, epoch, personality, ceiling>>
  <2>1. /\ dead' = dead /\ grants' = grants /\ grants \in [Cells -> SUBSET Low32Handles]
        /\ UNCHANGED <<booted, next, kind, epoch, personality, ceiling>>
    BY Zenon DEF SysCapDerive, IInv, TypeOK
  <2> QED BY <2>1, DeadKept, GrantsKept, Zenon
<1>12. ceiling' \in [Cells -> [Objects -> SUBSET Rights]] BY <1>11, Zenon DEF IInv, TypeOK
<1>13. /\ AllocSlot(c, i) /\ table' \in [Cells -> [SlotIds -> CapSlot]]
       /\ ceiling' = ceiling /\ o \in Objects /\ o < next /\ personality[c] # "absent"
  BY <1>3, <1>5, <1>8, <1>11, Zenon
<1> HIDE DEF o
<1>20. MintedInto(c, i) BY <1>4, <1>9, <1>10, <1>11, <1>12, <1>13, Zenon DEF MintedInto
<1> QED BY <1>20, MintIntoPreserves, Zenon

LEMMA SysGrantShareStep ==
    ASSUME IInv, MaxGeneration < GenModulus, NEW c \in Cells, NEW peer \in Cells,
           NEW h \in Low32Handles, SysGrantShare(c, peer, h)
    PROVE  IInv'
<1> DEFINE o == table[c][h[1]].object
           u == Spend(table[c], h[1])
<1>1. h[1] \in SlotIds /\ h[2] \in Nat BY BoundsAssumption DEF Low32Handles
<1>2. /\ table[c][h[1]].in_use /\ table[c][h[1]].budget # 0
      /\ table[c][h[1]].epoch = epoch[o] /\ h \in grants[c]
      /\ table[c][h[1]].generation % GenModulus = h[2]
      /\ peer # c /\ personality[peer] # "absent"
  BY Zenon DEF SysGrantShare, NamesLow32, Granted
<1>3. /\ table[c] \in [SlotIds -> CapSlot] /\ table[peer] \in [SlotIds -> CapSlot]
      /\ o \in Objects /\ o < next /\ epoch[o] = 0
      /\ table[c][h[1]].rights \subseteq ceiling[c][o]
      /\ table[c][h[1]].generation \in 0 .. MaxGeneration
  <2>1. table[peer] \in [SlotIds -> CapSlot] BY Zenon DEF IInv, TypeOK
  <2> QED BY <1>1, <1>2, <2>1, LiveFacts, Zenon
<1>4. "READ" \in ceiling[c][o]
  <2>1. table[c][h[1]].generation = h[2]
    <3>1. /\ table[c][h[1]].generation \in Nat /\ GenModulus \in Nat \ {0}
          /\ table[c][h[1]].generation < GenModulus
      BY <1>3, BoundsAssumption
    <3>2. table[c][h[1]].generation % GenModulus = table[c][h[1]].generation
      BY <3>1, ModSmall, Zenon
    <3> QED BY <1>2, <3>2, Zenon
  <2> QED BY <1>2, <1>3, <2>1, Zenon DEF IInv, GrantRecords
<1>5. PICK i \in SlotIds :
        /\ AllocSlot(peer, i) /\ MintRoom(peer, i)
        /\ table' = [[table EXCEPT ![c] = u] EXCEPT
                        ![peer] = Mint(@, i, o, {"READ"}, BUDGET_UNLIMITED)]
        /\ ceiling' = [ceiling EXCEPT ![peer][o] = @ \union ({"READ"} \cap ceiling[c][o])]
        /\ grants' \in {grants, [grants EXCEPT ![peer] =
                           @ \union {CapId(<<i, table[peer][i].generation + 1>>)}]}
  BY Zenon DEF SysGrantShare
<1> DEFINE m == Mint(table[peer], i, o, {"READ"}, BUDGET_UNLIMITED)
<1>6. /\ table[peer][i].generation < MaxGeneration /\ epoch \in [Objects -> Nat]
      /\ {"READ"} \in SUBSET Rights /\ BUDGET_UNLIMITED \in Budgets
  BY <1>5, RightsAssumption, BoundsAssumption, SMTT(30) DEF IInv, TypeOK, MintRoom, Budgets
<1>7. MintResult(m, table[peer], i, o, {"READ"}) BY <1>3, <1>6, MintFacts, Zenon
<1>8. SameCaps(u, table[c]) BY <1>1, <1>2, <1>3, SpendFacts, Zenon
<1>9. /\ table'[peer] = m /\ table'[c] = u
      /\ \A d \in Cells \ {c, peer} : table'[d] = table[d]
      /\ table' \in [Cells -> [SlotIds -> CapSlot]]
  <2>1. table \in [Cells -> [SlotIds -> CapSlot]] BY Zenon DEF IInv, TypeOK
  <2>2. m \in [SlotIds -> CapSlot] /\ u \in [SlotIds -> CapSlot]
    BY <1>7, <1>8, Zenon DEF MintResult, SameCaps
  <2> HIDE DEF u
  <2>3. table' = [[table EXCEPT ![c] = u] EXCEPT ![peer] = m] BY <1>2, <1>5, <2>1, Zenon
  <2> HIDE DEF m
  <2> QED BY <1>2, <2>1, <2>2, <2>3, Zenon
<1>10. \A d \in Cells, j \in SlotIds : d # peer \/ j # i => Kept(d, j)
  <2> HIDE DEF m, u, o
  <2> TAKE d \in Cells, j \in SlotIds
  <2>1. CASE d = peer BY <1>7, <1>9, <2>1, Zenon DEF MintResult, Kept
  <2>2. CASE d = c BY <1>2, <1>8, <1>9, <2>2, Zenon DEF SameCaps, Kept
  <2>3. CASE d \notin {c, peer} BY <1>9, <2>3, Zenon DEF Kept
  <2> QED BY <2>1, <2>2, <2>3, Zenon
<1>11. /\ table'[peer][i].object = o /\ table'[peer][i].rights = {"READ"}
       /\ table'[peer][i].epoch = 0
       /\ table'[peer][i].generation = table[peer][i].generation + 1
  BY <1>3, <1>7, <1>9, Zenon DEF MintResult
<1>12. /\ ceiling' \in [Cells -> [Objects -> SUBSET Rights]]
       /\ {"READ"} \subseteq ceiling'[peer][o]
       /\ \A d \in Cells, p \in Objects : ceiling[d][p] \subseteq ceiling'[d][p]
  <2>1. ceiling \in [Cells -> [Objects -> SUBSET Rights]] BY Zenon DEF IInv, TypeOK
  <2> HIDE DEF o
  <2>2. ceiling' = [ceiling EXCEPT ![peer][o] = @ \union {"READ"}] BY <1>4, <1>5, Zenon
  <2>3. o \in Objects BY <1>3, Zenon
  <2> QED BY <2>1, <2>2, <2>3, RightsAssumption, SMTT(30)
<1>13. NewGrants
  <2> DEFINE g == table[peer][i].generation + 1
  <2>1. g \in 0 .. MaxGeneration
    BY <1>3, <1>6, BoundsAssumption, SMTT(30) DEF CapSlot
  <2>2. CapId(<<i, g>>) = <<i, g>> /\ <<i, g>> \in Low32Handles BY <2>1, CapIdFacts, Zenon
  <2>3. grants \in [Cells -> SUBSET Low32Handles] BY Zenon DEF IInv, TypeOK
  <2>4. /\ grants' \in [Cells -> SUBSET Low32Handles]
        /\ \A d \in Cells : \A x \in grants'[d] :
             x \in grants[d] \/ (d = peer /\ x = <<i, g>>)
    <3> HIDE DEF g
    <3> QED BY <1>5, <2>2, <2>3, Zenon DEF g
  <2> QED BY <1>2, <1>11, <2>4, SMTT(30) DEF NewGrants
<1>14. NewDead BY DeadKept, Zenon DEF SysGrantShare
<1>15. UNCHANGED <<booted, next, kind, epoch, personality>> BY Zenon DEF SysGrantShare
<1> HIDE DEF o, u, m
<1>16. /\ AllocSlot(peer, i) /\ personality[peer] # "absent" /\ o < next
       /\ table' \in [Cells -> [SlotIds -> CapSlot]]
  BY <1>2, <1>3, <1>5, <1>9, Zenon
<1>20. MintedInto(peer, i) BY <1>3, <1>10, <1>11, <1>12, <1>13, <1>14, <1>15, <1>16, Zenon DEF MintedInto
<1> QED BY <1>20, MintIntoPreserves, Zenon
=============================================================================
