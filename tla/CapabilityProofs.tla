-------------------------- MODULE CapabilityProofs --------------------------
(* The capability core's four properties (kernel/src/capability/mod.rs,     *)
(* lines 10-17), for any number of cells, objects, slots and rights.        *)
(* CapabilityInvariant has the invariant and the system calls' steps.       *)
EXTENDS CapabilityInvariant

LEMMA DeriveSubsetStep ==
    ASSUME IInv, NEW c \in Cells, NEW h \in Handles, NEW r \in SUBSET Rights,
           NEW b \in Budgets, DeriveSubset(c, h, r, b)
    PROVE  IInv'
<1> DEFINE o == table[c][h[1]].object
           u == Spend(table[c], h[1])
<1>1. h[1] \in SlotIds BY Zenon DEF Handles
<1>2. table[c][h[1]].in_use /\ table[c][h[1]].budget # 0
  BY Zenon DEF DeriveSubset, Names, Granted
<1>3. /\ table[c] \in [SlotIds -> CapSlot] /\ table \in [Cells -> [SlotIds -> CapSlot]]
      /\ o \in Objects /\ o < next /\ epoch[o] \in {0, 1}
      /\ table[c][h[1]].rights \subseteq ceiling[c][o]
      /\ epoch \in [Objects -> Nat] /\ personality[c] # "absent"
  <2>1. table \in [Cells -> [SlotIds -> CapSlot]] /\ epoch \in [Objects -> Nat]
    BY Zenon DEF IInv, TypeOK
  <2> QED BY <1>1, <1>2, <2>1, LiveFacts, Zenon DEF IInv, EpochsAtMostOne
<1>4. epoch[o] = 0
  BY <1>1, <1>2, LiveFacts, Zenon DEF DeriveSubset, Granted
<1>5. SameCaps(u, table[c]) BY <1>1, <1>2, <1>3, SpendFacts, Zenon
<1>6. UNCHANGED <<booted, next, kind, epoch, personality, grants, ceiling, dead>>
  BY Zenon DEF DeriveSubset
<1>7. NewDead /\ NewGrants
  <2>1. grants \in [Cells -> SUBSET Low32Handles] BY Zenon DEF IInv, TypeOK
  <2> QED BY <1>6, <2>1, DeadKept, GrantsKept, Zenon
<1>8. ceiling \in [Cells -> [Objects -> SUBSET Rights]] BY Zenon DEF IInv, TypeOK
<1>9. CASE table' = [table EXCEPT ![c] = u] /\ UNCHANGED pages
  <2> HIDE DEF u, o
  <2>1. /\ table' \in [Cells -> [SlotIds -> CapSlot]]
        /\ \A d \in Cells, j \in SlotIds : Kept(d, j)
    BY <1>3, <1>5, <1>9, Zenon DEF SameCaps, Kept
  <2>2. \A p \in Objects : epoch'[p] \in {0, 1} /\ (p >= next => epoch'[p] = 0)
    BY <1>6, Zenon DEF IInv, EpochsAtMostOne
  <2> QED BY <1>3, <1>6, <1>7, <1>9, <2>1, <2>2, KeepPreserves, Zenon
<1>10. ASSUME NEW i \in SlotIds, AllocSlot(c, i), MintRoom(c, i),
              r \subseteq table[c][h[1]].rights,
              table' = [table EXCEPT ![c] = Mint(Spend(@, h[1]), i, @[h[1]].object, r, b)]
       PROVE  IInv'
  <2> DEFINE m == Mint(u, i, o, r, b)
  <2>1. /\ u \in [SlotIds -> CapSlot] /\ u[i].generation = table[c][i].generation
        /\ u[i].generation < MaxGeneration
    BY <1>5, <1>10, Zenon DEF SameCaps, MintRoom
  <2>2. MintResult(m, u, i, o, r) BY <1>3, <2>1, MintFacts, Zenon
  <2>3. table' = [table EXCEPT ![c] = m] BY <1>3, <1>10, Zenon
  <2> HIDE DEF m, u, o
  <2>4. /\ table' \in [Cells -> [SlotIds -> CapSlot]] /\ table'[c] = m
        /\ \A d \in Cells \ {c} : table'[d] = table[d]
    BY <1>3, <2>2, <2>3, Zenon DEF MintResult
  <2>5. \A d \in Cells, j \in SlotIds : d # c \/ j # i => Kept(d, j)
    BY <1>5, <2>2, <2>4, SMTT(30) DEF MintResult, SameCaps, Kept
  <2>6. /\ table'[c][i].object = o /\ table'[c][i].rights = r /\ table'[c][i].epoch = 0
        /\ table'[c][i].generation = table[c][i].generation + 1
    BY <1>4, <2>1, <2>2, <2>4, Zenon DEF MintResult
  <2>7. /\ r \subseteq ceiling'[c][o] /\ ceiling' \in [Cells -> [Objects -> SUBSET Rights]]
        /\ \A d \in Cells, p \in Objects : ceiling[d][p] \subseteq ceiling'[d][p]
    BY <1>3, <1>6, <1>8, <1>10, Zenon
  <2>8. /\ AllocSlot(c, i) /\ table' \in [Cells -> [SlotIds -> CapSlot]]
        /\ o \in Objects /\ o < next /\ personality[c] # "absent"
    BY <1>3, <1>10, <2>4, Zenon
  <2>20. MintedInto(c, i) BY <1>6, <1>7, <2>5, <2>6, <2>7, <2>8, Zenon DEF MintedInto
  <2> QED BY <2>20, MintIntoPreserves, Zenon
<1> QED BY <1>9, <1>10, Zenon DEF DeriveSubset

LEMMA DelegateStep ==
    ASSUME IInv, NEW c \in Cells, NEW target \in Cells, NEW h \in Handles,
           Delegate(c, h, target)
    PROVE  IInv'
<1> DEFINE o == table[c][h[1]].object
           u == Spend(table[c], h[1])
           r == table[c][h[1]].rights
           f == Free(u, h[1])
<1>1. h[1] \in SlotIds /\ h[2] \in 0 .. MaxGeneration BY Zenon DEF Handles
<1>2. /\ table[c][h[1]].in_use /\ table[c][h[1]].budget # 0
      /\ table[c][h[1]].generation = h[2] /\ table[c][h[1]].epoch = epoch[o]
      /\ target # c /\ personality[target] # "absent"
  BY Zenon DEF Delegate, Names, Granted
<1>3. /\ table[c] \in [SlotIds -> CapSlot] /\ table \in [Cells -> [SlotIds -> CapSlot]]
      /\ table[target] \in [SlotIds -> CapSlot]
      /\ o \in Objects /\ o < next /\ epoch[o] = 0
      /\ r \subseteq ceiling[c][o] /\ r \in SUBSET Rights
      /\ epoch \in [Objects -> Nat]
  <2>1. table \in [Cells -> [SlotIds -> CapSlot]] /\ epoch \in [Objects -> Nat]
    BY Zenon DEF IInv, TypeOK
  <2> QED BY <1>1, <1>2, <2>1, LiveFacts, Zenon
<1>5. SameCaps(u, table[c]) BY <1>1, <1>2, <1>3, SpendFacts, Zenon
<1>6. UNCHANGED <<booted, next, kind, epoch, personality, grants>>
  BY Zenon DEF Delegate
<1>7. NewGrants
  <2>1. grants \in [Cells -> SUBSET Low32Handles] BY Zenon DEF IInv, TypeOK
  <2> QED BY <1>6, <2>1, GrantsKept, Zenon
<1>8. ceiling \in [Cells -> [Objects -> SUBSET Rights]] BY Zenon DEF IInv, TypeOK
<1>9. CASE table' = [table EXCEPT ![c] = u] /\ UNCHANGED <<pages, ceiling, dead>>
  <2>a. NewDead BY <1>9, DeadKept, Zenon
  <2> HIDE DEF u, o, r, f
  <2>1. /\ table' \in [Cells -> [SlotIds -> CapSlot]]
        /\ \A d \in Cells, j \in SlotIds : Kept(d, j)
    BY <1>3, <1>5, <1>9, Zenon DEF SameCaps, Kept
  <2>2. \A p \in Objects : epoch'[p] \in {0, 1} /\ (p >= next => epoch'[p] = 0)
    BY <1>6, Zenon DEF IInv, EpochsAtMostOne
  <2> QED BY <1>3, <1>6, <1>7, <1>9, <2>a, <2>1, <2>2, KeepPreserves, Zenon
<1>10. ASSUME NEW i \in SlotIds, AllocSlot(target, i), MintRoom(target, i),
              table' = [table EXCEPT ![c] = f,
                          ![target] = Mint(@, i, o, u[h[1]].rights, u[h[1]].budget)],
              ceiling' = [ceiling EXCEPT ![target][o] = @ \union r],
              dead' = [dead EXCEPT ![c] = @ \union {h}]
       PROVE  IInv'
  <2> DEFINE m == Mint(table[target], i, o, r, u[h[1]].budget)
  <2>1. /\ u \in [SlotIds -> CapSlot] /\ u[h[1]].rights = r /\ u[h[1]].budget \in Budgets
        /\ table[target][i].generation < MaxGeneration
    BY <1>1, <1>5, <1>10, Zenon DEF SameCaps, MintRoom, CapSlot
  <2>2. MintResult(m, table[target], i, o, r) BY <1>3, <2>1, MintFacts, Zenon
  <2>3. FreeResult(f, u, h[1]) BY <1>1, <2>1, FreeFacts, Zenon
  <2>4. table' = [[table EXCEPT ![c] = f] EXCEPT ![target] = m]
    <3> HIDE DEF u, o, r, f
    <3> QED BY <1>2, <1>3, <1>10, <2>1, Zenon
  <2> HIDE DEF m, u, o, r, f
  <2>5. /\ table' \in [Cells -> [SlotIds -> CapSlot]] /\ table'[target] = m
        /\ table'[c] = f /\ \A d \in Cells \ {c, target} : table'[d] = table[d]
    BY <1>2, <1>3, <2>2, <2>3, <2>4, Zenon DEF MintResult, FreeResult
  <2>6. \A d \in Cells, j \in SlotIds : d # target \/ j # i => Kept(d, j)
    <3> TAKE d \in Cells, j \in SlotIds
    <3>1. CASE d = target BY <2>2, <2>5, <3>1, Zenon DEF MintResult, Kept
    <3>2. CASE d = c BY <1>2, <1>5, <2>3, <2>5, <3>2, SMTT(30) DEF SameCaps, FreeResult, Kept
    <3>3. CASE d \notin {c, target} BY <2>5, <3>3, Zenon DEF Kept
    <3> QED BY <3>1, <3>2, <3>3, Zenon
  <2>7. /\ table'[target][i].object = o /\ table'[target][i].rights = r
        /\ table'[target][i].epoch = 0
        /\ table'[target][i].generation = table[target][i].generation + 1
    BY <1>3, <2>2, <2>5, Zenon DEF MintResult
  <2>8. /\ r \subseteq ceiling'[target][o]
        /\ ceiling' \in [Cells -> [Objects -> SUBSET Rights]]
        /\ \A d \in Cells, p \in Objects : ceiling[d][p] \subseteq ceiling'[d][p]
    BY <1>3, <1>8, <1>10, Zenon
  <2>9. NewDead
    <3>1. dead \in [Cells -> SUBSET Handles] BY Zenon DEF IInv, TypeOK
    <3>2. ~table'[c][h[1]].in_use /\ table'[c][h[1]].generation = h[2]
      BY <1>1, <1>2, <1>5, <2>3, <2>5, SMTT(30) DEF SameCaps, FreeResult
    <3> QED BY <1>10, <3>1, <3>2, Zenon DEF NewDead
  <2>10. /\ AllocSlot(target, i) /\ personality[target] # "absent"
         /\ o \in Objects /\ o < next
    BY <1>2, <1>3, <1>10, Zenon
  <2>11. UNCHANGED <<booted, next, kind, epoch, personality>> BY <1>6, Zenon
  <2>12. table' \in [Cells -> [SlotIds -> CapSlot]] BY <2>5, Zenon
  <2>20. MintedInto(target, i) BY <1>7, <2>6, <2>7, <2>8, <2>9, <2>10, <2>11, <2>12, Zenon DEF MintedInto
  <2> QED BY <2>20, MintIntoPreserves, Zenon
<1>11. \/ table' = [table EXCEPT ![c] = u] /\ UNCHANGED <<pages, ceiling, dead>>
       \/ /\ \E i \in SlotIds :
               /\ AllocSlot(target, i) /\ MintRoom(target, i)
               /\ table' = [table EXCEPT ![c] = f,
                              ![target] = Mint(@, i, o, u[h[1]].rights, u[h[1]].budget)]
          /\ ceiling' = [ceiling EXCEPT ![target][o] = @ \union r]
          /\ dead' = [dead EXCEPT ![c] = @ \union {h}]
  BY Zenon DEF Delegate
<1> HIDE DEF u, o, r, f
<1> QED BY <1>9, <1>10, <1>11, Zenon

----------------------------------------------------------------------------
(* A cell slot changes hands: its whole table is written anew.              *)
Elsewhere(c) ==
    \A d \in Cells \ {c} :
        /\ table'[d] = table[d] /\ ceiling'[d] = ceiling[d] /\ grants'[d] = grants[d]
        /\ dead'[d] = dead[d] /\ personality'[d] = personality[d] /\ pages'[d] = pages[d]

LEMMA ReplacePreserves ==
    ASSUME IInv, NEW c \in Cells, TypeOK', EpochsAtMostOne', Elsewhere(c),
           grants'[c] = {}, dead'[c] = {}, personality'[c] = "absent" => c \notin Tops,
           \A i \in SlotIds : table'[c][i].in_use =>
             /\ table'[c][i].epoch = 0
             /\ table'[c][i].rights \subseteq ceiling'[c][table'[c][i].object]
    PROVE  IInv'
<1>1. Attenuation' BY DEF IInv, Attenuation, Elsewhere
<1>2. SlotEpochs' BY DEF IInv, SlotEpochs, Elsewhere
<1>3. DeadAreOlder' BY Zenon DEF IInv, DeadAreOlder, Elsewhere
<1>4. GrantRecords' BY DEF IInv, GrantRecords, Elsewhere
<1>5. AbsentIsClean' BY Zenon DEF IInv, AbsentIsClean, Elsewhere
<1> QED BY <1>1, <1>2, <1>3, <1>4, <1>5, Zenon DEF IInv

(* The typing half, for a new table of cell c that fits its capacity.       *)
LEMMA ReplaceTypes ==
    ASSUME TypeOK, NEW c \in Cells, Elsewhere(c), booted' \in BOOLEAN,
           next' \in 0 .. MaxObjects, next <= next',
           kind' \in [Objects -> Kinds], epoch' \in [Objects -> Nat],
           NEW q \in {"absent", "native", "linux"},
           personality' = [personality EXCEPT ![c] = q],
           NEW n \in 0 .. MaxPages, pages' = [pages EXCEPT ![c] = n],
           NEW t \in [SlotIds -> CapSlot], table' = [table EXCEPT ![c] = t],
           NEW w \in [Objects -> SUBSET Rights], ceiling' = [ceiling EXCEPT ![c] = w],
           grants' = [grants EXCEPT ![c] = {}], dead' = [dead EXCEPT ![c] = {}],
           \A i \in SlotIds : t[i].in_use =>
             i < Inline + n * PerPage /\ t[i].object < next' /\ q # "absent"
    PROVE  TypeOK'
<1>1. /\ personality' \in [Cells -> {"absent", "native", "linux"}]
      /\ pages' \in [Cells -> 0 .. MaxPages]
      /\ table' \in [Cells -> [SlotIds -> CapSlot]]
      /\ grants' \in [Cells -> SUBSET Low32Handles]
      /\ ceiling' \in [Cells -> [Objects -> SUBSET Rights]]
      /\ dead' \in [Cells -> SUBSET Handles]
      /\ table'[c] = t /\ pages'[c] = n /\ personality'[c] = q
  BY Zenon DEF TypeOK
<1>2. ASSUME NEW d \in Cells, NEW i \in SlotIds, table'[d][i].in_use
      PROVE  /\ i < Inline + pages'[d] * PerPage /\ table'[d][i].object < next'
             /\ personality'[d] # "absent"
  <2>1. CASE d = c BY <1>1, <1>2, <2>1, Zenon
  <2>2. CASE d # c
    <3>1. /\ table'[d] = table[d] /\ pages'[d] = pages[d] /\ personality'[d] = personality[d]
          /\ table[d][i].in_use
      BY <1>2, <2>2, Zenon DEF Elsewhere
    <3>2. /\ i < Inline + pages[d] * PerPage /\ table[d][i].object < next
          /\ personality[d] # "absent"
      BY <3>1, Zenon DEF TypeOK, capacity
    <3>3. table[d][i].object \in Nat /\ next \in Nat /\ next' \in Nat
      BY BoundsAssumption DEF TypeOK, CapSlot
    <3> QED BY <3>1, <3>2, <3>3
  <2> QED BY <2>1, <2>2, Zenon
<1> QED BY <1>1, <1>2, Zenon DEF TypeOK, capacity

LEMMA EmptyTableTyped == EmptyTable \in [SlotIds -> CapSlot]
BY BoundsAssumption DEF EmptyTable, EMPTY_SLOT, CapSlot, Budgets

LEMMA FreeCellStep ==
    ASSUME IInv, NEW c \in Cells, FreeCell(c)
    PROVE  IInv'
<1>1. /\ Elsewhere(c) /\ grants'[c] = {} /\ dead'[c] = {}
      /\ UNCHANGED <<booted, next, kind, epoch>> /\ c \notin Tops
      /\ table'[c] = EmptyTable
  BY Zenon DEF FreeCell, Elsewhere, IInv, TypeOK
<1>2. \A i \in SlotIds : ~table'[c][i].in_use BY <1>1 DEF EmptyTable, EMPTY_SLOT
<1>3. /\ booted' \in BOOLEAN /\ next' \in 0 .. MaxObjects /\ next <= next'
      /\ kind' \in [Objects -> Kinds] /\ epoch' \in [Objects -> Nat]
      /\ 0 \in 0 .. MaxPages /\ NoRights \in [Objects -> SUBSET Rights]
      /\ \A i \in SlotIds : ~EmptyTable[i].in_use
  BY <1>1, <1>2, BoundsAssumption, SMTT(30) DEF IInv, TypeOK, NoRights
<1>4. TypeOK'
  BY <1>1, <1>3, EmptyTableTyped, ReplaceTypes, Zenon DEF FreeCell, IInv
<1>5. EpochsAtMostOne' BY <1>1, Zenon DEF IInv, EpochsAtMostOne
<1> QED BY <1>1, <1>2, <1>4, <1>5, ReplacePreserves, Zenon

LEMMA ForkStep ==
    ASSUME IInv, NEW p \in Cells, NEW c \in Cells, Fork(p, c)
    PROVE  IInv'
<1> DEFINE t == CopyFrom(table[p])
<1>1. p # c /\ grants[c] = {} BY Zenon DEF Fork, IInv, AbsentIsClean
<1>2. PICK n \in 0 .. pages[p] :
        /\ \A i \in SlotIds : table[p][i].in_use => i < Inline + n * PerPage
        /\ pages' = [pages EXCEPT ![c] = n]
  BY Zenon DEF Fork
<1>3. /\ table[p] \in [SlotIds -> CapSlot] /\ ceiling[p] \in [Objects -> SUBSET Rights]
      /\ n \in 0 .. MaxPages
      /\ grants \in [Cells -> SUBSET Low32Handles]
  <2>1. pages[p] \in 0 .. MaxPages BY Zenon DEF IInv, TypeOK
  <2> QED BY <2>1, BoundsAssumption DEF IInv, TypeOK
<1>4. /\ t \in [SlotIds -> CapSlot]
      /\ \A i \in SlotIds : t[i].in_use => table[p][i].in_use /\ t[i] = table[p][i]
  <2>1. EMPTY_SLOT \in CapSlot /\ ~EMPTY_SLOT.in_use
    BY BoundsAssumption DEF EMPTY_SLOT, CapSlot, Budgets
  <2> QED BY <1>3, <2>1, Zenon DEF CopyFrom
<1>5. /\ table' = [table EXCEPT ![c] = t] /\ ceiling' = [ceiling EXCEPT ![c] = ceiling[p]]
      /\ personality' = [personality EXCEPT ![c] = "linux"]
      /\ dead' = [dead EXCEPT ![c] = {}] /\ UNCHANGED <<booted, next, kind, epoch, grants>>
  BY Zenon DEF Fork
<1>6. grants' = [grants EXCEPT ![c] = {}] BY <1>1, <1>3, <1>5, Zenon
<1> HIDE DEF t
<1>7. /\ Elsewhere(c) /\ grants'[c] = {} /\ dead'[c] = {} /\ table'[c] = t
      /\ ceiling'[c] = ceiling[p] /\ personality'[c] = "linux"
  BY <1>2, <1>5, <1>6, Zenon DEF Elsewhere, IInv, TypeOK
<1>8. /\ booted' \in BOOLEAN /\ next' \in 0 .. MaxObjects /\ next <= next'
      /\ kind' \in [Objects -> Kinds] /\ epoch' \in [Objects -> Nat]
  BY <1>5, BoundsAssumption DEF IInv, TypeOK
<1>9. \A i \in SlotIds : t[i].in_use => i < Inline + n * PerPage /\ t[i].object < next'
  BY <1>2, <1>4, <1>5, LiveFacts, Zenon
<1>10. TypeOK'
  BY <1>2, <1>3, <1>4, <1>5, <1>6, <1>7, <1>8, <1>9, ReplaceTypes, Zenon DEF IInv
<1>11. EpochsAtMostOne' BY <1>5, Zenon DEF IInv, EpochsAtMostOne
<1>12. \A i \in SlotIds : table'[c][i].in_use =>
         /\ table'[c][i].epoch = 0
         /\ table'[c][i].rights \subseteq ceiling'[c][table'[c][i].object]
  BY <1>4, <1>7, LiveFacts, SMTT(30)
<1> QED BY <1>7, <1>10, <1>11, <1>12, ReplacePreserves, Zenon

LEMMA SpawnStep ==
    ASSUME IInv, NEW p \in Cells, NEW c \in Cells, NEW n \in 1 .. 2, Spawn(p, c, n)
    PROVE  IInv'
<1> DEFINE t == SpawnedTable(n)
           w == [o \in Objects |-> IF o \in next .. next + n - 1 THEN {"READ", "WRITE"} ELSE {}]
<1>1. /\ next \in Nat /\ next + n <= MaxObjects /\ MaxGeneration > 0 /\ next' = next + n
      /\ next' \in 0 .. MaxObjects /\ next <= next' /\ UNCHANGED booted
  BY BoundsAssumption DEF Spawn, IInv, TypeOK
<1>2. /\ personality' = [personality EXCEPT ![c] = "native"]
      /\ table' = [table EXCEPT ![c] = t] /\ pages' = [pages EXCEPT ![c] = 0]
      /\ ceiling' = [ceiling EXCEPT ![c] = w]
      /\ grants' = [grants EXCEPT ![c] = {}] /\ dead' = [dead EXCEPT ![c] = {}]
  BY Zenon DEF Spawn
<1>3. /\ kind' \in [Objects -> Kinds] /\ epoch' \in [Objects -> Nat] /\ EpochsAtMostOne'
  <2>1. /\ kind' = [o \in Objects |-> IF o \in next .. next + n - 1 THEN "QueuePair" ELSE kind[o]]
        /\ epoch' = [o \in Objects |-> IF o \in next .. next + n - 1 THEN 0 ELSE epoch[o]]
    BY Zenon DEF Spawn
  <2>2. kind \in [Objects -> Kinds] /\ epoch \in [Objects -> Nat] /\ EpochsAtMostOne
    BY Zenon DEF IInv, TypeOK
  <2> QED BY <1>1, <2>1, <2>2 DEF Kinds, Objects, EpochsAtMostOne
<1>4. /\ w \in [Objects -> SUBSET Rights]
      /\ \A i \in SlotIds : i < n => next + i \in Objects /\ w[next + i] = {"READ", "WRITE"}
  BY <1>1, RightsAssumption, BoundsAssumption DEF Objects, SlotIds
<1>5. /\ t \in [SlotIds -> CapSlot]
      /\ \A i \in SlotIds : t[i].in_use =>
           /\ i < n /\ t[i].object = next + i /\ t[i].rights = {"READ", "WRITE"}
           /\ t[i].epoch = 0
  <2>1. EMPTY_SLOT \in CapSlot /\ ~EMPTY_SLOT.in_use
    BY BoundsAssumption DEF EMPTY_SLOT, CapSlot, Budgets
  <2>2. ASSUME NEW i \in SlotIds
        PROVE  [in_use |-> TRUE, object |-> next + i, rights |-> {"READ", "WRITE"},
                epoch |-> 0, generation |-> 1, budget |-> BUDGET_UNLIMITED] \in CapSlot
    BY <1>1, RightsAssumption, BoundsAssumption DEF CapSlot, Budgets, SlotIds
  <2> QED BY <2>1, <2>2, Zenon DEF SpawnedTable
<1> HIDE DEF t, w
<1>6. /\ Elsewhere(c) /\ grants'[c] = {} /\ dead'[c] = {} /\ table'[c] = t
      /\ ceiling'[c] = w /\ personality'[c] = "native"
  BY <1>2, Zenon DEF Elsewhere, IInv, TypeOK
<1>7. \A i \in SlotIds : t[i].in_use => i < Inline + 0 * PerPage /\ t[i].object < next'
  BY <1>1, <1>5, BoundsAssumption DEF SlotIds
<1>8. TypeOK'
  <2>1. booted' \in BOOLEAN /\ 0 \in 0 .. MaxPages BY <1>1, BoundsAssumption DEF IInv, TypeOK
  <2> QED BY <1>1, <1>2, <1>3, <1>4, <1>5, <1>6, <1>7, <2>1, ReplaceTypes, Zenon DEF IInv
<1>9. \A i \in SlotIds : table'[c][i].in_use =>
         /\ table'[c][i].epoch = 0
         /\ table'[c][i].rights \subseteq ceiling'[c][table'[c][i].object]
  BY <1>4, <1>5, <1>6, Zenon
<1> QED BY <1>3, <1>6, <1>8, <1>9, ReplacePreserves, Zenon

(* A failed spawn consumes an object id and leaves every table alone.       *)
LEMMA SpawnUnwoundStep ==
    ASSUME IInv, NEW p \in Cells, NEW c \in Cells, SpawnUnwound(p, c)
    PROVE  IInv'
<1>1. /\ next \in Objects /\ next \in Nat /\ next' = next + 1 /\ next' \in 0 .. MaxObjects
      /\ kind' \in [Objects -> Kinds] /\ epoch' \in [Objects -> Nat]
      /\ epoch'[next] = 0 /\ \A o \in Objects \ {next} : epoch'[o] = epoch[o]
  BY BoundsAssumption DEF SpawnUnwound, Create, Objects, Kinds, IInv, TypeOK
<1>2. UNCHANGED <<booted, personality, pages, table, grants, ceiling, dead>>
  BY Zenon DEF SpawnUnwound
<1>3. \A o \in Objects : epoch'[o] \in {0, 1} /\ (o >= next' => epoch'[o] = 0)
  BY <1>1 DEF IInv, EpochsAtMostOne, Objects
<1>4. TypeOK' BY <1>1, <1>2 DEF capacity, CapSlot, IInv, TypeOK
<1>5. InPlace BY <1>2, <1>3, Zenon DEF InPlace, Kept, IInv, TypeOK
<1> QED BY <1>4, <1>5, InPlacePreserves, Zenon

LEMMA StutterStep ==
    ASSUME IInv, UNCHANGED <<next, kind, epoch, personality, pages, table, grants,
                             ceiling, dead>>, booted' \in BOOLEAN
    PROVE  IInv'
<1>1. TypeOK' BY Zenon DEF IInv, TypeOK, capacity
<1>2. Attenuation' /\ EpochsAtMostOne' /\ SlotEpochs'
  BY Zenon DEF IInv, Attenuation, EpochsAtMostOne, SlotEpochs
<1>3. DeadAreOlder' /\ GrantRecords' /\ AbsentIsClean'
  BY Zenon DEF IInv, DeadAreOlder, GrantRecords, AbsentIsClean
<1> QED BY <1>1, <1>2, <1>3, Zenon DEF IInv

----------------------------------------------------------------------------
LEMMA InitIInv == Init => IInv
<1> SUFFICES ASSUME Init PROVE IInv OBVIOUS
<1>1. /\ table = [c \in Cells |-> EmptyTable] /\ grants = [c \in Cells |-> {}]
      /\ dead = [c \in Cells |-> {}] /\ ceiling = [c \in Cells |-> NoRights]
      /\ epoch = [o \in Objects |-> 0]
  BY Zenon DEF Init
<1>2. \A c \in Cells, i \in SlotIds : ~table[c][i].in_use
  BY <1>1, Zenon DEF EmptyTable, EMPTY_SLOT
<1>3. NoRights \in [Objects -> SUBSET Rights] /\ "MemoryGrant" \in Kinds
  BY Zenon DEF NoRights, Kinds
<1>4. TypeOK
  <2>1. /\ table \in [Cells -> [SlotIds -> CapSlot]] /\ grants \in [Cells -> SUBSET Low32Handles]
        /\ dead \in [Cells -> SUBSET Handles]
        /\ ceiling \in [Cells -> [Objects -> SUBSET Rights]]
    BY <1>1, <1>3, EmptyTableTyped, Zenon
  <2>2. /\ booted \in BOOLEAN /\ next \in 0 .. MaxObjects /\ kind \in [Objects -> Kinds]
        /\ epoch \in [Objects -> Nat] /\ pages \in [Cells -> 0 .. MaxPages]
        /\ personality \in [Cells -> {"absent", "native", "linux"}]
    <3>1. /\ kind = [o \in Objects |-> "MemoryGrant"] /\ pages = [c \in Cells |-> 0]
          /\ booted = FALSE /\ next = 0 /\ 0 \in 0 .. MaxObjects /\ 0 \in 0 .. MaxPages
      BY BoundsAssumption DEF Init
    <3>2. personality \in [Cells -> {"absent", "native", "linux"}] BY Zenon DEF Init
    <3> QED BY <1>1, <1>3, <3>1, <3>2, Zenon
  <2> QED BY <1>2, <2>1, <2>2, Zenon DEF TypeOK
<1> QED BY <1>1, <1>2, <1>4, Zenon
        DEF Init, IInv, Attenuation, EpochsAtMostOne, SlotEpochs, DeadAreOlder,
            GrantRecords, AbsentIsClean

LEMMA SyscallStep ==
    ASSUME IInv, MaxGeneration < GenModulus, SyscallNext
    PROVE  IInv'
<1>1. ASSUME NEW c \in Cells, NEW k \in Kinds, NEW r \in Asked, LauncherMint(c, k, r)
      PROVE  IInv'
  <2>1. r \in SUBSET Rights /\ c \in Tops /\ CreateAndMint(c, k, r, FALSE) /\ UNCHANGED booted
    BY <1>1, RightsAssumption, Zenon DEF LauncherMint
  <2>2. personality[c] # "absent" BY <2>1, Zenon DEF IInv, AbsentIsClean
  <2> QED BY <2>1, <2>2, CreateAndMintStep, Zenon
<1>2. CASE Boot BY <1>2, StutterStep, Zenon DEF Boot
<1>3. ASSUME NEW c \in Cells, SysGrant(c) PROVE IInv'
  <2> DEFINE all == {"READ", "WRITE", "MAP", "DELEGATE", "REVOKE"}
  <2>1. /\ all \in SUBSET Rights /\ "READ" \in all /\ personality[c] # "absent"
        /\ UNCHANGED booted /\ "MemoryGrant" \in Kinds
        /\ \/ CreateAndMint(c, "MemoryGrant", all, TRUE)
           \/ CreateAndMint(c, "MemoryGrant", all, FALSE)
    BY <1>3, RightsAssumption, Zenon DEF SysGrant, Native, Kinds
  <2> HIDE DEF all
  <2> QED BY <2>1, CreateAndMintStep, Zenon
<1>4. ASSUME NEW c \in Cells, SysReserve(c) PROVE IInv'
  <2>1. /\ {"READ"} \in SUBSET Rights /\ personality[c] # "absent" /\ UNCHANGED booted
        /\ "Reservation" \in Kinds /\ CreateAndMint(c, "Reservation", {"READ"}, FALSE)
    BY <1>4, RightsAssumption, Zenon DEF SysReserve, Native, Kinds
  <2> QED BY <2>1, CreateAndMintStep, Zenon
<1>5. ASSUME NEW c \in Cells, FreeCell(c) PROVE IInv' BY <1>5, FreeCellStep, Zenon
<1>6. ASSUME NEW c \in Cells, NEW h \in Low32Handles,
             \/ \E r \in Asked : SysUse(c, h, r)
             \/ \E r \in Asked, b \in Budgets : SysCapDerive(c, h, r, b)
             \/ SysCapRevoke(c, h)
             \/ SysCapDrop(c, h)
             \/ SysMunmap(c, h)
             \/ \E peer \in Cells : SysGrantShare(c, peer, h)
      PROVE  IInv'
  <2>1. CASE \E r \in Asked : SysUse(c, h, r) BY <2>1, SysUseStep, Zenon
  <2>2. CASE \E r \in Asked, b \in Budgets : SysCapDerive(c, h, r, b)
    BY <2>2, SysCapDeriveStep, Zenon
  <2>3. CASE SysCapRevoke(c, h) BY <2>3, SysCapRevokeStep, Zenon
  <2>4. CASE SysCapDrop(c, h) BY <2>4, SysCapDropStep, Zenon
  <2>5. CASE SysMunmap(c, h) BY <2>5, SysMunmapStep, Zenon
  <2>6. CASE \E peer \in Cells : SysGrantShare(c, peer, h) BY <2>6, SysGrantShareStep, Zenon
  <2> QED BY <1>6, <2>1, <2>2, <2>3, <2>4, <2>5, <2>6, Zenon
<1>7. ASSUME NEW p \in Cells, NEW c \in Cells,
             Fork(p, c) \/ SpawnUnwound(p, c) \/ (\E n \in 1 .. 2 : Spawn(p, c, n))
      PROVE  IInv'
  BY <1>7, ForkStep, SpawnUnwoundStep, SpawnStep, Zenon
<1> QED BY <1>1, <1>2, <1>3, <1>4, <1>5, <1>6, <1>7, Zenon DEF SyscallNext

LEMMA KernelStep ==
    ASSUME IInv, KernelNext
    PROVE  IInv'
<1>1. ASSUME NEW c \in Cells, NEW h \in Handles, NEW r \in Asked, NEW b \in Budgets,
             DeriveSubset(c, h, r, b)
      PROVE  IInv'
  BY <1>1, RightsAssumption, DeriveSubsetStep, Zenon
<1>2. ASSUME NEW c \in Cells, NEW h \in Handles, NEW target \in Cells, Delegate(c, h, target)
      PROVE  IInv'
  BY <1>2, DelegateStep, Zenon
<1> QED BY <1>1, <1>2, Zenon DEF KernelNext

LEMMA Inductive == MaxGeneration < GenModulus /\ IInv /\ [Next]_vars => IInv'
<1>1. IInv /\ UNCHANGED vars => IInv'
  <2> SUFFICES ASSUME IInv, UNCHANGED vars PROVE IInv' OBVIOUS
  <2>1. booted' \in BOOLEAN BY Zenon DEF IInv, TypeOK, vars
  <2> QED BY <2>1, StutterStep, Zenon DEF vars
<1> QED BY <1>1, SyscallStep, KernelStep, Zenon DEF Next

(* While no slot is minted into more often than a 32-bit handle's           *)
(* generation half can tell apart, the invariant holds in every state.      *)
THEOREM Invariance == MaxGeneration < GenModulus => (Spec => []IInv)
<1> SUFFICES ASSUME MaxGeneration < GenModulus PROVE Spec => []IInv OBVIOUS
<1>1. IInv /\ [Next]_vars => IInv' BY Inductive, Zenon
<1> QED BY <1>1, InitIInv, PTL DEF Spec

(* Every table stays well typed: a live slot lies inside its table and      *)
(* names an object that was created.                                        *)
THEOREM TypeCorrect == MaxGeneration < GenModulus => (Spec => []TypeOK)
<1>1. IInv => TypeOK BY Zenon DEF IInv
<1> QED BY <1>1, Invariance, PTL

(* Monotonic attenuation: whatever the calls, no table carries a right the  *)
(* cell was not given (capability/mod.rs, properties 2 and 4).              *)
THEOREM AttenuationHolds == MaxGeneration < GenModulus => (Spec => []Attenuation)
<1>1. IInv => Attenuation BY Zenon DEF IInv
<1> QED BY <1>1, Invariance, PTL

(* Revocation is sound and final: one epoch step kills every capability to  *)
(* the object, and nothing brings one back (capability/mod.rs, property 3). *)
THEOREM RevocationHolds == MaxGeneration < GenModulus => (Spec => []RevocationIsFinal)
<1>1. IInv => RevocationIsFinal
  <2> SUFFICES ASSUME IInv, NEW o \in Objects, epoch[o] > 0
               PROVE  /\ epoch[o] = 1
                      /\ \A c \in Cells, i \in SlotIds :
                           table[c][i].object = o => ~Live(c, i)
    BY Zenon DEF RevocationIsFinal
  <2>1. epoch[o] = 1 BY DEF IInv, EpochsAtMostOne
  <2>2. ASSUME NEW c \in Cells, NEW i \in SlotIds, table[c][i].object = o
        PROVE  ~Live(c, i)
    BY <2>1, <2>2 DEF IInv, SlotEpochs, Live
  <2> QED BY <2>1, <2>2, Zenon
<1> QED BY <1>1, Invariance, PTL

(* Unforgeability: a handle whose capability was dropped or moved names     *)
(* nothing again, however often its slot is reused (property 1).            *)
THEOREM StaleHandlesHold == MaxGeneration < GenModulus => (Spec => []StaleHandlesFail)
<1>1. IInv => StaleHandlesFail
  <2> SUFFICES ASSUME IInv, NEW c \in Cells, NEW h \in dead[c], Names(c, h) PROVE FALSE
    BY Zenon DEF StaleHandlesFail
  <2>1. h \in Handles BY Zenon DEF IInv, TypeOK
  <2>2. h[2] \in Nat BY <2>1, BoundsAssumption, SMTT(30) DEF Handles
  <2>3. table[c][h[1]].in_use /\ table[c][h[1]].generation = h[2] BY Zenon DEF Names
  <2>4. h[2] < table[c][h[1]].generation BY <2>3, Zenon DEF IInv, DeadAreOlder
  <2> QED BY <2>2, <2>3, <2>4
<1> QED BY <1>1, Invariance, PTL

(* The same for the 32-bit form the system calls pass, as long as no slot   *)
(* is minted into more often than its generation half can count.            *)
THEOREM StaleLow32HandlesHold == MaxGeneration < GenModulus => (Spec => []StaleLow32HandlesFail)
<1> SUFFICES ASSUME MaxGeneration < GenModulus PROVE Spec => []StaleLow32HandlesFail
  OBVIOUS
<1>1. IInv => StaleLow32HandlesFail
  <2> SUFFICES ASSUME IInv, NEW c \in Cells, NEW h \in dead[c],
                      NamesLow32(c, <<h[1], h[2] % GenModulus>>)
               PROVE  FALSE
    BY Zenon DEF StaleLow32HandlesFail
  <2>1. h \in Handles BY Zenon DEF IInv, TypeOK
  <2>2. h[1] \in SlotIds /\ h[2] \in Nat /\ h[2] < GenModulus /\ GenModulus \in Nat \ {0}
    BY <2>1, BoundsAssumption, SMTT(30) DEF Handles
  <2>3. table[c][h[1]].in_use /\ table[c][h[1]].generation % GenModulus = h[2] % GenModulus
    BY Zenon DEF NamesLow32
  <2>4. table[c][h[1]].generation \in Nat /\ table[c][h[1]].generation < GenModulus
    BY <2>2, <2>3, LiveFacts, BoundsAssumption, SMTT(30)
  <2>5. /\ table[c][h[1]].generation % GenModulus = table[c][h[1]].generation
        /\ h[2] % GenModulus = h[2]
    BY <2>2, <2>4, ModSmall, Zenon
  <2>6. h[2] < table[c][h[1]].generation BY <2>3, Zenon DEF IInv, DeadAreOlder
  <2> QED BY <2>2, <2>3, <2>4, <2>5, <2>6
<1> QED BY <1>1, Invariance, PTL
=============================================================================
