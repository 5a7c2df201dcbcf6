----------------------------- MODULE Capability -----------------------------
(* The capability core: one system-wide object table and one capability      *)
(* table per cell (kernel/src/capability/mod.rs), with the system calls and  *)
(* the cell life-cycle steps that change them (kernel/src/user.rs,           *)
(* kernel/src/nproc.rs).  A trap runs to completion, so one call is one      *)
(* step.  `ceiling' and `dead' are history variables: no guard reads them.   *)
EXTENDS Integers, FiniteSets

CONSTANTS
    Cells,            \* cell slots (0..MAX_CELLS-1)
    Tops,             \* the cells a launcher installs with a table of its own
    Rights,           \* the rights bits of RIGHT_ALL
    Asked,            \* the rights masks callers pass
    MaxObjects,       \* MAX_OBJECTS
    Inline,           \* CAPS_INLINE
    PerPage,          \* capability slots in one funded frame
    MaxPages,         \* bound: frames a table may grow by
    GenModulus,       \* 2^16: the generation bits a 32-bit handle carries
    MaxGeneration,    \* bound: mints into one slot
    BUDGET_UNLIMITED  \* the top of the budget's width, never decremented

ASSUME CellsAssumption == Tops \subseteq Cells
ASSUME RightsAssumption ==
    /\ {"READ", "WRITE", "MAP", "DELEGATE", "REVOKE"} \subseteq Rights
    /\ Asked \subseteq SUBSET Rights
ASSUME BoundsAssumption ==
    /\ MaxObjects \in Nat /\ MaxPages \in Nat /\ MaxGeneration \in Nat
    /\ Inline \in Nat /\ Inline >= 2
    /\ PerPage \in Nat \ {0} /\ GenModulus \in Nat \ {0}
    /\ BUDGET_UNLIMITED \in Nat \ {0}

VARIABLES
    booted,       \* the launcher has handed over to the cells
    next,         \* ObjectTable::next
    kind,         \* kind of each object
    epoch,        \* epoch of each object
    personality,  \* of the cell in each slot, "absent" when not present
    pages,        \* funded frames of each capability table
    table,        \* the capability slots of each cell
    grants,       \* cap_id of each grant record (GrantSlot) of each cell
    ceiling,      \* history: rights to each object a cell was ever given
    dead          \* history: handles of this table whose capability is gone

vars == <<booted, next, kind, epoch, personality, pages, table, grants, ceiling,
          dead>>

Objects == 0 .. MaxObjects - 1
Kinds == {"MemoryGrant", "QueuePair", "Reservation", "Cell"}
Budgets == 0 .. BUDGET_UNLIMITED
SlotIds == 0 .. Inline + MaxPages * PerPage - 1
Handles == SlotIds \X (0 .. MaxGeneration)
Low32Handles == SlotIds \X (0 .. GenModulus - 1)

CapSlot == [in_use : BOOLEAN, object : Nat, rights : SUBSET Rights,
            epoch : Nat, generation : 0 .. MaxGeneration, budget : Budgets]
EMPTY_SLOT == [in_use |-> FALSE, object |-> 0, rights |-> {}, epoch |-> 0,
               generation |-> 0, budget |-> 0]
EmptyTable == [i \in SlotIds |-> EMPTY_SLOT]
NoRights == [o \in Objects |-> {}]

----------------------------------------------------------------------------
(* Slots: allocation, lookup and the checks every verb shares.              *)

capacity(c) == Inline + pages[c] * PerPage

FreeSlots(c) == {i \in 0 .. capacity(c) - 1 : ~table[c][i].in_use}

(* alloc_slot: the first free slot of what exists, else grow by one frame   *)
(* (whose first slot is taken) if the owner's budget grants it.             *)
AllocSlot(c, i) ==
    \/ /\ i \in FreeSlots(c)
       /\ \A j \in FreeSlots(c) : i <= j
       /\ UNCHANGED pages
    \/ /\ FreeSlots(c) = {}
       /\ pages[c] < MaxPages
       /\ i = capacity(c)
       /\ pages' = [pages EXCEPT ![c] = @ + 1]

(* The owner's budget refuses a frame: a decision of the kernel ledger.     *)
TableFull(c) == FreeSlots(c) = {}

(* Mutant of Mint: the slot's generation is not bumped.                     *)
MintSameGeneration(t, i, o, r, b) ==
    [t EXCEPT ![i] = [in_use |-> TRUE, object |-> o, rights |-> r, epoch |-> epoch[o],
                      generation |-> IF t[i].generation = 0 THEN 1 ELSE t[i].generation,
                      budget |-> b]]

(* mint and mint_derived write the same record.                             *)
Mint(t, i, o, r, b) ==
    [t EXCEPT ![i] = [in_use |-> TRUE, object |-> o, rights |-> r,
                      epoch |-> epoch[o], generation |-> t[i].generation + 1,
                      budget |-> b]]

MintRoom(c, i) == table[c][i].generation < MaxGeneration

Live(c, i) == table[c][i].in_use /\ table[c][i].epoch = epoch[table[c][i].object]

(* Mutant of NamesLow32: the generation half of the handle is ignored.      *)
NamesLow32AnyGeneration(c, h) == h[1] < capacity(c) /\ table[c][h[1]].in_use

(* The generation test on the 64-bit handle, and on the 32-bit ABI form.    *)
Names(c, h) ==
    h[1] < capacity(c) /\ table[c][h[1]].in_use /\ table[c][h[1]].generation = h[2]
NamesLow32(c, h) ==
    /\ h[1] < capacity(c)
    /\ table[c][h[1]].in_use
    /\ table[c][h[1]].generation % GenModulus = h[2]

(* What grant_check and grant_check_low32 test after the handle.            *)
Granted(c, i, required) ==
    /\ required \subseteq table[c][i].rights
    /\ table[c][i].epoch = epoch[table[c][i].object]
    /\ table[c][i].budget # 0

Spend(t, i) ==
    IF t[i].budget = BUDGET_UNLIMITED THEN t ELSE [t EXCEPT ![i].budget = @ - 1]

Free(t, i) == [t EXCEPT ![i].in_use = FALSE]

HandleOf(c, i) == <<i, table[c][i].generation>>

(* Mutant of SlotOfLow32: the epoch is not compared.                        *)
SlotOfLow32NoEpoch(c, h) == NamesLow32(c, h)

(* slot_of_low32: the slot a 32-bit handle names, epoch checked.            *)
SlotOfLow32(c, h) == NamesLow32(c, h) /\ Live(c, h[1])

holds(c, k, required) ==
    \E i \in 0 .. capacity(c) - 1 :
        Live(c, i) /\ required \subseteq table[c][i].rights
                   /\ kind[table[c][i].object] = k

----------------------------------------------------------------------------
(* Object creation, and the root capability it mints.                       *)

CapId(h) == <<h[1], h[2] % GenModulus>>     \* Handle::raw_low32

(* Mutant of Create: the id is handed out but not consumed.                 *)
CreateNotCounted(k) ==
    /\ next < MaxObjects
    /\ kind' = [kind EXCEPT ![next] = k]
    /\ epoch' = [epoch EXCEPT ![next] = 0]
    /\ UNCHANGED next

Create(k) ==
    /\ next < MaxObjects
    /\ next' = next + 1
    /\ kind' = [kind EXCEPT ![next] = k]
    /\ epoch' = [epoch EXCEPT ![next] = 0]

CreateAndMint(c, k, r, recorded) ==
    /\ Create(k)
    /\ \/ \E i \in SlotIds :
            /\ AllocSlot(c, i) /\ MintRoom(c, i)
            /\ table' = [table EXCEPT ![c] = Mint(@, i, next, r, BUDGET_UNLIMITED)]
            /\ ceiling' = [ceiling EXCEPT ![c][next] = @ \union r]
            /\ grants' = IF recorded
                         THEN [grants EXCEPT ![c] =
                                 @ \union {CapId(<<i, table[c][i].generation + 1>>)}]
                         ELSE grants
       \/ TableFull(c) /\ UNCHANGED <<pages, table, grants, ceiling>>
    /\ UNCHANGED <<personality, dead>>

(* A launcher mints into the tables it owns before it starts the cells.     *)
LauncherMint(c, k, r) ==
    /\ ~booted /\ c \in Tops
    /\ CreateAndMint(c, k, r, FALSE)
    /\ UNCHANGED booted

Boot ==
    /\ ~booted /\ booted' = TRUE
    /\ UNCHANGED <<next, kind, epoch, personality, pages, table, grants, ceiling, dead>>

Native(c) == booted /\ personality[c] = "native"

(* SYS_GRANT and SYS_RESERVE: the capability half of the call.  A grant     *)
(* whose record or address range is refused after the mint keeps the        *)
(* capability and records nothing.                                          *)
SysGrant(c) ==
    /\ Native(c)
    /\ LET all == {"READ", "WRITE", "MAP", "DELEGATE", "REVOKE"}
       IN  \/ CreateAndMint(c, "MemoryGrant", all, TRUE)
           \/ CreateAndMint(c, "MemoryGrant", all, FALSE)
    /\ UNCHANGED booted

SysReserve(c) ==
    /\ Native(c)
    /\ CreateAndMint(c, "Reservation", {"READ"}, FALSE)
    /\ UNCHANGED booted

----------------------------------------------------------------------------
(* The capability system calls, on the 32-bit form.                         *)

(* grant_check_low32, as the queue, grant and reservation calls use it.     *)
SysUse(c, h, required) ==
    /\ Native(c)
    /\ NamesLow32(c, h) /\ Granted(c, h[1], required)
    /\ table' = [table EXCEPT ![c] = Spend(@, h[1])]
    /\ UNCHANGED <<booted, next, kind, epoch, personality, pages, grants, ceiling, dead>>

(* Mutant of DeriveAllowed: only the budget is compared with the parent's.  *)
DeriveAllowedAnyRights(c, p, r, b) ==
    table[c][p].budget = BUDGET_UNLIMITED \/ b <= table[c][p].budget

DeriveAllowed(c, p, r, b) ==
    /\ r \subseteq table[c][p].rights
    /\ \/ table[c][p].budget = BUDGET_UNLIMITED
       \/ b # BUDGET_UNLIMITED /\ b <= table[c][p].budget

SysCapDerive(c, h, r, b) ==
    /\ Native(c)
    /\ SlotOfLow32(c, h) /\ DeriveAllowed(c, h[1], r, b)
    /\ \E i \in SlotIds :
         /\ AllocSlot(c, i) /\ MintRoom(c, i)
         /\ table' = [table EXCEPT ![c] = Mint(@, i, @[h[1]].object, r, b)]
    /\ UNCHANGED <<booted, next, kind, epoch, personality, grants, ceiling, dead>>

SysCapRevoke(c, h) ==
    /\ Native(c)
    /\ SlotOfLow32(c, h) /\ "REVOKE" \in table[c][h[1]].rights
    /\ epoch' = [epoch EXCEPT ![table[c][h[1]].object] = @ + 1]
    /\ UNCHANGED <<booted, next, kind, personality, pages, table, grants, ceiling, dead>>

SysCapDrop(c, h) ==
    /\ Native(c)
    /\ SlotOfLow32(c, h)
    /\ table' = [table EXCEPT ![c] = Free(@, h[1])]
    /\ dead' = [dead EXCEPT ![c] = @ \union {HandleOf(c, h[1])}]
    /\ UNCHANGED <<booted, next, kind, epoch, personality, pages, grants, ceiling>>

(* SYS_GRANT_SHARE: the holder of DELEGATE on a memory grant has the kernel *)
(* mint READ on the same object into the peer's table and record it there.  *)
(* The handle must be a grant record's (sealed: its holder can seal it at   *)
(* any time); the peer's record is skipped when its table cannot grow.      *)
SysGrantShare(c, peer, h) ==
    /\ Native(c) /\ peer # c /\ personality[peer] # "absent"
    /\ h \in grants[c] /\ NamesLow32(c, h) /\ Granted(c, h[1], {"DELEGATE"})
    /\ LET o == table[c][h[1]].object
           spent == [table EXCEPT ![c] = Spend(@, h[1])]
       IN  \E i \in SlotIds :
             /\ AllocSlot(peer, i) /\ MintRoom(peer, i)
             /\ table' = [spent EXCEPT ![peer] = Mint(@, i, o, {"READ"}, BUDGET_UNLIMITED)]
             /\ ceiling' = [ceiling EXCEPT ![peer][o] = @ \union ({"READ"} \cap ceiling[c][o])]
             /\ grants' \in {grants, [grants EXCEPT ![peer] =
                               @ \union {CapId(<<i, table[peer][i].generation + 1>>)}]}
    /\ UNCHANGED <<booted, next, kind, epoch, personality, dead>>

(* SYS_MUNMAP at a grant's base: grant_resolve, then the record goes.       *)
SysMunmap(c, h) ==
    /\ Native(c)
    /\ h \in grants[c] /\ NamesLow32(c, h) /\ Granted(c, h[1], {"MAP"})
    /\ table' = [table EXCEPT ![c] = Spend(@, h[1])]
    /\ grants' = [grants EXCEPT ![c] = @ \ {h}]
    /\ UNCHANGED <<booted, next, kind, epoch, personality, pages, ceiling, dead>>

----------------------------------------------------------------------------
(* The 64-bit kernel interface (grant_check, derive_subset, delegate, free). *)

(* derive_subset spends a unit of the parent before it looks at the rights, *)
(* so a refused widening (or a full table) is not free.                     *)
DeriveSubset(c, h, r, b) ==
    /\ booted /\ personality[c] # "absent"
    /\ Names(c, h) /\ Granted(c, h[1], {})
    /\ \/ /\ r \subseteq table[c][h[1]].rights
          /\ \E i \in SlotIds :
               /\ AllocSlot(c, i) /\ MintRoom(c, i)
               /\ table' = [table EXCEPT ![c] =
                              Mint(Spend(@, h[1]), i, @[h[1]].object, r, b)]
       \/ /\ ~ (r \subseteq table[c][h[1]].rights) \/ TableFull(c)
          /\ table' = [table EXCEPT ![c] = Spend(@, h[1])]
          /\ UNCHANGED pages
    /\ UNCHANGED <<booted, next, kind, epoch, personality, grants, ceiling, dead>>

(* delegate moves the capability: minted in the target, freed here.  The    *)
(* unit it spends is gone whether or not the move happens.                  *)
Delegate(c, h, target) ==
    /\ booted /\ target # c
    /\ personality[c] # "absent" /\ personality[target] # "absent"
    /\ Names(c, h) /\ Granted(c, h[1], {})
    /\ LET spent == Spend(table[c], h[1])
           o == table[c][h[1]].object
       IN  \/ /\ "DELEGATE" \in spent[h[1]].rights
              /\ \E i \in SlotIds :
                   /\ AllocSlot(target, i) /\ MintRoom(target, i)
                   /\ table' = [table EXCEPT
                        ![c] = Free(spent, h[1]),
                        ![target] = Mint(@, i, o, spent[h[1]].rights, spent[h[1]].budget)]
              /\ ceiling' = [ceiling EXCEPT ![target][o] = @ \union table[c][h[1]].rights]
              /\ dead' = [dead EXCEPT ![c] = @ \union {h}]
           \/ /\ "DELEGATE" \notin spent[h[1]].rights \/ TableFull(target)
              /\ table' = [table EXCEPT ![c] = spent]
              /\ UNCHANGED <<pages, ceiling, dead>>
    /\ UNCHANGED <<booted, next, kind, epoch, personality, grants>>

----------------------------------------------------------------------------
(* Cells come and go; their tables are cleared, copied and released.        *)

(* SYS_SPAWN: an empty table, then a queue capability and, for a parent     *)
(* with a channel, a second one.  No object left: the spawn is unwound.     *)
SpawnedTable(n) ==
    [i \in SlotIds |->
        IF i < n THEN [in_use |-> TRUE, object |-> next + i, rights |-> {"READ", "WRITE"},
                       epoch |-> 0, generation |-> 1, budget |-> BUDGET_UNLIMITED]
                 ELSE EMPTY_SLOT]

Spawn(p, c, n) ==
    /\ Native(p) /\ holds(p, "Cell", {"WRITE"})
    /\ personality[c] = "absent"
    /\ next + n <= MaxObjects /\ MaxGeneration > 0
    /\ personality' = [personality EXCEPT ![c] = "native"]
    /\ next' = next + n
    /\ kind' = [o \in Objects |-> IF o \in next .. next + n - 1 THEN "QueuePair" ELSE kind[o]]
    /\ epoch' = [o \in Objects |-> IF o \in next .. next + n - 1 THEN 0 ELSE epoch[o]]
    /\ table' = [table EXCEPT ![c] = SpawnedTable(n)]
    /\ pages' = [pages EXCEPT ![c] = 0]
    /\ ceiling' = [ceiling EXCEPT ![c] = [o \in Objects |->
                     IF o \in next .. next + n - 1 THEN {"READ", "WRITE"} ELSE {}]]
    /\ grants' = [grants EXCEPT ![c] = {}]
    /\ dead' = [dead EXCEPT ![c] = {}]
    /\ UNCHANGED booted

(* The second object of a spawn with a channel does not fit: free_cell      *)
(* undoes the child, the object ids stay consumed.                          *)
SpawnUnwound(p, c) ==
    /\ Native(p) /\ holds(p, "Cell", {"WRITE"})
    /\ personality[c] = "absent"
    /\ next + 1 = MaxObjects
    /\ Create("QueuePair")
    /\ UNCHANGED <<booted, personality, pages, table, grants, ceiling, dead>>

(* fork: copy_from copies the slots in use, generation included, and grows  *)
(* the child's table far enough for the last of them.                       *)
CopyFrom(t) == [i \in SlotIds |-> IF t[i].in_use THEN t[i] ELSE EMPTY_SLOT]

Fork(p, c) ==
    /\ booted /\ personality[p] = "linux" /\ personality[c] = "absent"
    /\ personality' = [personality EXCEPT ![c] = "linux"]
    /\ table' = [table EXCEPT ![c] = CopyFrom(table[p])]
    /\ \E n \in 0 .. pages[p] :
         /\ \A i \in SlotIds : table[p][i].in_use => i < Inline + n * PerPage
         /\ n > 0 => \E i \in SlotIds : table[p][i].in_use /\ i >= Inline + (n-1) * PerPage
         /\ pages' = [pages EXCEPT ![c] = n]
    /\ ceiling' = [ceiling EXCEPT ![c] = ceiling[p]]
    /\ dead' = [dead EXCEPT ![c] = {}]
    /\ UNCHANGED <<booted, next, kind, epoch, grants>>

(* free_cell of a cell the kernel created.                                  *)
FreeCell(c) ==
    /\ booted /\ c \notin Tops /\ personality[c] # "absent"
    /\ personality' = [personality EXCEPT ![c] = "absent"]
    /\ table' = [table EXCEPT ![c] = EmptyTable]
    /\ pages' = [pages EXCEPT ![c] = 0]
    /\ grants' = [grants EXCEPT ![c] = {}]
    /\ ceiling' = [ceiling EXCEPT ![c] = NoRights]
    /\ dead' = [dead EXCEPT ![c] = {}]
    /\ UNCHANGED <<booted, next, kind, epoch>>

----------------------------------------------------------------------------
Init ==
    /\ booted = FALSE
    /\ next = 0
    /\ kind = [o \in Objects |-> "MemoryGrant"]
    /\ epoch = [o \in Objects |-> 0]
    /\ personality \in [Cells -> {"absent", "native", "linux"}]
    /\ \A c \in Cells : personality[c] = "absent" <=> c \notin Tops
    /\ pages = [c \in Cells |-> 0]
    /\ table = [c \in Cells |-> EmptyTable]
    /\ grants = [c \in Cells |-> {}]
    /\ ceiling = [c \in Cells |-> NoRights]
    /\ dead = [c \in Cells |-> {}]

SyscallNext ==
    \/ \E c \in Cells, k \in Kinds, r \in Asked : LauncherMint(c, k, r)
    \/ Boot
    \/ \E c \in Cells : SysGrant(c) \/ SysReserve(c) \/ FreeCell(c)
    \/ \E c \in Cells, h \in Low32Handles :
         \/ \E r \in Asked : SysUse(c, h, r)
         \/ \E r \in Asked, b \in Budgets : SysCapDerive(c, h, r, b)
         \/ SysCapRevoke(c, h)
         \/ SysCapDrop(c, h)
         \/ SysMunmap(c, h)
         \/ \E peer \in Cells : SysGrantShare(c, peer, h)
    \/ \E p, c \in Cells : Fork(p, c) \/ SpawnUnwound(p, c) \/ (\E n \in 1 .. 2 : Spawn(p, c, n))

KernelNext ==
    \E c \in Cells, h \in Handles :
        \/ \E r \in Asked, b \in Budgets : DeriveSubset(c, h, r, b)
        \/ \E target \in Cells : Delegate(c, h, target)

Next == SyscallNext \/ KernelNext

Spec == Init /\ [][Next]_vars
SyscallSpec == Init /\ [][SyscallNext]_vars

----------------------------------------------------------------------------
(* Types of every table: object ids in a live slot name created objects, a  *)
(* slot beyond a table's capacity is untouched.                             *)
TypeOK ==
    /\ booted \in BOOLEAN
    /\ next \in 0 .. MaxObjects
    /\ kind \in [Objects -> Kinds]
    /\ epoch \in [Objects -> Nat]
    /\ personality \in [Cells -> {"absent", "native", "linux"}]
    /\ pages \in [Cells -> 0 .. MaxPages]
    /\ table \in [Cells -> [SlotIds -> CapSlot]]
    /\ grants \in [Cells -> SUBSET Low32Handles]
    /\ ceiling \in [Cells -> [Objects -> SUBSET Rights]]
    /\ dead \in [Cells -> SUBSET Handles]
    /\ \A c \in Cells, i \in SlotIds :
         /\ table[c][i].in_use => i < capacity(c) /\ table[c][i].object < next
         /\ table[c][i].in_use => personality[c] # "absent"

(* Monotonic attenuation and isolation (mod.rs, properties 2 and 4): the    *)
(* rights a cell's table carries to an object never exceed what the cell    *)
(* was given by the object's creation, by a peer that held them, or by its  *)
(* parent at a fork; however capabilities are derived, moved and reused.    *)
Attenuation ==
    \A c \in Cells, i \in SlotIds :
        table[c][i].in_use => table[c][i].rights \subseteq ceiling[c][table[c][i].object]

(* Revocation soundness (mod.rs, property 3), and its finality: an object   *)
(* whose epoch has moved is reachable from no capability of any cell, so    *)
(* no later derivation, share, delegation or fork can revive it, and the    *)
(* epoch never moves a second time.                                         *)
RevocationIsFinal ==
    \A o \in Objects : epoch[o] > 0 =>
        /\ epoch[o] = 1
        /\ \A c \in Cells, i \in SlotIds : table[c][i].object = o => ~Live(c, i)

(* Unforgeability (mod.rs, property 1) for the 64-bit handle: a handle      *)
(* whose capability was dropped or moved never names a capability of that   *)
(* table again, however often its slot is reused.                           *)
StaleHandlesFail ==
    \A c \in Cells : \A h \in dead[c] : ~Names(c, h)

(* raw_low32's comment: "the truncated generation still catches slot        *)
(* reuse".  A dropped handle's 32-bit form never names a capability again.  *)
StaleLow32HandlesFail ==
    \A c \in Cells : \A h \in dead[c] : ~NamesLow32(c, <<h[1], h[2] % GenModulus>>)
=============================================================================
