------------------------ MODULE MCCapabilityMetering ------------------------
(* Metered capabilities under the capability calls alone.                   *)
EXTENDS Capability, FiniteSetsExt

MCRights == {"READ", "WRITE", "MAP", "DELEGATE", "REVOKE"}
MCAsked == {{"READ"}, {"WRITE"}, {"READ", "DELEGATE"}, {"WRITE", "REVOKE"}}

(* Derive_subset_low32's comment: a derivation may not exceed the parent's  *)
(* remaining budget, "otherwise metering would be escapable by deriving".   *)
(* So a cell all of whose capabilities to an object are metered can, by the *)
(* capability calls, never raise the uses of the object it has left.        *)
UsesLeft(c, o) ==
    MapThenSumSet(LAMBDA i : IF table[c][i].in_use /\ table[c][i].object = o
                             THEN table[c][i].budget ELSE 0, SlotIds)
Metered(c, o) ==
    \A i \in SlotIds : table[c][i].in_use /\ table[c][i].object = o
                         => table[c][i].budget # BUDGET_UNLIMITED
MeteringNotEscapable ==
    [][\A c \in Cells, o \in Objects :
         o < next /\ Metered(c, o) /\ (\E h \in Low32Handles, r \in Asked, b \in Budgets :
                                          SysCapDerive(c, h, r, b))
            => UsesLeft(c, o)' <= UsesLeft(c, o)]_vars
=============================================================================
