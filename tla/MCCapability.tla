---------------------------- MODULE MCCapability ----------------------------
(* Capability on two small systems, one explored at a time: a launched cell *)
(* with a slot for a spawned or forked child, and two launched cells that   *)
(* share grants (on s1, s2, ..., in the order Capability declares its       *)
(* variables).                                                              *)
EXTENDS Capability

MCRights == {"READ", "WRITE", "MAP", "DELEGATE", "REVOKE"}
MCAsked == {{"READ"}, {"WRITE"}, {"READ", "DELEGATE"}, {"WRITE", "REVOKE"}}

VARIABLES system, s1, s2, s3, s4, s5, s6, s7, s8, s9, s10

Pair == INSTANCE Capability WITH
    Tops <- Cells, MaxObjects <- 1, GenModulus <- 2, MaxGeneration <- 1,
    booted <- s1, next <- s2, kind <- s3, epoch <- s4, personality <- s5, pages <- s6,
    table <- s7, grants <- s8, ceiling <- s9, dead <- s10

pairVars == <<s1, s2, s3, s4, s5, s6, s7, s8, s9, s10>>

(* The system not explored stays in one of its initial states.              *)
MCInit ==
    /\ Init /\ Pair!Init
    /\ \/ system = "tree" /\ s5 = [c \in Cells |-> "native"]
       \/ system = "pair" /\ personality = [c \in Cells |-> IF c \in Tops THEN "native" ELSE "absent"]

MCNext ==
    \/ system = "tree" /\ Next /\ UNCHANGED <<system, pairVars>>
    \/ system = "pair" /\ Pair!Next /\ UNCHANGED <<system, vars>>

MCSpec == MCInit /\ [][MCNext]_<<system, vars, pairVars>>

(* Attenuation and RevocationIsFinal (Capability) between two launched      *)
(* cells: SYS_GRANT_SHARE is the one call that mints into a peer's table.   *)
SharedAttenuation == system = "pair" => Pair!Attenuation
SharedRevocationIsFinal == system = "pair" => Pair!RevocationIsFinal
=============================================================================
