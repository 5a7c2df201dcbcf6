----------------------------- MODULE MCVaSpace -----------------------------
(* Bounds for model checking VaSpace. *)
EXTENDS VaSpace

MCWindows == {[lo |-> 0, hi |-> 5], [lo |-> 3, hi |-> 8]}
=============================================================================
