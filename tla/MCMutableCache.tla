--------------------------- MODULE MCMutableCache ---------------------------
(* MutableCache for TLC: clients are interchangeable. *)
EXTENDS MutableCache, TLC

Symmetry == Permutations(Clients)
=============================================================================
