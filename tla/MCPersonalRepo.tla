--------------------------- MODULE MCPersonalRepo ---------------------------
(* PersonalRepo for TLC: uploaders and paths are interchangeable. *)
EXTENDS PersonalRepo, TLC

Symmetry == Permutations(Uploaders) \cup Permutations(Paths)
=============================================================================
