-------------------------- MODULE MCMirrorScheduler --------------------------
(* MirrorScheduler for TLC: one remote, and the name it has at first. *)
EXTENDS MirrorScheduler, TLC

CONSTANTS r1, a

OneName == r1 :> a
=============================================================================
