---------------------------- MODULE MCAuthSessions ----------------------------
(* Instances of AuthSessions for TLC.                                      *)
EXTENDS AuthSessions, TLC

Symmetry == Permutations(Requests) \cup Permutations(Jtis) \cup Permutations(Passwords)

=============================================================================
