------------------------------- MODULE MCStorage -------------------------------
EXTENDS Storage, TLC

\* Clients are interchangeable.
ClientSymmetry == Permutations(Clients)
=============================================================================
