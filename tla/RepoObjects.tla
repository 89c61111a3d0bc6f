------------------------------ MODULE RepoObjects ------------------------------
(***************************************************************************)
(* What the index generators of the ecosystems share: the packages that    *)
(* users upload to a personal repository, what a generator knows of them   *)
(* once it has read them, and the steps a generation is made of.           *)
(*                                                                         *)
(* A package is the number of its storage key, in the lexical order of the *)
(* keys.  Its name, version and architecture are part of the path; its     *)
(* bytes are a revision, and a broken revision is one that the parser of   *)
(* the ecosystem refuses.                                                  *)
(***************************************************************************)
EXTENDS Integers, FiniteSets, Sequences, SequencesExt

CONSTANTS
    Pkgs,       \* the paths of packages, as numbers in the order of the keys
    Family,     \* the name of a package
    Version,    \* its version, as a number
    Arch,       \* its architecture, "all" for none in particular
    Dir,        \* the directory it was uploaded to
    Revs,       \* contents an object may have
    Broken      \* the contents that do not parse

ASSUME RepoAssumption ==
    /\ IsFiniteSet(Pkgs) /\ Pkgs \subseteq Nat /\ Revs \subseteq Nat \ {0} /\ Broken \subseteq Revs
    /\ Version \in [Pkgs -> Nat] /\ DOMAIN Family = Pkgs
    /\ DOMAIN Arch = Pkgs /\ DOMAIN Dir = Pkgs

\* own: the object carries the signature of this instance (nix only).
Object == [rev : Revs, own : BOOLEAN]
Absent == [rev |-> 0, own |-> FALSE]

NoFiles == [k \in {} |-> 0]

\* The records a generator has collected are pairs <<package, revision>>.
Named(got, a) == {g \in got : Arch[g[1]] = a}
Arches(got) == {Arch[g[1]] : g \in got}

\* The steps of a generation: one file written, the old copies collected, an
\* object deleted, an object rewritten with the signature of the instance.
WriteFile(k, v) == [op |-> "put", key |-> k, val |-> v]
CollectOld(v) == [op |-> "gc", val |-> v]
DeleteFile(k) == [op |-> "del", key |-> k]
Resign(p, r) == [op |-> "sign", pkg |-> p, rev |-> r]

Signature(v) == [of |-> v]
=============================================================================
