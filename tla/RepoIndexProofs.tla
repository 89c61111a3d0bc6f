---------------------------- MODULE RepoIndexProofs ----------------------------
(***************************************************************************)
(* What a generation leaves behind, for any packages, any number of        *)
(* generations and of edits, and every failure and crash.                  *)
(*                                                                         *)
(* First what the plan of a generation is made of, ecosystem by ecosystem: *)
(* it writes no file twice with different contents, and it deletes nothing *)
(* that it writes.  Then, step by step: a generation that is alone has     *)
(* collected what is stored, and each file of its plan is written or still *)
(* to be written.  At its end the indexes are those of its plan.           *)
(***************************************************************************)
EXTENDS RepoIndex, FiniteSetTheorems, WellFoundedInduction, TLAPS

-----------------------------------------------------------------------------
(* Sequences                                                               *)

\* The first element of a sequence and the others.
LEMMA HeadAndTail ==
    ASSUME NEW S, NEW q \in Seq(S), q # << >>
    PROVE  /\ Head(q) \in Range(q) /\ Tail(q) \in Seq(Range(q)) /\ Len(q) >= 1
           /\ Range(q) = Range(Tail(q)) \cup {Head(q)}
           /\ Len(Tail(q)) = Len(q) - 1 /\ \A i \in 1 .. Len(q) - 1 : Tail(q)[i] = q[i + 1]
<1>1. Len(q) >= 1 /\ DOMAIN q = 1 .. Len(q) /\ Len(q) \in Nat
  OBVIOUS
<1>2. Head(q) = q[1] /\ DOMAIN Tail(q) = 1 .. Len(q) - 1 /\ \A i \in 1 .. Len(q) - 1 : Tail(q)[i] = q[i + 1]
  BY <1>1
<1>3. Head(q) \in Range(q)
  BY <1>1, <1>2 DEF Range
<1>4. Range(Tail(q)) \subseteq Range(q)
  BY <1>1, <1>2 DEF Range
<1>5. ASSUME NEW i \in 1 .. Len(q) PROVE q[i] \in Range(Tail(q)) \cup {Head(q)}
  <2>1. CASE i = 1 BY <2>1, <1>2
  <2>2. CASE i # 1
    <3>1. i - 1 \in DOMAIN Tail(q) /\ Tail(q)[i - 1] = q[i] BY <1>1, <1>2, <2>2
    <3> QED BY <3>1 DEF Range
  <2> QED BY <2>1, <2>2
<1>6. Range(q) = Range(Tail(q)) \cup {Head(q)}
  BY <1>1, <1>3, <1>4, <1>5 DEF Range
<1>7. Tail(q) \in Seq(Range(q)) /\ Len(Tail(q)) = Len(q) - 1
  <2>1. q \in Seq(Range(q)) BY <1>1 DEF Range
  <2> QED BY <2>1
<1> QED BY <1>1, <1>2, <1>3, <1>6, <1>7

\* A function on an initial segment of the naturals is a sequence over its range.
LEMMA OwnRange ==
    ASSUME NEW n \in Nat, NEW q, q = [i \in 1 .. n |-> q[i]]
    PROVE  q \in Seq(Range(q)) /\ Len(q) = n
BY DEF Range

LEMMA OwnRangeSeq == ASSUME NEW S, NEW q \in Seq(S) PROVE q \in Seq(Range(q))
BY DEF Range

LEMMA RangeConcat ==
    ASSUME NEW S, NEW q \in Seq(S), NEW T, NEW t \in Seq(T)
    PROVE  /\ Range(q \o t) = Range(q) \cup Range(t) /\ q \o t \in Seq(Range(q \o t))
           /\ Len(q \o t) = Len(q) + Len(t)
<1>1. q \in Seq(S \cup T) /\ t \in Seq(S \cup T)
  OBVIOUS
<1>2. /\ q \o t \in Seq(S \cup T) /\ Len(q \o t) = Len(q) + Len(t)
      /\ \A i \in 1 .. Len(q) : (q \o t)[i] = q[i]
      /\ \A i \in 1 .. Len(t) : (q \o t)[Len(q) + i] = t[i]
      /\ \A i \in 1 .. Len(q) + Len(t) : (q \o t)[i] = IF i <= Len(q) THEN q[i] ELSE t[i - Len(q)]
  BY <1>1
<1>3. Range(q \o t) \subseteq Range(q) \cup Range(t)
  <2> SUFFICES ASSUME NEW i \in 1 .. Len(q) + Len(t) PROVE (q \o t)[i] \in Range(q) \cup Range(t)
    BY <1>2 DEF Range
  <2>1. CASE i <= Len(q) BY <2>1, <1>2 DEF Range
  <2>2. CASE ~(i <= Len(q))
    <3>1. i - Len(q) \in 1 .. Len(t) /\ (q \o t)[i] = t[i - Len(q)] BY <2>2, <1>2
    <3> QED BY <3>1 DEF Range
  <2> QED BY <2>1, <2>2
<1>4. Range(q) \cup Range(t) \subseteq Range(q \o t)
  <2>1. ASSUME NEW i \in 1 .. Len(q) PROVE q[i] \in Range(q \o t) BY <1>2 DEF Range
  <2>2. ASSUME NEW i \in 1 .. Len(t) PROVE t[i] \in Range(q \o t)
    <3>1. Len(q) + i \in DOMAIN (q \o t) /\ (q \o t)[Len(q) + i] = t[i] BY <1>2
    <3> QED BY <3>1 DEF Range
  <2> DEFINE W == Range(q \o t)
  <2> HIDE DEF W
  <2>3. (\A i \in 1 .. Len(q) : q[i] \in W) /\ (\A i \in 1 .. Len(t) : t[i] \in W) BY <2>1, <2>2 DEF W
  <2>4. Range(q) \cup Range(t) \subseteq W BY <2>3 DEF Range
  <2> QED BY <2>4 DEF W
<1>5. q \o t \in Seq(Range(q \o t))
  <2> DEFINE w == q \o t
  <2>1. w \in Seq(S \cup T) BY <1>2
  <2> HIDE DEF w
  <2>2. w \in Seq(Range(w)) BY <2>1, OwnRangeSeq
  <2> QED BY <2>2 DEF w
<1> QED BY <1>2, <1>3, <1>4, <1>5

LEMMA RangeOfPair ==
    ASSUME NEW a, NEW b
    PROVE  /\ Range(<<a, b>>) = {a, b} /\ <<a, b>> \in Seq(Range(<<a, b>>))
           /\ Range(<<a>>) = {a} /\ <<a>> \in Seq(Range(<<a>>))
           /\ Range(<< >>) = {} /\ << >> \in Seq(Range(<< >>))
BY DEF Range

\* The elements of a finite set, one after the other.
LEMMA SetAsSeq ==
    ASSUME NEW S, IsFiniteSet(S)
    PROVE  /\ Cardinality(S) \in Nat /\ SetToSeq(S) \in [1 .. Cardinality(S) -> S]
           /\ \A x \in S : \E i \in 1 .. Cardinality(S) : SetToSeq(S)[i] = x
           /\ Len(SetToSeq(S)) = Cardinality(S)
<1> DEFINE n == Cardinality(S)
<1>1. n \in Nat /\ ExistsBijection(1 .. n, S)
  BY FS_CardinalityType
<1>2. PICK f : f \in Bijection(1 .. n, S)
  BY <1>1 DEF ExistsBijection
<1>3. f \in [1 .. n -> S] /\ IsInjective(f)
  BY <1>2 DEF Bijection, Injection, IsInjective
<1>4. SetToSeq(S) \in [1 .. n -> S] /\ IsInjective(SetToSeq(S))
  BY <1>3, Zenon DEF SetToSeq
<1> DEFINE q == SetToSeq(S)
<1> HIDE DEF q, n
<1>5. q \in Injection(1 .. n, S)
  BY <1>4 DEF Injection, IsInjective, q
<1>6. IsFiniteSet(1 .. n) /\ Cardinality(1 .. n) = n
  BY <1>1, FS_Interval DEF n
<1>7. q \in Surjection(1 .. n, S)
  BY <1>5, <1>6, FS_Injection DEF n
<1> QED BY <1>1, <1>4, <1>7 DEF Surjection, q, n

-----------------------------------------------------------------------------
(* The plans of the ecosystems                                             *)

\* What the steps of a plan have in common.
SoundPlan(got, P) ==
    /\ P \in Seq(Range(P))
    /\ \A s \in Range(P) : s = WriteFile(s.key, s.val) \/ (eco = "apt" /\ s = CollectOld(Apt!appendPackagesEntry(got)))
    /\ \A s, t \in Range(P) : s.op = "put" /\ t.op = "put" /\ s.key = t.key => s = t
    /\ \A s \in Range(P) : eco = "apt" /\ s.op = "put" /\ s.key[1] = "by-hash" =>
                              s.key \in Apt!Copies(Apt!appendPackagesEntry(got))

LEMMA RangeOfSeven ==
    ASSUME NEW a, NEW b, NEW c, NEW d, NEW e, NEW f, NEW g, NEW q, q = <<a, b, c, d, e, f, g>>
    PROVE  /\ Range(q) = {a, b, c, d, e, f, g} /\ q \in Seq(Range(q)) /\ Len(q) = 7
<1>1. DOMAIN q = 1 .. 7 /\ Len(q) = 7 BY Z3
<1>2. q[1] = a /\ q[2] = b /\ q[3] = c /\ q[4] = d /\ q[5] = e /\ q[6] = f /\ q[7] = g BY Z3
<1>3. 1 .. 7 = {1, 2, 3, 4, 5, 6, 7} OBVIOUS
<1>4. Range(q) = {q[1], q[2], q[3], q[4], q[5], q[6], q[7]}
  <2>1. ASSUME NEW w, w = q, DOMAIN w = {1, 2, 3, 4, 5, 6, 7}
        PROVE  Range(w) = {w[1], w[2], w[3], w[4], w[5], w[6], w[7]}
    BY ONLY <2>1 DEF Range
  <2> QED BY <1>1, <1>3, <2>1, Zenon
<1>5. q \in Seq({a, b, c, d, e, f, g}) BY Z3
<1> QED BY <1>1, <1>2, <1>4, <1>5

\* The files of an apt generation, and the order of the last of them.
LEMMA AptPlan ==
    ASSUME NEW got, NEW stamp, signed \in BOOLEAN
    PROVE  LET v == Apt!appendPackagesEntry(got)
               rel == Apt!buildRelease(v, stamp)
               P == Apt!GenerateIndexes(got, stamp, signed)
           IN  /\ P \in Seq(Range(P))
               /\ Range(P) = {WriteFile(Apt!Packages, v), WriteFile(Apt!PackagesGz, v),
                              WriteFile(Apt!ByHash("plain", v), v), WriteFile(Apt!ByHash("gz", v), v),
                              CollectOld(v), WriteFile(Apt!Marker, v), WriteFile(Apt!Release, rel)}
                             \cup IF signed THEN {WriteFile(Apt!InRelease, Signature(rel)),
                                                  WriteFile(Apt!ReleaseGpg, Signature(rel))} ELSE {}
<1> DEFINE v == Apt!appendPackagesEntry(got)
           rel == Apt!buildRelease(v, stamp)
           A == << WriteFile(Apt!Packages, v), WriteFile(Apt!PackagesGz, v),
                   WriteFile(Apt!ByHash("plain", v), v), WriteFile(Apt!ByHash("gz", v), v),
                   CollectOld(v), WriteFile(Apt!Marker, v), WriteFile(Apt!Release, rel) >>
           B == IF signed THEN << WriteFile(Apt!InRelease, Signature(rel)), WriteFile(Apt!ReleaseGpg, Signature(rel)) >> ELSE << >>
<1>1. Apt!GenerateIndexes(got, stamp, signed) = A \o B
  BY DEF Apt!GenerateIndexes, WriteFile, Apt!WriteFile, CollectOld, Apt!CollectOld, Signature, Apt!Signature
<1>2. /\ Range(A) = {WriteFile(Apt!Packages, v), WriteFile(Apt!PackagesGz, v),
                     WriteFile(Apt!ByHash("plain", v), v), WriteFile(Apt!ByHash("gz", v), v),
                     CollectOld(v), WriteFile(Apt!Marker, v), WriteFile(Apt!Release, rel)}
      /\ A \in Seq(Range(A))
  <2> HIDE DEF v, rel
  <2> QED BY RangeOfSeven
<1>3. /\ Range(B) = IF signed THEN {WriteFile(Apt!InRelease, Signature(rel)), WriteFile(Apt!ReleaseGpg, Signature(rel))} ELSE {}
      /\ B \in Seq(Range(B))
  <2>1. CASE signed BY <2>1, RangeOfPair, Zenon
  <2>2. CASE ~signed BY <2>2, RangeOfPair, Zenon
  <2> QED BY <2>1, <2>2
<1> HIDE DEF A, B
<1>4. Range(A \o B) = Range(A) \cup Range(B) /\ A \o B \in Seq(Range(A \o B))
  BY <1>2, <1>3, RangeConcat
<1> HIDE DEF v, rel
<1>5. /\ Apt!GenerateIndexes(got, stamp, signed) \in Seq(Range(Apt!GenerateIndexes(got, stamp, signed)))
      /\ Range(Apt!GenerateIndexes(got, stamp, signed))
           = {WriteFile(Apt!Packages, v), WriteFile(Apt!PackagesGz, v),
              WriteFile(Apt!ByHash("plain", v), v), WriteFile(Apt!ByHash("gz", v), v),
              CollectOld(v), WriteFile(Apt!Marker, v), WriteFile(Apt!Release, rel)}
             \cup IF signed THEN {WriteFile(Apt!InRelease, Signature(rel)), WriteFile(Apt!ReleaseGpg, Signature(rel))} ELSE {}
  BY <1>1, <1>2, <1>3, <1>4
<1> QED BY <1>5 DEF v, rel

LEMMA RpmPlan ==
    ASSUME NEW got, NEW stamp, signed \in BOOLEAN
    PROVE  LET P == Rpm!GenerateIndexes(got, stamp, signed) IN
           /\ P \in Seq(Range(P))
           /\ Range(P) = {WriteFile(Rpm!Primary, got), WriteFile(Rpm!Repomd, Rpm!buildRepomd(got, stamp))}
                         \cup IF signed THEN {WriteFile(Rpm!RepomdAsc, Signature(Rpm!buildRepomd(got, stamp)))} ELSE {}
<1> DEFINE rel == Rpm!buildRepomd(got, stamp)
           A == << WriteFile(Rpm!Primary, got), WriteFile(Rpm!Repomd, rel) >>
           B == IF signed THEN << WriteFile(Rpm!RepomdAsc, Signature(rel)) >> ELSE << >>
<1>1. Rpm!GenerateIndexes(got, stamp, signed) = A \o B
  BY DEF Rpm!GenerateIndexes, WriteFile, Rpm!WriteFile, Signature, Rpm!Signature, Rpm!appendPrimaryEntry
<1>2. Range(A) = {WriteFile(Rpm!Primary, got), WriteFile(Rpm!Repomd, rel)} /\ A \in Seq(Range(A))
  BY RangeOfPair, Zenon
<1>3. Range(B) = (IF signed THEN {WriteFile(Rpm!RepomdAsc, Signature(rel))} ELSE {}) /\ B \in Seq(Range(B))
  <2>1. CASE signed BY <2>1, RangeOfPair, Zenon
  <2>2. CASE ~signed BY <2>2, RangeOfPair, Zenon
  <2> QED BY <2>1, <2>2
<1> HIDE DEF A, B
<1>4. Range(A \o B) = Range(A) \cup Range(B) /\ A \o B \in Seq(Range(A \o B))
  BY <1>2, <1>3, RangeConcat
<1> HIDE DEF rel
<1>5. /\ Rpm!GenerateIndexes(got, stamp, signed) \in Seq(Range(Rpm!GenerateIndexes(got, stamp, signed)))
      /\ Range(Rpm!GenerateIndexes(got, stamp, signed))
           = {WriteFile(Rpm!Primary, got), WriteFile(Rpm!Repomd, rel)}
             \cup IF signed THEN {WriteFile(Rpm!RepomdAsc, Signature(rel))} ELSE {}
  BY <1>1, <1>2, <1>3, <1>4
<1> QED BY <1>5 DEF rel

LEMMA PacmanPlan ==
    ASSUME NEW got, NEW stamp, signed \in BOOLEAN
    PROVE  LET P == Pacman!GenerateIndexes(got, stamp, signed)
               v == Pacman!dedupeDescs(got)
           IN  /\ P \in Seq(Range(P))
               /\ Range(P) = {WriteFile(Pacman!Db, v)} \cup IF signed THEN {WriteFile(Pacman!DbSig, Signature(v))} ELSE {}
<1> DEFINE v == Pacman!dedupeDescs(got)
           A == << WriteFile(Pacman!Db, v) >>
           B == IF signed THEN << WriteFile(Pacman!DbSig, Signature(v)) >> ELSE << >>
<1>1. Pacman!GenerateIndexes(got, stamp, signed) = A \o B
  BY DEF Pacman!GenerateIndexes, WriteFile, Pacman!WriteFile, Signature, Pacman!Signature
<1>2. Range(A) = {WriteFile(Pacman!Db, v)} /\ A \in Seq(Range(A))
  BY RangeOfPair, Zenon
<1>3. Range(B) = (IF signed THEN {WriteFile(Pacman!DbSig, Signature(v))} ELSE {}) /\ B \in Seq(Range(B))
  <2>1. CASE signed BY <2>1, RangeOfPair, Zenon
  <2>2. CASE ~signed BY <2>2, RangeOfPair, Zenon
  <2> QED BY <2>1, <2>2
<1> HIDE DEF A, B
<1>4. Range(A \o B) = Range(A) \cup Range(B) /\ A \o B \in Seq(Range(A \o B))
  BY <1>2, <1>3, RangeConcat
<1> HIDE DEF v
<1>5. /\ Pacman!GenerateIndexes(got, stamp, signed) \in Seq(Range(Pacman!GenerateIndexes(got, stamp, signed)))
      /\ Range(Pacman!GenerateIndexes(got, stamp, signed))
           = {WriteFile(Pacman!Db, v)} \cup IF signed THEN {WriteFile(Pacman!DbSig, Signature(v))} ELSE {}
  BY <1>1, <1>2, <1>3, <1>4
<1> QED BY <1>5 DEF v

\* The generators count and enumerate sets as everybody does.
LEMMA SameEnumeration ==
    ASSUME NEW S
    PROVE  /\ Apt!Cardinality(S) = Cardinality(S) /\ Xbps!Cardinality(S) = Cardinality(S)
           /\ Apt!SetToSeq(S) = SetToSeq(S) /\ Apk!SetToSeq(S) = SetToSeq(S) /\ Xbps!SetToSeq(S) = SetToSeq(S)
<1>1. Apt!Cardinality(S) = Cardinality(S) /\ Apk!Cardinality(S) = Cardinality(S) /\ Xbps!Cardinality(S) = Cardinality(S)
  BY DEF Apt!Cardinality, Apk!Cardinality, Xbps!Cardinality, Cardinality
<1>2. Apt!SetToSeq(S) = SetToSeq(S) /\ Apk!SetToSeq(S) = SetToSeq(S) /\ Xbps!SetToSeq(S) = SetToSeq(S)
  BY <1>1, Zenon DEF Apt!SetToSeq, Apk!SetToSeq, Xbps!SetToSeq, SetToSeq,
                     Apt!IsInjective, Apk!IsInjective, Xbps!IsInjective, IsInjective
<1> QED BY <1>1, <1>2

\* The records of a generation name each package once.
Collection(got) == got \in SUBSET (Pkgs \X Revs) /\ \A x, y \in got : x[1] = y[1] => x = y

LEMMA CollectionFinite == ASSUME NEW got, Collection(got) PROVE IsFiniteSet(got)
<1> DEFINE first == [x \in got |-> x[1]]
<1>1. first \in [got -> Pkgs] /\ \A x, y \in got : first[x] = first[y] => x = y
  BY DEF Collection
<1>2. first \in Injection(got, Pkgs)
  BY <1>1 DEF Injection, IsInjective
<1> QED BY <1>2, FS_Injection, RepoAssumption

LEMMA ArchesFinite == ASSUME NEW got, got \in SUBSET (Pkgs \X Revs) PROVE IsFiniteSet(Arches(got))
<1> DEFINE T == {Arch[p] : p \in Pkgs}
<1>1. [p \in Pkgs |-> Arch[p]] \in Surjection(Pkgs, T)
  BY DEF Surjection
<1>2. IsFiniteSet(T)
  BY <1>1, FS_Surjection, RepoAssumption
<1>3. Arches(got) \in SUBSET T
  BY DEF Arches
<1> QED BY <1>2, <1>3, FS_Subset

\* A file for each element of a finite set.
LEMMA OnePerElement ==
    ASSUME NEW S, IsFiniteSet(S), NEW F, NEW q, q = [n \in 1 .. Len(SetToSeq(S)) |-> F[SetToSeq(S)[n]]]
    PROVE  Range(q) = {F[x] : x \in S} /\ q \in Seq(Range(q))
<1> DEFINE w == SetToSeq(S)
<1>1. /\ Len(w) \in Nat /\ w \in [1 .. Len(w) -> S]
      /\ \A x \in S : \E i \in 1 .. Len(w) : w[i] = x
  BY SetAsSeq
<1> HIDE DEF w
<1>2. q = [n \in 1 .. Len(w) |-> F[w[n]]] BY DEF w
<1>3. Range(q) = {F[x] : x \in S}
  <2>1. DOMAIN q = 1 .. Len(w) /\ \A n \in 1 .. Len(w) : q[n] = F[w[n]] BY <1>2
  <2>2. Range(q) = {q[n] : n \in 1 .. Len(w)} BY <2>1 DEF Range
  <2>3. ASSUME NEW x \in S PROVE F[x] \in {q[n] : n \in 1 .. Len(w)}
    <3>1. PICK i \in 1 .. Len(w) : w[i] = x BY <1>1
    <3>2. q[i] = F[x] BY <2>1, <3>1
    <3> QED BY <3>2
  <2>4. ASSUME NEW n \in 1 .. Len(w) PROVE q[n] \in {F[x] : x \in S} BY <2>1, <1>1
  <2> QED BY <2>2, <2>3, <2>4
<1>4. q \in Seq(Range(q)) BY <1>1, <1>2, OwnRange
<1> QED BY <1>3, <1>4

LEMMA ApkPlan ==
    ASSUME NEW got, got \in SUBSET (Pkgs \X Revs), NEW stamp
    PROVE  LET P == Apk!GenerateIndexes(got, stamp, signed) IN
           /\ P \in Seq(Range(P))
           /\ Range(P) = {WriteFile(Apk!ApkIndex(a), Apk!buildIndex(got, a, signed)) : a \in Arches(Apk!Placed(got))}
<1> DEFINE S == Arches(Apk!Placed(got))
           F == [a \in S |-> WriteFile(Apk!ApkIndex(a), Apk!buildIndex(got, a, signed))]
           P == Apk!GenerateIndexes(got, stamp, signed)
<1>1. IsFiniteSet(S)
  <2>1. Apk!Placed(got) \in SUBSET (Pkgs \X Revs) BY DEF Apk!Placed
  <2> QED BY <2>1, ArchesFinite
<1>2. P = [n \in 1 .. Len(SetToSeq(S)) |-> F[SetToSeq(S)[n]]]
  <2>1. \A n \in 1 .. Len(SetToSeq(S)) : SetToSeq(S)[n] \in S
    BY <1>1, SetAsSeq
  <2>2. Apk!SetToSeq(Apk!Arches(Apk!Placed(got))) = SetToSeq(S)
    <3>1. Apk!Arches(Apk!Placed(got)) = S BY DEF Apk!Arches, Arches
    <3> QED BY <3>1, SameEnumeration
  <2> HIDE DEF S
  <2> DEFINE w == Apk!SetToSeq(Apk!Arches(Apk!Placed(got)))
  <2>3. P = [n \in 1 .. Len(w) |-> WriteFile(Apk!ApkIndex(w[n]), Apk!buildIndex(got, w[n], signed))]
    BY DEF Apk!GenerateIndexes, WriteFile, Apk!WriteFile
  <2>4. \A a \in S : F[a] = WriteFile(Apk!ApkIndex(a), Apk!buildIndex(got, a, signed)) OBVIOUS
  <2>5. w = SetToSeq(S) BY <2>2
  <2> HIDE DEF P, F, w
  <2>6. P = [n \in 1 .. Len(w) |-> F[w[n]]] BY <2>1, <2>3, <2>4, <2>5
  <2> QED BY <2>5, <2>6, Zenon
<1>3. P \in Seq(Range(P)) /\ Range(P) = {F[a] : a \in S}
  <2> HIDE DEF S, F, P
  <2> QED BY <1>1, <1>2, OnePerElement
<1>4. {F[a] : a \in S} = {WriteFile(Apk!ApkIndex(a), Apk!buildIndex(got, a, signed)) : a \in S}
  <2> HIDE DEF S
  <2> QED OBVIOUS
<1> QED BY <1>3, <1>4

\* A set of keys has a first one, and so have records.
LEMMA LeastKey ==
    ASSUME NEW S \in SUBSET Pkgs, S # {}
    PROVE  \E m \in S : \A x \in S : m <= x
<1> DEFINE Least(V) == \E m \in V : \A x \in V : m <= x
           Bad == {V \in SUBSET S : V # {} /\ ~Least(V)}
<1>1. IsFiniteSet(S) /\ S \subseteq Nat
  BY FS_Subset, RepoAssumption
<1>2. Bad \subseteq FiniteSubsetsOf(S)
  BY <1>1, FS_FiniteSubsetsOfFinite
<1>3. SUFFICES ASSUME Bad # {} PROVE FALSE
  OBVIOUS
<1>4. PICK V \in Bad : \A W \in Bad : ~(<<W, V>> \in StrictSubsetOrdering(S))
  <2> HIDE DEF Bad
  <2> QED BY <1>2, <1>3, WFMin, FS_StrictSubsetOrderingWellFounded
<1>5. PICK x \in V : TRUE
  OBVIOUS
<1>6. V \ {x} \notin Bad
  BY <1>4, <1>5 DEF StrictSubsetOrdering
<1>7. CASE V \ {x} = {}
  <2>1. \A y \in V : x <= y BY <1>1, <1>7
  <2> QED BY <1>5, <2>1
<1>8. CASE V \ {x} # {}
  <2>1. PICK m \in V \ {x} : \A y \in V \ {x} : m <= y BY <1>6, <1>8
  <2>2. x \in Nat /\ m \in Nat /\ V \subseteq Nat BY <1>1
  <2>3. (\A y \in V : m <= y) \/ (\A y \in V : x <= y) BY <2>1, <2>2
  <2> QED BY <1>5, <2>1, <2>3
<1> QED BY <1>7, <1>8

LEMMA FirstRecord ==
    ASSUME NEW got, Collection(got), NEW U \in SUBSET got, U # {}
    PROVE  \E m \in U : \A x \in U \ {m} : m[1] < x[1]
<1> DEFINE firsts == {x[1] : x \in U}
<1>1. firsts \in SUBSET Pkgs /\ firsts # {} /\ \A x \in U : x[1] \in Nat
  <2>1. \A x \in U : x[1] \in Pkgs BY DEF Collection
  <2> QED BY <2>1, RepoAssumption
<1>2. PICK n \in firsts : \A x \in firsts : n <= x
  BY <1>1, LeastKey
<1>3. PICK m \in U : m[1] = n
  OBVIOUS
<1>4. ASSUME NEW x \in U \ {m} PROVE m[1] < x[1]
  BY <1>1, <1>2, <1>3 DEF Collection
<1> QED BY <1>4

InOrder(q, n) == \A i, j \in 1 .. n : i < j => q[i][1] < q[j][1]

LEMMA RecordsInOrder ==
    ASSUME NEW got, Collection(got)
    PROVE  \E q \in [1 .. Cardinality(got) -> got] : InOrder(q, Cardinality(got))
<1> DEFINE Listed(V) == \E q \in [1 .. Cardinality(V) -> V] : InOrder(q, Cardinality(V))
           Bad == {V \in SUBSET got : ~Listed(V)}
<1>1. IsFiniteSet(got) /\ \A x \in got : x[1] \in Nat
  BY CollectionFinite, RepoAssumption DEF Collection
<1>2. Bad \subseteq FiniteSubsetsOf(got)
  BY <1>1, FS_FiniteSubsetsOfFinite
<1>3. SUFFICES ASSUME Bad # {} PROVE FALSE
  OBVIOUS
<1>4. PICK V \in Bad : \A W \in Bad : ~(<<W, V>> \in StrictSubsetOrdering(got))
  <2> HIDE DEF Bad
  <2> QED BY <1>2, <1>3, WFMin, FS_StrictSubsetOrderingWellFounded
<1>5. IsFiniteSet(V) /\ V \in SUBSET got
  BY <1>1, FS_Subset
<1>6. CASE V = {}
  <2>1. Cardinality(V) = 0 BY <1>6, FS_EmptySet
  <2>2. [i \in 1 .. 0 |-> 0] \in [1 .. Cardinality(V) -> V] BY <2>1
  <2>3. InOrder([i \in 1 .. 0 |-> 0], Cardinality(V)) BY <2>1 DEF InOrder
  <2> QED BY <2>2, <2>3
<1>7. CASE V # {}
  <2>1. PICK m \in V : \A x \in V \ {m} : m[1] < x[1] BY <1>5, <1>7, FirstRecord
  <2> DEFINE W == V \ {m}  k == Cardinality(W)
  <2>2. <<W, V>> \in StrictSubsetOrdering(got) /\ W \in SUBSET got
    BY <1>5, <2>1 DEF StrictSubsetOrdering
  <2>3. PICK q \in [1 .. k -> W] : InOrder(q, k)
    BY <1>4, <2>2
  <2>4. k \in Nat /\ Cardinality(V) = k + 1
    <3>1. IsFiniteSet(V \ {m}) /\ Cardinality(V \ {m}) = Cardinality(V) - 1
      BY <1>5, <2>1, FS_RemoveElement
    <3>2. Cardinality(V) \in Nat /\ Cardinality(V \ {m}) \in Nat
      BY <1>5, <3>1, FS_CardinalityType
    <3> HIDE DEF Bad
    <3> QED BY <3>1, <3>2
  <2> DEFINE f == [i \in 1 .. k + 1 |-> IF i = 1 THEN m ELSE q[i - 1]]
  <2>5. f \in [1 .. k + 1 -> V]
    <3> SUFFICES ASSUME NEW i \in 1 .. k + 1 PROVE f[i] \in V OBVIOUS
    <3>1. i = 1 \/ i - 1 \in 1 .. k BY <2>4
    <3> HIDE DEF k
    <3> QED BY <2>1, <2>3, <3>1
  <2>6. InOrder(f, k + 1)
    <3> SUFFICES ASSUME NEW i \in 1 .. k + 1, NEW j \in 1 .. k + 1, i < j PROVE f[i][1] < f[j][1] BY DEF InOrder
    <3>1. f[j] = q[j - 1] /\ j - 1 \in 1 .. k /\ q[j - 1] \in W
      <4> HIDE DEF k, W, Bad
      <4>1. j # 1 /\ j - 1 \in 1 .. k BY <2>4
      <4> QED BY <2>3, <4>1
    <3>2. CASE i = 1 BY <2>1, <3>1, <3>2
    <3>3. CASE i # 1
      <4>1. i - 1 \in 1 .. k /\ f[i] = q[i - 1] /\ i - 1 < j - 1 BY <2>4, <3>3
      <4> QED BY <2>3, <3>1, <4>1 DEF InOrder
    <3> QED BY <3>2, <3>3
  <2> HIDE DEF f, k
  <2>7. Listed(V) BY <2>4, <2>5, <2>6
  <2> QED BY <2>7
<1> QED BY <1>6, <1>7

\* Both signatures of every package.
LEMMA XbpsSignatures ==
    ASSUME NEW got, Collection(got)
    PROVE  LET P == Xbps!Signatures(got) IN
           /\ P \in Seq(Range(P))
           /\ Range(P) = {WriteFile(Xbps!Sig2(g[1]), g[2]) : g \in got} \cup {WriteFile(Xbps!Sig(g[1]), g[2]) : g \in got}
<1> DEFINE n == Cardinality(got)
           recs == CHOOSE q \in [1 .. n -> got] : InOrder(q, n)
           P == [i \in 1 .. 2 * n |->
                    WriteFile(IF i % 2 = 1 THEN Xbps!Sig2(recs[(i + 1) \div 2][1]) ELSE Xbps!Sig(recs[(i + 1) \div 2][1]),
                              recs[(i + 1) \div 2][2])]
<1>1. Xbps!Signatures(got) = P
  <2>1. Xbps!Cardinality(got) = n BY SameEnumeration
  <2> HIDE DEF n
  <2>2. recs = CHOOSE q \in [1 .. n -> got] : \A i, j \in 1 .. n : i < j => q[i][1] < q[j][1]
    BY DEF InOrder
  <2> HIDE DEF recs
  <2> QED BY <2>1, <2>2 DEF Xbps!Signatures, WriteFile, Xbps!WriteFile
<1>2. recs \in [1 .. n -> got] /\ InOrder(recs, n)
  <2>1. \E q \in [1 .. n -> got] : InOrder(q, n) BY RecordsInOrder
  <2> HIDE DEF n
  <2> QED BY <2>1, Zenon
<1>3. n \in Nat /\ IsFiniteSet(got) /\ \A x \in got : x[1] \in Nat
  BY CollectionFinite, FS_CardinalityType, RepoAssumption DEF Collection
<1> HIDE DEF recs
<1>4. recs \in Injection(1 .. n, got)
  <2>1. ASSUME NEW i \in 1 .. n, NEW j \in 1 .. n, recs[i] = recs[j] PROVE i = j
    BY <1>2, <1>3, <2>1 DEF InOrder
  <2> QED BY <1>2, <2>1 DEF Injection, IsInjective
<1>5. \A g \in got : \E i \in 1 .. n : recs[i] = g
  <2>1. IsFiniteSet(1 .. n) /\ Cardinality(1 .. n) = n
    BY <1>3, FS_Interval
  <2>2. recs \in Surjection(1 .. n, got)
    BY <1>3, <1>4, <2>1, FS_Injection
  <2> QED BY <2>2 DEF Surjection
<1> HIDE DEF n
<1>6. ASSUME NEW i \in 1 .. 2 * n
      PROVE  /\ (i + 1) \div 2 \in 1 .. n
             /\ P[i] \in {WriteFile(Xbps!Sig2(g[1]), g[2]) : g \in got} \cup {WriteFile(Xbps!Sig(g[1]), g[2]) : g \in got}
  <2>1. (i + 1) \div 2 \in 1 .. n BY <1>3
  <2>2. PICK g \in got : g = recs[(i + 1) \div 2] BY <1>2, <2>1
  <2>3. P[i] = WriteFile(IF i % 2 = 1 THEN Xbps!Sig2(g[1]) ELSE Xbps!Sig(g[1]), g[2]) BY <2>2
  <2> HIDE DEF P
  <2> QED BY <2>1, <2>3
<1>7. ASSUME NEW g \in got
      PROVE  \E i, j \in 1 .. 2 * n : P[i] = WriteFile(Xbps!Sig2(g[1]), g[2]) /\ P[j] = WriteFile(Xbps!Sig(g[1]), g[2])
  <2>1. PICK l \in 1 .. n : recs[l] = g BY <1>5
  <2>2. /\ 2 * l - 1 \in 1 .. 2 * n /\ 2 * l \in 1 .. 2 * n
        /\ (2 * l) \div 2 = l /\ (2 * l + 1) \div 2 = l
        /\ (2 * l - 1) % 2 = 1 /\ (2 * l) % 2 # 1
    BY <1>3
  <2>3. P[2 * l - 1] = WriteFile(Xbps!Sig2(g[1]), g[2])
    <3>1. (2 * l - 1 + 1) \div 2 = l BY <2>2
    <3> QED BY <2>1, <2>2, <3>1
  <2>4. P[2 * l] = WriteFile(Xbps!Sig(g[1]), g[2])
    BY <2>1, <2>2
  <2> HIDE DEF P
  <2> QED BY <2>2, <2>3, <2>4
<1>8. 2 * n \in Nat /\ P = [i \in 1 .. 2 * n |-> P[i]] /\ DOMAIN P = 1 .. 2 * n
  BY <1>3
<1> HIDE DEF P
<1>9. P \in Seq(Range(P))
  BY <1>8, OwnRange
<1>10. Range(P) = {WriteFile(Xbps!Sig2(g[1]), g[2]) : g \in got} \cup {WriteFile(Xbps!Sig(g[1]), g[2]) : g \in got}
  <2>1. Range(P) = {P[i] : i \in 1 .. 2 * n} BY <1>8 DEF Range
  <2> QED BY <2>1, <1>6, <1>7
<1> QED BY <1>1, <1>9, <1>10

LEMMA XbpsPlan ==
    ASSUME NEW got, Collection(got), NEW stamp, signed \in BOOLEAN
    PROVE  LET P == Xbps!GenerateIndexes(got, stamp, signed)
               recs == Xbps!dedupeRecords(got)
           IN  /\ P \in Seq(Range(P))
               /\ Range(P) = {WriteFile(Xbps!Repodata(a), Xbps!buildRepodata(Xbps!groupByArch(recs, a), signed)) :
                                 a \in Arches(recs) \ {"all"}}
                             \cup IF signed THEN Range(Xbps!Signatures(got)) ELSE {}
<1> DEFINE recs == Xbps!dedupeRecords(got)
           S == Arches(recs) \ {"all"}
           F == [a \in S |-> WriteFile(Xbps!Repodata(a), Xbps!buildRepodata(Xbps!groupByArch(recs, a), signed))]
           w == Xbps!SetToSeq(Xbps!Arches(recs) \ {"all"})
           A == [n \in 1 .. Len(w) |-> WriteFile(Xbps!Repodata(w[n]), Xbps!buildRepodata(Xbps!groupByArch(recs, w[n]), signed))]
           B == IF signed THEN Xbps!Signatures(got) ELSE << >>
           P == Xbps!GenerateIndexes(got, stamp, signed)
<1>1. IsFiniteSet(S)
  <2>1. recs \in SUBSET (Pkgs \X Revs) BY DEF Xbps!dedupeRecords, Collection
  <2>2. IsFiniteSet(Arches(recs)) BY <2>1, ArchesFinite
  <2> QED BY <2>2, FS_Difference
<1>2. P = A \o B
  <2> HIDE DEF w
  <2>1. P = [n \in 1 .. Len(w) |-> Xbps!WriteFile(Xbps!Repodata(w[n]), Xbps!buildRepodata(Xbps!groupByArch(recs, w[n]), signed))] \o B
    BY DEF Xbps!GenerateIndexes, w
  <2> HIDE DEF P, B
  <2>2. A = [n \in 1 .. Len(w) |-> Xbps!WriteFile(Xbps!Repodata(w[n]), Xbps!buildRepodata(Xbps!groupByArch(recs, w[n]), signed))]
    BY DEF WriteFile, Xbps!WriteFile
  <2> HIDE DEF A
  <2> QED BY <2>1, <2>2
<1>3. A = [n \in 1 .. Len(SetToSeq(S)) |-> F[SetToSeq(S)[n]]]
  <2>1. \A n \in 1 .. Len(SetToSeq(S)) : SetToSeq(S)[n] \in S
    BY <1>1, SetAsSeq
  <2>2. w = SetToSeq(S)
    <3>1. Xbps!Arches(recs) \ {"all"} = S BY DEF Xbps!Arches, Arches
    <3> QED BY <3>1, SameEnumeration
  <2> HIDE DEF S, w
  <2>3. \A a \in S : F[a] = WriteFile(Xbps!Repodata(a), Xbps!buildRepodata(Xbps!groupByArch(recs, a), signed)) OBVIOUS
  <2> HIDE DEF F
  <2>4. A = [n \in 1 .. Len(w) |-> F[w[n]]] BY <2>1, <2>2, <2>3
  <2> HIDE DEF A
  <2> QED BY <2>2, <2>4, Zenon
<1>4. A \in Seq(Range(A)) /\ Range(A) = {F[a] : a \in S}
  <2> HIDE DEF S, F, A
  <2> QED BY <1>1, <1>3, OnePerElement
<1>5. {F[a] : a \in S} = {WriteFile(Xbps!Repodata(a), Xbps!buildRepodata(Xbps!groupByArch(recs, a), signed)) : a \in S}
  <2> HIDE DEF S, recs
  <2> QED OBVIOUS
<1>6. B \in Seq(Range(B)) /\ Range(B) = IF signed THEN Range(Xbps!Signatures(got)) ELSE {}
  BY XbpsSignatures, RangeOfPair
<1>7. A \o B \in Seq(Range(A \o B)) /\ Range(A \o B) = Range(A) \cup Range(B)
  <2> HIDE DEF A, B
  <2> QED BY <1>4, <1>6, RangeConcat
<1> HIDE DEF A, B, P, F, recs, S
<1>8. /\ P \in Seq(Range(P))
      /\ Range(P) = {WriteFile(Xbps!Repodata(a), Xbps!buildRepodata(Xbps!groupByArch(recs, a), signed)) : a \in S}
                    \cup IF signed THEN Range(Xbps!Signatures(got)) ELSE {}
  BY <1>2, <1>4, <1>5, <1>6, <1>7
<1> QED BY <1>8 DEF P, S, recs

\* No plan writes a file twice with different contents; only apt deletes.
LEMMA PlansSound ==
    ASSUME signed \in BOOLEAN, eco \in {"apt", "rpm-md", "pacman", "apk", "xbps", "nix"},
           NEW got, Collection(got), NEW stamp
    PROVE  /\ SoundPlan(got, Plan(got, stamp))
           /\ eco = "nix" => Plan(got, stamp) = << >>
<1>0. signed \in BOOLEAN /\ got \in SUBSET (Pkgs \X Revs) /\ eco \in {"apt", "rpm-md", "pacman", "apk", "xbps", "nix"}
  BY DEF Collection
<1>1. CASE eco = "apt"
  <2> DEFINE v == Apt!appendPackagesEntry(got)
             rel == Apt!buildRelease(v, stamp)
             P == Apt!GenerateIndexes(got, stamp, signed)
  <2>1. P \in Seq(Range(P)) BY <1>0, AptPlan
  <2>2. Range(P) \subseteq {WriteFile(Apt!Packages, v), WriteFile(Apt!PackagesGz, v),
                  WriteFile(Apt!ByHash("plain", v), v), WriteFile(Apt!ByHash("gz", v), v),
                  CollectOld(v), WriteFile(Apt!Marker, v), WriteFile(Apt!Release, rel),
                  WriteFile(Apt!InRelease, Signature(rel)), WriteFile(Apt!ReleaseGpg, Signature(rel))}
    <3> DEFINE Q == Range(P)
    <3>1. Q = {WriteFile(Apt!Packages, v), WriteFile(Apt!PackagesGz, v),
                  WriteFile(Apt!ByHash("plain", v), v), WriteFile(Apt!ByHash("gz", v), v),
                  CollectOld(v), WriteFile(Apt!Marker, v), WriteFile(Apt!Release, rel)}
              \cup IF signed THEN {WriteFile(Apt!InRelease, Signature(rel)),
                                   WriteFile(Apt!ReleaseGpg, Signature(rel))} ELSE {}
      BY <1>0, AptPlan
    <3> HIDE DEF Q, v, rel
    <3>2. Q \subseteq {WriteFile(Apt!Packages, v), WriteFile(Apt!PackagesGz, v),
                  WriteFile(Apt!ByHash("plain", v), v), WriteFile(Apt!ByHash("gz", v), v),
                  CollectOld(v), WriteFile(Apt!Marker, v), WriteFile(Apt!Release, rel),
                  WriteFile(Apt!InRelease, Signature(rel)), WriteFile(Apt!ReleaseGpg, Signature(rel))}
      BY <3>1
    <3> QED BY <3>2 DEF Q
  <2>3. Plan(got, stamp) = P BY <1>1 DEF Plan
  <2> HIDE DEF P, rel
  <2>4. \A s \in Range(P) : s = WriteFile(s.key, s.val) \/ s = CollectOld(v)
    <3> HIDE DEF v
    <3> QED BY <2>2 DEF WriteFile
  <2> USE DEF Apt!Packages, Apt!PackagesGz, Apt!ByHash, Apt!Marker, Apt!Release, Apt!InRelease, Apt!ReleaseGpg
  <2>5. \A s, t \in Range(P) : s.op = "put" /\ t.op = "put" /\ s.key = t.key => s = t
    <3> HIDE DEF v
    <3>1. CollectOld(v).op # "put" BY DEF CollectOld
    <3> QED BY <2>2, <3>1 DEF WriteFile
  <2>6. \A s \in Range(P) : s.op = "put" /\ s.key[1] = "by-hash" => s.key \in Apt!Copies(v)
    <3> HIDE DEF v
    <3>1. CollectOld(v).op # "put" BY DEF CollectOld
    <3> QED BY <2>2, <3>1 DEF WriteFile, Apt!Copies
  <2> QED BY <1>1, <2>1, <2>3, <2>4, <2>5, <2>6 DEF SoundPlan
<1>2. CASE eco = "rpm-md"
  <2> DEFINE P == Rpm!GenerateIndexes(got, stamp, signed)
             rel == Rpm!buildRepomd(got, stamp)
  <2>1. P \in Seq(Range(P)) /\ Range(P) \subseteq {WriteFile(Rpm!Primary, got), WriteFile(Rpm!Repomd, rel), WriteFile(Rpm!RepomdAsc, Signature(rel))}
    <3> DEFINE Q == Range(P)
    <3>1. P \in Seq(Q) /\ Q = {WriteFile(Rpm!Primary, got), WriteFile(Rpm!Repomd, rel)}
                         \cup IF signed THEN {WriteFile(Rpm!RepomdAsc, Signature(rel))} ELSE {}
      BY <1>0, RpmPlan
    <3> HIDE DEF Q, rel
    <3>2. Q \subseteq {WriteFile(Rpm!Primary, got), WriteFile(Rpm!Repomd, rel), WriteFile(Rpm!RepomdAsc, Signature(rel))}
      BY <3>1
    <3> QED BY <3>1, <3>2 DEF Q
  <2>2. Plan(got, stamp) = P BY <1>2 DEF Plan
  <2> HIDE DEF P, rel
  <2>3. /\ \A s \in Range(P) : s = WriteFile(s.key, s.val)
        /\ \A s, t \in Range(P) : s.key = t.key => s = t
    BY <2>1 DEF WriteFile, Rpm!Primary, Rpm!Repomd, Rpm!RepomdAsc
  <2> QED BY <1>2, <2>1, <2>2, <2>3 DEF SoundPlan
<1>3. CASE eco = "pacman"
  <2> DEFINE P == Pacman!GenerateIndexes(got, stamp, signed)
             v == Pacman!dedupeDescs(got)
  <2>1. P \in Seq(Range(P)) /\ Range(P) \subseteq {WriteFile(Pacman!Db, v), WriteFile(Pacman!DbSig, Signature(v))}
    <3> DEFINE Q == Range(P)
    <3>1. P \in Seq(Q) /\ Q = {WriteFile(Pacman!Db, v)} \cup IF signed THEN {WriteFile(Pacman!DbSig, Signature(v))} ELSE {}
      BY <1>0, PacmanPlan
    <3> HIDE DEF Q, v
    <3>2. Q \subseteq {WriteFile(Pacman!Db, v), WriteFile(Pacman!DbSig, Signature(v))}
      BY <3>1
    <3> QED BY <3>1, <3>2 DEF Q
  <2>2. Plan(got, stamp) = P BY <1>3 DEF Plan
  <2> HIDE DEF P, v
  <2>3. /\ \A s \in Range(P) : s = WriteFile(s.key, s.val)
        /\ \A s, t \in Range(P) : s.key = t.key => s = t
    BY <2>1 DEF WriteFile, Pacman!Db, Pacman!DbSig
  <2> QED BY <1>3, <2>1, <2>2, <2>3 DEF SoundPlan
<1>4. CASE eco = "apk"
  <2> DEFINE P == Apk!GenerateIndexes(got, stamp, signed)
  <2>1. P \in Seq(Range(P))
        /\ Range(P) = {WriteFile(Apk!ApkIndex(a), Apk!buildIndex(got, a, signed)) : a \in Arches(Apk!Placed(got))}
    BY <1>0, ApkPlan
  <2>2. Plan(got, stamp) = P BY <1>4 DEF Plan
  <2> HIDE DEF P
  <2>3. ASSUME NEW s \in Range(P)
        PROVE  s = WriteFile(s.key, s.val) /\ s.val = Apk!buildIndex(got, s.key[2], signed)
    BY <2>1 DEF WriteFile, Apk!ApkIndex
  <2>4. \A s, t \in Range(P) : s.key = t.key => s = t
    BY <2>3
  <2> QED BY <1>4, <2>1, <2>2, <2>3, <2>4 DEF SoundPlan
<1>5. CASE eco = "xbps"
  <2> DEFINE P == Xbps!GenerateIndexes(got, stamp, signed)
             recs == Xbps!dedupeRecords(got)
             V(a) == Xbps!buildRepodata(Xbps!groupByArch(recs, a), signed)
  <2>1. /\ P \in Seq(Range(P))
        /\ \A s \in Range(P) : \/ \E a \in Arches(recs) : s = WriteFile(Xbps!Repodata(a), V(a))
                               \/ \E g \in got : s = WriteFile(Xbps!Sig2(g[1]), g[2])
                               \/ \E g \in got : s = WriteFile(Xbps!Sig(g[1]), g[2])
    <3> DEFINE Q == Range(P)  W == Range(Xbps!Signatures(got))
    <3>1. P \in Seq(Q) /\ Q = {WriteFile(Xbps!Repodata(a), V(a)) : a \in Arches(recs) \ {"all"}} \cup IF signed THEN W ELSE {}
      BY <1>0, XbpsPlan
    <3>2. W = {WriteFile(Xbps!Sig2(g[1]), g[2]) : g \in got} \cup {WriteFile(Xbps!Sig(g[1]), g[2]) : g \in got}
      BY XbpsSignatures
    <3> HIDE DEF Q, W, recs, V
    <3>3. \A s \in Q : \/ \E a \in Arches(recs) : s = WriteFile(Xbps!Repodata(a), V(a))
                       \/ \E g \in got : s = WriteFile(Xbps!Sig2(g[1]), g[2])
                       \/ \E g \in got : s = WriteFile(Xbps!Sig(g[1]), g[2])
      BY <3>1, <3>2
    <3> QED BY <3>1, <3>3 DEF Q
  <2>2. Plan(got, stamp) = P BY <1>5 DEF Plan
  <2> HIDE DEF P, recs, V
  <2>3. \A s \in Range(P) : s = WriteFile(s.key, s.val)
    BY <2>1 DEF WriteFile
  <2>4. ASSUME NEW s \in Range(P)
        PROVE  \/ s.key[1] = "repodata" /\ s.val = V(s.key[2])
               \/ s.key[1] \in {"sig2", "sig"} /\ <<s.key[2], s.val>> \in got
    <3>1. \A g \in got : g = <<g[1], g[2]>> BY DEF Collection
    <3>2. CASE \E a \in Arches(recs) : s = WriteFile(Xbps!Repodata(a), V(a))
      BY <3>2 DEF WriteFile, Xbps!Repodata
    <3>3. CASE \E g \in got : s = WriteFile(Xbps!Sig2(g[1]), g[2])
      BY <3>1, <3>3 DEF WriteFile, Xbps!Sig2
    <3>4. CASE \E g \in got : s = WriteFile(Xbps!Sig(g[1]), g[2])
      BY <3>1, <3>4 DEF WriteFile, Xbps!Sig
    <3> QED BY <2>1, <3>2, <3>3, <3>4
  <2>5. ASSUME NEW s \in Range(P), NEW t \in Range(P), s.key = t.key PROVE s.val = t.val
    BY <2>4, <2>5 DEF Collection
  <2> QED BY <1>5, <2>1, <2>2, <2>3, <2>5 DEF SoundPlan
<1>6. CASE eco = "nix"
  <2>1. Plan(got, stamp) = << >> BY <1>6 DEF Plan
  <2> QED BY <2>1, RangeOfPair DEF SoundPlan
<1> QED BY <1>0, <1>1, <1>2, <1>3, <1>4, <1>5, <1>6

-----------------------------------------------------------------------------
(* The steps of the generations                                            *)

LEMMA PlanSame ==
    ASSUME UNCHANGED <<eco, signed>>, NEW g
    PROVE  /\ Plan(g.got, g.stamp)' = Plan(g.got, g.stamp)
           /\ Planned(g)' <=> Planned(g)
<1>1. ASSUME NEW a, NEW b PROVE Plan(a, b)' = Plan(a, b)
  BY DEF Plan
<1>2. ASSUME NEW s PROVE Dooms(g, s)' <=> Dooms(g, s)
  BY DEF Dooms
<1> QED BY <1>1, <1>2 DEF Planned

\* A generation that moves on, and what it does to the storage, if anything.
LEMMA OneMoves ==
    ASSUME GenInv, NEW r \in Runners, NEW g, Goes(r, g),
           g \in GenRecord(Range(g.plan)),
           UNCHANGED <<eco, signed>>, runs' \in Nat,
           pool' \in [Pkgs -> Object \cup {Absent}], IsFiniteSet(DOMAIN files'),
           g.phase # "idle" => run[r].phase # "idle" /\ g.alone = run[r].alone,
           g.phase \in {"list", "read", "write"} => r \in Active,
           r \in Active \/ UNCHANGED <<pool, files>>,
           Planned(g), g.alone => Collected(g)' /\ Written(g)'
    PROVE  GenInv'
<1>1. \A x \in Runners : run'[x] = IF x = r THEN g ELSE run[x]
  BY DEF GenInv, GenTypeOK, Goes
<1>2. GenTypeOK'
  <2>1. DOMAIN run' = Runners BY DEF GenInv, GenTypeOK, Goes
  <2>2. \A x \in Runners : run'[x] \in GenRecord(Range(run'[x].plan))
    BY <1>1 DEF GenInv, GenTypeOK
  <2>3. eco' \in {"apt", "rpm-md", "pacman", "apk", "xbps", "nix"} /\ signed' \in BOOLEAN
    BY DEF GenInv, GenTypeOK
  <2> QED BY <2>1, <2>2, <2>3 DEF GenTypeOK, GenRecord
<1>3. \A x \in Runners : x \in Active' => x \in Active
  BY <1>1 DEF Active
<1>4. Solo'
  <2> SUFFICES ASSUME NEW x \in Runners, NEW y \in Runners, x # y, run'[x].phase # "idle", run'[x].alone
               PROVE  y \notin Active'
    BY DEF Solo
  <2>1. run[x].phase # "idle" /\ run[x].alone BY <1>1
  <2> QED BY <1>3, <2>1 DEF GenInv, Solo
<1>5. ASSUME NEW x \in Runners
      PROVE  Planned(run[x])' /\ (run[x].alone => Collected(run[x]) /\ Written(run[x]))'
  <2>1. CASE x = r
    <3>1. Planned(g)' BY PlanSame
    <3>2. run'[x] = g BY <1>1, <2>1
    <3> QED BY <3>1, <3>2
  <2>2. CASE x # r
    <3>1. PICK h : h = run[x] OBVIOUS
    <3>2. run'[x] = h /\ Planned(h) /\ (h.alone => Collected(h) /\ Written(h)) /\ h \in GenRecord(Range(h.plan))
      BY <1>1, <2>2, <3>1 DEF GenInv, GenTypeOK
    <3>3. Planned(h)' BY <3>2, PlanSame
    <3>4. ASSUME h.alone PROVE Collected(h)' /\ Written(h)'
      <4>1. CASE h.phase = "idle" BY <4>1 DEF Collected, Written
      <4>2. CASE h.phase # "idle"
        <5>1. UNCHANGED <<pool, files>> BY <2>2, <3>1, <3>4, <4>2 DEF GenInv, Solo
        <5>2. Collected(h)' BY <3>2, <3>4, <5>1 DEF Collected, Stored
        <5>3. Written(h)' BY <3>2, <3>4, <5>1, PlanSame DEF Written, Holds
        <5> QED BY <5>2, <5>3
      <4> QED BY <4>1, <4>2
    <3> QED BY <3>2, <3>3, <3>4
  <2> QED BY <2>1, <2>2
<1> QED BY <1>2, <1>4, <1>5 DEF GenInv

\* A generation that ends.
LEMMA IdleFits == Idle \in GenRecord(Range(Idle.plan)) /\ Planned(Idle) /\ Collected(Idle)' /\ Written(Idle)'
<1>1. Idle.plan = << >> /\ Range(<< >>) = {} BY DEF Idle, Range
<1>2. Idle \in GenRecord(Range(Idle.plan)) BY <1>1 DEF Idle, GenRecord
<1> QED BY <1>2 DEF Idle, Planned, Collected, Written

LEMMA Ends ==
    ASSUME GenInv, NEW r \in Runners, Goes(r, Idle),
           UNCHANGED <<eco, signed, pool, runs>>, IsFiniteSet(DOMAIN files'),
           r \in Active \/ files' = files
    PROVE  GenInv'
<1>1. PICK g : g = Idle OBVIOUS
<1>2. runs' \in Nat /\ pool' \in [Pkgs -> Object \cup {Absent}] BY DEF GenInv, GenTypeOK
<1>3. Goes(r, g) BY <1>1
<1>4. g \in GenRecord(Range(g.plan)) /\ Planned(g) /\ Collected(g)' /\ Written(g)' /\ g.phase = "idle"
  <2>1. Idle.phase = "idle" BY DEF Idle
  <2> QED BY <1>1, <2>1, IdleFits DEF Idle
<1> QED BY <1>2, <1>3, <1>4, OneMoves

\* A user, or a retention pass, changes a package.
LEMMA EditKeeps ==
    ASSUME GenInv, NEW p \in Pkgs, NEW o \in Object \cup {Absent},
           pool' = [pool EXCEPT ![p] = o], run' = Touch(p), UNCHANGED <<eco, signed, files>>, runs' \in Nat
    PROVE  GenInv'
<1>1. ASSUME NEW x \in Runners
      PROVE  /\ run[x] \in GenRecord(Range(run[x].plan))
             /\ run'[x] = IF run[x].phase # "idle" THEN [run[x] EXCEPT !.touched = @ \cup {p}] ELSE run[x]
  BY DEF GenInv, GenTypeOK, Touch
<1>2. ASSUME NEW x \in Runners
      PROVE  /\ run'[x] \in GenRecord(Range(run'[x].plan))
             /\ run'[x].phase = run[x].phase /\ run'[x].alone = run[x].alone
             /\ run'[x].got = run[x].got /\ run'[x].todo = run[x].todo /\ run'[x].plan = run[x].plan
             /\ run'[x].stamp = run[x].stamp
             /\ run'[x].phase # "idle" => run'[x].touched = run[x].touched \cup {p}
  <2>1. PICK R : R = Range(run[x].plan) OBVIOUS
  <2>2. PICK g \in GenRecord(R) : g = run[x] BY <1>1, <2>1
  <2>3. PICK h : h = [g EXCEPT !.touched = @ \cup {p}] OBVIOUS
  <2>4. /\ h \in GenRecord(R) /\ h.phase = g.phase /\ h.alone = g.alone /\ h.got = g.got /\ h.todo = g.todo
        /\ h.plan = g.plan /\ h.stamp = g.stamp /\ h.touched = g.touched \cup {p}
    BY <2>2, <2>3 DEF GenRecord
  <2>5. run'[x] = IF g.phase # "idle" THEN h ELSE g BY <1>1, <2>2, <2>3
  <2> QED BY <2>1, <2>2, <2>4, <2>5
<1>3. GenTypeOK'
  <2>1. pool' \in [Pkgs -> Object \cup {Absent}] BY DEF GenInv, GenTypeOK
  <2>2. DOMAIN run' = Runners BY DEF Touch
  <2>3. eco' \in {"apt", "rpm-md", "pacman", "apk", "xbps", "nix"} /\ signed' \in BOOLEAN /\ IsFiniteSet(DOMAIN files')
    BY DEF GenInv, GenTypeOK
  <2> QED BY <1>2, <2>1, <2>2, <2>3 DEF GenTypeOK
<1>4. Solo'
  <2>1. \A x \in Runners : x \in Active' <=> x \in Active BY <1>2 DEF Active
  <2> QED BY <1>2, <2>1 DEF GenInv, Solo
<1>5. ASSUME NEW x \in Runners
      PROVE  Planned(run[x])' /\ (run[x].alone => Collected(run[x]) /\ Written(run[x]))'
  <2>1. PICK g : g = run[x] OBVIOUS
  <2>2. PICK h : h = run'[x] OBVIOUS
  <2>3. Planned(g) /\ (g.alone => Collected(g) /\ Written(g)) BY <2>1 DEF GenInv
  <2>4. /\ h.phase = g.phase /\ h.alone = g.alone /\ h.got = g.got /\ h.todo = g.todo /\ h.plan = g.plan
        /\ h.stamp = g.stamp /\ (h.phase # "idle" => h.touched = g.touched \cup {p})
    BY <1>2, <2>1, <2>2
  <2>5. Planned(h)
    <3>1. \A s : Dooms(h, s) <=> Dooms(g, s) BY <2>4 DEF Dooms
    <3> QED BY <2>3, <2>4, <3>1 DEF Planned
  <2>6. Planned(h)' BY <2>5, PlanSame
  <2>7. h.alone => Written(h)' BY <2>3, <2>4, PlanSame DEF Written, Holds
  <2>8. ASSUME h.alone PROVE Collected(h)'
    <3>1. \A q \in Pkgs \ {p} : pool'[q] = pool[q] BY DEF GenInv, GenTypeOK
    <3> SUFFICES ASSUME h.phase \in {"read", "write", "done"}
                 PROVE  /\ \A q \in Stored' \ h.touched : q \in h.todo \/ <<q, pool'[q].rev>> \in h.got
                        /\ \A y \in h.got : y[1] \notin h.touched =>
                              /\ pool'[y[1]].rev = y[2]
                              /\ eco' = "nix" => pool'[y[1]].own \/ Resign(y[1], y[2]) \in Range(h.plan)
      BY DEF Collected
    <3>2. h.touched = g.touched \cup {p} BY <2>4
    <3>3. \A q \in Stored' \ h.touched : q \in Stored \ g.touched /\ pool'[q] = pool[q] BY <3>1, <3>2 DEF Stored
    <3>4. \A y \in h.got : y[1] \in Pkgs BY <1>2, <2>2 DEF GenRecord
    <3> QED BY <2>3, <2>4, <2>8, <3>1, <3>2, <3>3, <3>4 DEF Collected
  <2> QED BY <2>2, <2>6, <2>7, <2>8
<1> QED BY <1>3, <1>4, <1>5 DEF GenInv

\* A generation starts, beside others or not.
LEMMA BeginKeeps ==
    ASSUME GenInv, NEW r \in Runners, NEW ph \in {"idle", "list"}, runs' = runs + 1,
           UNCHANGED <<eco, signed, pool, files>>,
           run' = [x \in Runners |->
                      IF x = r THEN [Idle EXCEPT !.phase = ph, !.stamp = runs + 1, !.alone = (Active = {})]
                      ELSE IF run[x].phase # "idle" THEN [run[x] EXCEPT !.alone = FALSE] ELSE run[x]]
    PROVE  GenInv'
<1>0. runs \in Nat /\ runs' \in Nat
  <2>1. runs \in Nat BY ONLY GenInv DEF GenInv, GenTypeOK
  <2> QED BY ONLY <2>1, runs' = runs + 1
<1>a. PICK b \in BOOLEAN : b = (Active = {}) BY ONLY TRUE
<1>b. PICK n \in Nat : n = runs + 1 BY <1>0
<1>1. PICK g : g = [Idle EXCEPT !.phase = ph, !.stamp = n, !.alone = b] BY ONLY TRUE
<1>2. /\ g.phase = ph /\ g.alone = b /\ g.got = {} /\ g.todo = {} /\ g.plan = << >>
      /\ g \in GenRecord({}) /\ Range(g.plan) = {}
  <2>1. g = [phase |-> ph, todo |-> {}, got |-> {}, plan |-> << >>, stamp |-> n, touched |-> {}, alone |-> b]
    BY ONLY <1>1 DEF Idle
  <2>2. g.phase = ph /\ g.alone = b /\ g.got = {} /\ g.todo = {} /\ g.plan = << >>
    BY ONLY <2>1
  <2>3. g \in GenRecord({}) BY ONLY <2>1 DEF GenRecord
  <2>4. Range(g.plan) = {} BY ONLY <2>2 DEF Range
  <2> QED BY ONLY <2>2, <2>3, <2>4
<1>3. run'[r] = g /\ g \in GenRecord(Range(run'[r].plan)) /\ Planned(g)' /\ Collected(g)' /\ Written(g)'
  <2>1. run'[r] = g BY <1>a, <1>b, <1>1
  <2>2. Planned(g)' /\ Collected(g)' /\ Written(g)' BY <1>2 DEF Planned, Collected, Written
  <2> QED BY <1>2, <2>1, <2>2
<1>4. ASSUME NEW x \in Runners, x # r
      PROVE  /\ run'[x] \in GenRecord(Range(run'[x].plan))
             /\ run'[x].phase = run[x].phase /\ (run'[x].phase # "idle" => ~run'[x].alone)
             /\ Planned(run[x])' /\ (run[x].alone => Collected(run[x]) /\ Written(run[x]))'
  <2>1. PICK R : R = Range(run[x].plan) OBVIOUS
  <2>2. PICK h \in GenRecord(R) : h = run[x] BY <2>1 DEF GenInv, GenTypeOK
  <2>3. PICK w : w = IF h.phase # "idle" THEN [h EXCEPT !.alone = FALSE] ELSE h OBVIOUS
  <2>4. run'[x] = w BY <1>4, <2>2, <2>3
  <2>5. /\ w \in GenRecord(R) /\ w.plan = h.plan /\ w.phase = h.phase /\ w.got = h.got /\ w.todo = h.todo
        /\ w.stamp = h.stamp /\ (w.phase # "idle" => ~w.alone)
    BY <2>2, <2>3 DEF GenRecord
  <2>6. Planned(w)'
    <3>1. Planned(h) BY <2>2 DEF GenInv
    <3>2. \A s : Dooms(w, s) <=> Dooms(h, s) BY <2>5 DEF Dooms
    <3>3. Planned(w) BY <2>5, <3>1, <3>2 DEF Planned
    <3> QED BY <3>3, PlanSame
  <2>7. w.alone => Collected(w)' /\ Written(w)'
    BY <2>5 DEF Collected, Written
  <2> QED BY <2>1, <2>2, <2>4, <2>5, <2>6, <2>7
<1>5. GenTypeOK'
  <2>1. DOMAIN run' = Runners OBVIOUS
  <2>2. /\ eco' \in {"apt", "rpm-md", "pacman", "apk", "xbps", "nix"} /\ signed' \in BOOLEAN /\ IsFiniteSet(DOMAIN files')
        /\ pool' \in [Pkgs -> Object \cup {Absent}]
    BY DEF GenInv, GenTypeOK
  <2> QED BY <1>0, <1>3, <1>4, <2>1, <2>2 DEF GenTypeOK
<1>6. Solo'
  <2> SUFFICES ASSUME NEW x \in Runners, NEW y \in Runners, x # y, run'[x].phase # "idle", run'[x].alone
               PROVE  y \notin Active'
    BY DEF Solo
  <2>1. x = r /\ y # r BY <1>4
  <2>2. Active = {} BY <1>a, <1>2, <1>3, <2>1
  <2> QED BY <1>4, <2>1, <2>2 DEF Active
<1>7. \A x \in Runners : Planned(run[x])' /\ (run[x].alone => Collected(run[x]) /\ Written(run[x]))'
  BY <1>3, <1>4
<1> QED BY <1>5, <1>6, <1>7 DEF GenInv

\* The process dies.
LEMMA CrashKeeps ==
    ASSUME GenInv, run' = [r \in Runners |-> Idle], UNCHANGED <<eco, signed, pool, files, runs>>
    PROVE  GenInv'
<1>1. Idle \in GenRecord(Range(Idle.plan)) /\ Idle.phase = "idle" BY IdleFits DEF Idle
<1>2. GenTypeOK' BY <1>1 DEF GenInv, GenTypeOK
<1>3. Solo' BY <1>1 DEF Solo, Active
<1>4. PICK g : g = Idle OBVIOUS
<1>5. Planned(g)' /\ Collected(g)' /\ Written(g)' BY <1>4, IdleFits DEF Idle, Planned, Collected, Written
<1>6. \A x \in Runners : Planned(run[x])' /\ (run[x].alone => Collected(run[x]) /\ Written(run[x]))'
  BY <1>4, <1>5
<1> QED BY <1>2, <1>3, <1>6 DEF GenInv

\* What is known of a generation that takes a step.
LEMMA RunnerFacts ==
    ASSUME GenInv, NEW r \in Runners, NEW g, g = run[r]
    PROVE  /\ g \in GenRecord(Range(g.plan)) /\ Planned(g) /\ Collection(g.got)
           /\ g.alone => Collected(g) /\ Written(g)
           /\ runs \in Nat /\ pool \in [Pkgs -> Object \cup {Absent}] /\ IsFiniteSet(DOMAIN files)
           /\ SoundPlan(g.got, Plan(g.got, g.stamp)) /\ (eco = "nix" => Plan(g.got, g.stamp) = << >>)
<1>1. g \in GenRecord(Range(g.plan)) /\ Planned(g)
  BY DEF GenInv, GenTypeOK
<1>2. Collection(g.got)
  BY <1>1 DEF GenRecord, Planned, Collection
<1> QED BY <1>1, <1>2, PlansSound DEF GenInv, GenTypeOK

LEMMA ListKeeps == ASSUME GenInv, NEW r \in Runners, List(r) PROVE GenInv'
<1>1. PICK g : g = run[r] OBVIOUS
<1>2. /\ g \in GenRecord(Range(g.plan)) /\ Planned(g) /\ runs \in Nat
      /\ pool \in [Pkgs -> Object \cup {Absent}] /\ IsFiniteSet(DOMAIN files)
  BY <1>1, RunnerFacts
<1>3. g.phase = "list" /\ g.got = {} /\ g.plan = << >>
  BY <1>1, <1>2 DEF List, Planned
<1>4. PICK h : h = [g EXCEPT !.phase = "read", !.todo = Stored]
  OBVIOUS
<1>5. Goes(r, h) /\ UNCHANGED <<eco, signed, pool, files, runs>>
  BY <1>1, <1>4 DEF List, collect
<1>6. h \in GenRecord(Range(h.plan)) /\ h.phase = "read" /\ h.todo = Stored /\ h.got = {} /\ h.plan = << >> /\ h.alone = g.alone
  <2>1. Stored \in SUBSET Pkgs BY DEF Stored
  <2> QED BY <1>2, <1>3, <1>4, <2>1 DEF GenRecord
<1>7. Range(<< >>) = {}
  BY RangeOfPair
<1>8. Planned(h)
  BY <1>6, <1>7 DEF Planned
<1>9. Collected(h)' /\ Written(h)'
  BY <1>5, <1>6 DEF Collected, Written, Stored
<1>10. r \in Active
  BY <1>1, <1>3 DEF Active
<1> QED BY <1>1, <1>2, <1>3, <1>5, <1>6, <1>8, <1>9, <1>10, OneMoves

\* The package that is read next is one of those left.
LEMMA NextLeft ==
    ASSUME NEW r, run[r].todo \in SUBSET Pkgs, run[r].todo # {}
    PROVE  Next1(r) \in run[r].todo
<1>1. \E m \in run[r].todo : \A q \in run[r].todo : m <= q
  BY LeastKey
<1> QED BY <1>1, Zenon DEF Next1

\* A package that parses gives the record of its bytes.
LEMMA ReadGives ==
    ASSUME GenTypeOK, NEW p \in Pkgs, ReadPackage(p) # {}
    PROVE  /\ pool[p] \in Object /\ pool[p] # Absent /\ pool[p].rev \in Revs /\ pool[p].own \in BOOLEAN
           /\ ReadPackage(p) = {<<p, pool[p].rev>>}
<1>1. pool[p] # Absent BY DEF ReadPackage
<1>2. pool[p] \in Object BY <1>1 DEF GenTypeOK
<1>3. ReadPackage(p) \in {{}, {<<p, pool[p].rev>>}}
  BY <1>1 DEF ReadPackage, GenTypeOK, Apt!readControl, Rpm!ParseRPMHeader, Pacman!buildDescEntry, Apk!readIndexEntry,
              Xbps!readPackage, Nix!ParseNarinfo
<1> QED BY <1>1, <1>2, <1>3 DEF Object

LEMMA ReadKeeps == ASSUME GenInv, NEW r \in Runners, Read(r) PROVE GenInv'
<1>1. PICK g : g = run[r] OBVIOUS
<1>2. /\ g \in GenRecord(Range(g.plan)) /\ Planned(g) /\ runs \in Nat /\ (g.alone => Collected(g))
      /\ pool \in [Pkgs -> Object \cup {Absent}] /\ IsFiniteSet(DOMAIN files)
  BY <1>1, RunnerFacts
<1>3. g.phase = "read" /\ g.plan = << >> /\ g.todo # {} /\ r \in Active
  BY <1>1 DEF Read, Active
<1>4. PICK p : p = Next1(r) OBVIOUS
<1>5. p \in g.todo /\ p \in Pkgs
  BY <1>1, <1>2, <1>3, <1>4, NextLeft DEF GenRecord
<1>6. CASE ReadPackage(p) = {}
  <2>1. Goes(r, Idle) /\ UNCHANGED <<eco, signed, pool, runs, files>>
    BY <1>4, <1>6 DEF Read, Fails
  <2> QED BY <1>2, <2>1, Ends
<1>7. CASE ReadPackage(p) # {}
  <2>1. PICK o : o = pool[p] OBVIOUS
  <2>2. o \in Object /\ o # Absent /\ o.rev \in Revs /\ o.own \in BOOLEAN /\ ReadPackage(p) = {<<p, o.rev>>}
    BY <1>5, <1>7, <2>1, ReadGives DEF GenInv
  <2>3. PICK pl : pl = IF eco = "nix" THEN Nix!resignNarinfo(p, o) ELSE << >> OBVIOUS
  <2>4. /\ pl \in Seq(Range(pl)) /\ \A s \in Range(pl) : eco = "nix" /\ s = Resign(p, o.rev)
        /\ eco = "nix" => o.own \/ Resign(p, o.rev) \in Range(pl)
    <3>1. pl = << >> \/ (pl = << Resign(p, o.rev) >> /\ eco = "nix")
      BY <2>3 DEF Nix!resignNarinfo, Resign, Nix!Resign
    <3>2. eco = "nix" /\ ~o.own => pl = << Resign(p, o.rev) >>
      BY <2>3 DEF Nix!resignNarinfo, Resign, Nix!Resign
    <3>3. PICK s : s = Resign(p, o.rev) OBVIOUS
    <3>4. Range(<<s>>) = {s} /\ <<s>> \in Seq(Range(<<s>>)) /\ Range(<< >>) = {} /\ << >> \in Seq(Range(<< >>))
      BY RangeOfPair
    <3>5. pl = << >> \/ (pl = <<s>> /\ eco = "nix") BY <3>1, <3>3
    <3>6. eco = "nix" /\ ~o.own => pl = <<s>> BY <3>2, <3>3
    <3>7. pl \in Seq(Range(pl)) /\ Range(pl) = IF pl = << >> THEN {} ELSE {s} BY <3>4, <3>5
    <3>8. eco = "nix" /\ ~o.own => s \in Range(pl) BY <3>4, <3>6
    <3> QED BY <2>2, <3>3, <3>5, <3>7, <3>8
  <2>5. PICK h : h = [g EXCEPT !.todo = @ \ {p}, !.got = @ \cup {<<p, o.rev>>}, !.plan = pl]
    OBVIOUS
  <2>6. Goes(r, h) /\ UNCHANGED <<eco, signed, pool, files, runs>>
    <3>1. /\ Goes(r, [run[r] EXCEPT !.todo = @ \ {p}, !.got = @ \cup ReadPackage(p),
                                     !.plan = IF eco = "nix" THEN Nix!resignNarinfo(p, pool[p]) ELSE << >>])
          /\ UNCHANGED <<eco, signed, pool, files, runs>>
      BY <1>4, <1>7 DEF Read
    <3>2. [run[r] EXCEPT !.todo = @ \ {p}, !.got = @ \cup ReadPackage(p),
                         !.plan = IF eco = "nix" THEN Nix!resignNarinfo(p, pool[p]) ELSE << >>] = h
      <4>1. (IF eco = "nix" THEN Nix!resignNarinfo(p, pool[p]) ELSE << >>) = pl BY <2>1, <2>3
      <4> QED BY <1>1, <2>2, <2>5, <4>1
    <3>3. run' = [run EXCEPT ![r] = h] BY <3>1, <3>2, Zenon DEF Goes
    <3>4. UNCHANGED <<eco, signed, pool, files, runs>> BY <1>4, <1>7 DEF Read
    <3> QED BY <3>3, <3>4 DEF Goes
  <2>7. /\ h \in GenRecord(Range(h.plan)) /\ h.phase = "read" /\ h.todo = g.todo \ {p} /\ h.got = g.got \cup {<<p, o.rev>>}
        /\ h.plan = pl /\ h.alone = g.alone /\ h.touched = g.touched
    <3>1. PICK R : R = Range(g.plan) OBVIOUS
    <3>2. g \in GenRecord(R) BY <1>2, <3>1
    <3>3. PICK td \in SUBSET Pkgs : td = g.todo \ {p} BY <3>2 DEF GenRecord
    <3>4. PICK gt \in SUBSET (Pkgs \X Revs) : gt = g.got \cup {<<p, o.rev>>}
      <4>1. g.got \in SUBSET (Pkgs \X Revs) BY <3>2 DEF GenRecord
      <4>2. <<p, o.rev>> \in Pkgs \X Revs BY <1>5, <2>2
      <4>3. g.got \cup {<<p, o.rev>>} \in SUBSET (Pkgs \X Revs) BY ONLY <4>1, <4>2
      <4> QED BY ONLY <4>3
    <3>5. h = [g EXCEPT !.todo = td, !.got = gt, !.plan = pl] BY <2>5, <3>3, <3>4
    <3>6. PICK Q : Q = Range(pl) OBVIOUS
    <3>7. pl \in Seq(Q) BY <2>4, <3>6
    <3>8. /\ h \in GenRecord(Q) /\ h.phase = g.phase /\ h.todo = td /\ h.got = gt
          /\ h.plan = pl /\ h.alone = g.alone /\ h.touched = g.touched
      BY ONLY <3>2, <3>5, <3>7 DEF GenRecord
    <3> QED BY <1>3, <3>3, <3>4, <3>6, <3>8
  <2>8. Planned(h)
    <3>1. (\A x, y \in g.got : x[1] = y[1] => x = y) /\ (\A x \in g.got : x[1] \notin g.todo)
      BY <1>2 DEF Planned
    <3>2. \A x, y \in h.got : x[1] = y[1] => x = y BY <1>5, <2>7, <3>1
    <3>3. \A x \in h.got : x[1] \notin h.todo BY <2>7, <3>1
    <3>4. \A s \in Range(h.plan) : eco = "nix" /\ \E x \in h.got : s = Resign(x[1], x[2])
      <4>1. PICK x \in h.got : x = <<p, o.rev>> BY <2>7
      <4> QED BY <2>4, <2>7, <4>1
    <3> QED BY <2>7, <3>2, <3>3, <3>4 DEF Planned
  <2>9. Written(h)' BY <2>7 DEF Written
  <2>10. ASSUME h.alone PROVE Collected(h)'
    <3>1. Collected(g) /\ Range(g.plan) = {} BY <1>2, <1>3, <2>7, <2>10, RangeOfPair
    <3>2. \A q \in Stored \ h.touched : q \in h.todo \/ <<q, pool[q].rev>> \in h.got
      BY <1>3, <2>1, <2>7, <3>1 DEF Collected
    <3>3. \A x \in h.got : x[1] \notin h.touched =>
              pool[x[1]].rev = x[2] /\ (eco = "nix" => pool[x[1]].own \/ Resign(x[1], x[2]) \in Range(h.plan))
      <4> SUFFICES ASSUME NEW x \in h.got, x[1] \notin h.touched
                   PROVE  pool[x[1]].rev = x[2] /\ (eco = "nix" => pool[x[1]].own \/ Resign(x[1], x[2]) \in Range(h.plan))
        OBVIOUS
      <4>1. CASE x \in g.got BY <1>3, <2>7, <3>1, <4>1 DEF Collected
      <4>2. CASE x = <<p, o.rev>> BY <2>1, <2>4, <2>7, <4>2
      <4> QED BY <2>7, <4>1, <4>2
    <3> QED BY <2>6, <3>2, <3>3 DEF Collected, Stored
  <2> QED BY <1>1, <1>2, <1>3, <2>6, <2>7, <2>8, <2>9, <2>10, OneMoves
<1> QED BY <1>6, <1>7

LEMMA BuildKeeps == ASSUME GenInv, NEW r \in Runners, Build(r) PROVE GenInv'
<1>1. PICK g : g = run[r] OBVIOUS
<1>2. /\ g \in GenRecord(Range(g.plan)) /\ Planned(g) /\ runs \in Nat /\ (g.alone => Collected(g))
      /\ pool \in [Pkgs -> Object \cup {Absent}] /\ IsFiniteSet(DOMAIN files)
      /\ SoundPlan(g.got, Plan(g.got, g.stamp))
  BY <1>1, RunnerFacts
<1>3. g.phase = "read" /\ g.plan = << >> /\ g.todo = {} /\ r \in Active
  BY <1>1 DEF Build, Active
<1>4. PICK pl : pl = Plan(g.got, g.stamp) OBVIOUS
<1>5. PICK h : h = [g EXCEPT !.phase = "write", !.plan = pl] OBVIOUS
<1>6. Goes(r, h) /\ UNCHANGED <<eco, signed, pool, files, runs>>
  BY <1>1, <1>4, <1>5 DEF Build
<1>7. pl \in Seq(Range(pl)) BY <1>2, <1>4 DEF SoundPlan
<1>8. /\ h \in GenRecord(Range(h.plan)) /\ h.phase = "write" /\ h.todo = {} /\ h.got = g.got /\ h.plan = pl
      /\ h.alone = g.alone /\ h.touched = g.touched /\ h.stamp = g.stamp
  BY <1>2, <1>3, <1>5, <1>7 DEF GenRecord
<1>9. Planned(h)
  <2>1. (\A x, y \in g.got : x[1] = y[1] => x = y) BY <1>2 DEF Planned
  <2> QED BY <1>4, <1>8, <2>1 DEF Planned
<1>10. Written(h)'
  BY <1>4, <1>6, <1>8, PlanSame DEF Written
<1>11. ASSUME h.alone PROVE Collected(h)'
  <2>1. Collected(g) /\ Range(g.plan) = {} BY <1>2, <1>3, <1>8, <1>11, RangeOfPair
  <2> QED BY <1>3, <1>6, <1>8, <2>1 DEF Collected, Stored
<1> QED BY <1>1, <1>2, <1>3, <1>6, <1>8, <1>9, <1>10, <1>11, OneMoves

LEMMA FinishKeeps == ASSUME GenInv, NEW r \in Runners, Finish(r) PROVE GenInv'
<1>1. PICK g : g = run[r] OBVIOUS
<1>2. /\ g \in GenRecord(Range(g.plan)) /\ Planned(g) /\ runs \in Nat /\ (g.alone => Collected(g) /\ Written(g))
      /\ pool \in [Pkgs -> Object \cup {Absent}] /\ IsFiniteSet(DOMAIN files)
  BY <1>1, RunnerFacts
<1>3. g.phase = "write" /\ g.plan = << >> /\ r \in Active
  BY <1>1 DEF Finish, Active
<1>4. PICK h : h = [g EXCEPT !.phase = "done"] OBVIOUS
<1>5. Goes(r, h) /\ UNCHANGED <<eco, signed, pool, files, runs>>
  BY <1>1, <1>4 DEF Finish
<1>6. /\ h \in GenRecord(Range(h.plan)) /\ h.phase = "done" /\ h.todo = g.todo /\ h.got = g.got /\ h.plan = g.plan
      /\ h.alone = g.alone /\ h.touched = g.touched /\ h.stamp = g.stamp
  BY <1>2, <1>3, <1>4 DEF GenRecord
<1>7. Planned(h) BY <1>2, <1>3, <1>6 DEF Planned
<1>8. h.alone => Written(h)' BY <1>2, <1>3, <1>5, <1>6, PlanSame DEF Written, Holds
<1>9. h.alone => Collected(h)' BY <1>2, <1>3, <1>5, <1>6 DEF Collected, Stored
<1> QED BY <1>1, <1>2, <1>3, <1>5, <1>6, <1>7, <1>8, <1>9, OneMoves

\* The collection of old copies deletes none of the copies that are kept.
LEMMA CollectSteps ==
    ASSUME IsFiniteSet(DOMAIN files), NEW v
    PROVE  /\ Apt!gcByHash(files, v) \in Seq(Range(Apt!gcByHash(files, v)))
           /\ \A s \in Range(Apt!gcByHash(files, v)) :
                 /\ s = DeleteFile(s.key) /\ s.key \in DOMAIN files /\ s.key[1] = "by-hash"
                 /\ s.key \notin Apt!readRetainedHashes(files, v)
<1> DEFINE stale == {k \in DOMAIN files : k[1] = "by-hash"} \ Apt!readRetainedHashes(files, v)
           q == Apt!gcByHash(files, v)
           n == Cardinality(stale)
<1>1. IsFiniteSet(stale)
  <2>1. stale \in SUBSET DOMAIN files OBVIOUS
  <2> QED BY <2>1, FS_Subset
<1>2. q = [i \in 1 .. n |-> DeleteFile(SetToSeq(stale)[i])]
  <2>1. q = [i \in 1 .. Apt!Cardinality(stale) |-> Apt!DeleteFile(Apt!SetToSeq(stale)[i])] BY DEF Apt!gcByHash
  <2>2. Apt!Cardinality(stale) = n /\ Apt!SetToSeq(stale) = SetToSeq(stale) BY SameEnumeration
  <2> HIDE DEF stale, q, n
  <2> QED BY <2>1, <2>2 DEF DeleteFile, Apt!DeleteFile
<1>3. n \in Nat /\ \A i \in 1 .. n : SetToSeq(stale)[i] \in stale
  BY <1>1, SetAsSeq
<1>4. \A x \in stale : x \in DOMAIN files /\ x[1] = "by-hash" /\ x \notin Apt!readRetainedHashes(files, v)
  OBVIOUS
<1> HIDE DEF q, n, stale
<1>5. DOMAIN q = 1 .. n /\ \A i \in 1 .. n : q[i] = DeleteFile(q[i].key) /\ q[i].key \in stale
  BY <1>2, <1>3 DEF DeleteFile
<1>6. q \in Seq(Range(q))
  <2>1. q = [i \in 1 .. n |-> q[i]] BY <1>2, <1>5
  <2> QED BY <1>3, <2>1, OwnRange
<1>7. \A s \in Range(q) : s = DeleteFile(s.key) /\ s.key \in stale
  BY <1>5 DEF Range
<1> QED BY <1>4, <1>6, <1>7 DEF q

\* A step of the writing phase comes from the plan or deletes an old copy.
LEMMA WriteStep ==
    ASSUME GenInv, NEW r \in Runners, NEW g, g = run[r], g.plan # << >>, NEW s, s = Head(g.plan)
    PROVE  /\ s \in Range(g.plan) /\ g.phase \in {"read", "write"} /\ r \in Active
           /\ g.phase = "read" => eco = "nix" /\ \E x \in g.got : s = Resign(x[1], x[2])
           /\ g.phase = "write" =>
                 /\ eco # "nix"
                 /\ \/ s \in Range(Plan(g.got, g.stamp)) /\ s = WriteFile(s.key, s.val) /\ s.op = "put"
                    \/ s \in Range(Plan(g.got, g.stamp)) /\ eco = "apt" /\ s = CollectOld(Apt!appendPackagesEntry(g.got)) /\ s.op = "gc"
                    \/ Dooms(g, s) /\ s.op = "del"
<1>1. /\ g \in GenRecord(Range(g.plan)) /\ Planned(g)
      /\ SoundPlan(g.got, Plan(g.got, g.stamp)) /\ (eco = "nix" => Plan(g.got, g.stamp) = << >>)
  BY RunnerFacts
<1>2. g.plan \in Seq(Range(g.plan)) BY <1>1 DEF GenRecord
<1>3. s \in Range(g.plan) BY <1>2, HeadAndTail
<1>4. g.phase \in {"read", "write"} /\ r \in Active
  <2>1. g.phase \in {"idle", "list", "read", "write", "done"} BY <1>1 DEF GenRecord
  <2>2. g.phase \in {"read", "write"} BY <1>1, <2>1 DEF Planned
  <2> QED BY <2>2 DEF Active
<1>5. g.phase = "read" => eco = "nix" /\ \E x \in g.got : s = Resign(x[1], x[2])
  BY <1>1, <1>3 DEF Planned
<1>6. ASSUME g.phase = "write"
      PROVE  /\ eco # "nix"
             /\ \/ s \in Range(Plan(g.got, g.stamp)) /\ s = WriteFile(s.key, s.val) /\ s.op = "put"
                \/ s \in Range(Plan(g.got, g.stamp)) /\ eco = "apt" /\ s = CollectOld(Apt!appendPackagesEntry(g.got)) /\ s.op = "gc"
                \/ Dooms(g, s) /\ s.op = "del"
  <2>1. s \in Range(Plan(g.got, g.stamp)) \/ Dooms(g, s) BY <1>1, <1>3, <1>6 DEF Planned
  <2>2. eco # "nix"
    <3>1. Range(<< >>) = {} BY RangeOfPair
    <3> QED BY <1>1, <2>1, <3>1 DEF Dooms
  <2>3. ASSUME NEW k, NEW v PROVE WriteFile(k, v).op = "put" /\ CollectOld(v).op = "gc" /\ DeleteFile(k).op = "del"
    BY DEF WriteFile, CollectOld, DeleteFile
  <2>4. CASE Dooms(g, s)
    <3>1. s = DeleteFile(s.key) BY <2>4 DEF Dooms
    <3> QED BY <2>2, <2>3, <2>4, <3>1
  <2>5. CASE s \in Range(Plan(g.got, g.stamp))
    <3>1. s = WriteFile(s.key, s.val) \/ (eco = "apt" /\ s = CollectOld(Apt!appendPackagesEntry(g.got)))
      BY <1>1, <2>5 DEF SoundPlan
    <3> QED BY <2>2, <2>3, <2>5, <3>1
  <2> QED BY <2>1, <2>4, <2>5
<1> QED BY <1>3, <1>4, <1>5, <1>6

LEMMA WriteKeeps == ASSUME GenInv, NEW r \in Runners, writeAtomic(r) PROVE GenInv'
<1>1. PICK g : g = run[r] OBVIOUS
<1>2. /\ g \in GenRecord(Range(g.plan)) /\ Planned(g) /\ Collection(g.got) /\ runs \in Nat /\ (g.alone => Collected(g) /\ Written(g))
      /\ pool \in [Pkgs -> Object \cup {Absent}] /\ IsFiniteSet(DOMAIN files)
      /\ SoundPlan(g.got, Plan(g.got, g.stamp))
  BY <1>1, RunnerFacts
<1>3. PICK s : s = Head(g.plan) OBVIOUS
<1>4. g.plan # << >> BY <1>1 DEF writeAtomic
<1>5. PICK more : more = IF s.op = "gc" THEN Apt!gcByHash(files, s.val) ELSE << >> OBVIOUS
<1>6. PICK tl : tl = Tail(g.plan) OBVIOUS
<1>7. PICK h : h = [g EXCEPT !.plan = more \o tl] OBVIOUS
<1>8. Effect(s) /\ Goes(r, h) /\ UNCHANGED <<eco, signed, runs>>
  BY <1>1, <1>3, <1>5, <1>6, <1>7 DEF writeAtomic
<1>9. /\ s \in Range(g.plan) /\ g.phase \in {"read", "write"} /\ r \in Active
      /\ g.phase = "read" => eco = "nix" /\ \E x \in g.got : s = Resign(x[1], x[2])
      /\ g.phase = "write" =>
            /\ eco # "nix"
            /\ \/ s \in Range(Plan(g.got, g.stamp)) /\ s = WriteFile(s.key, s.val) /\ s.op = "put"
               \/ s \in Range(Plan(g.got, g.stamp)) /\ eco = "apt" /\ s = CollectOld(Apt!appendPackagesEntry(g.got)) /\ s.op = "gc"
               \/ Dooms(g, s) /\ s.op = "del"
  BY <1>1, <1>3, <1>4, WriteStep
<1>10. tl \in Seq(Range(g.plan)) /\ Range(g.plan) = Range(tl) \cup {s}
  <2>1. g.plan \in Seq(Range(g.plan)) BY <1>2 DEF GenRecord
  <2> QED BY <1>3, <1>4, <1>6, <2>1, HeadAndTail
<1>11. more \in Seq(Range(more)) /\ (s.op # "gc" => Range(more) = {})
  BY <1>2, <1>5, CollectSteps, RangeOfPair
<1>12. more \o tl \in Seq(Range(more \o tl)) /\ Range(more \o tl) = Range(more) \cup Range(tl)
  BY <1>10, <1>11, RangeConcat
<1>13. /\ h \in GenRecord(Range(h.plan)) /\ h.plan = more \o tl /\ h.phase = g.phase /\ h.got = g.got /\ h.todo = g.todo
       /\ h.stamp = g.stamp /\ h.touched = g.touched /\ h.alone = g.alone
  <2>1. PICK pl : pl = more \o tl OBVIOUS
  <2>2. PICK R : R = Range(pl) OBVIOUS
  <2>3. PICK Q : Q = Range(g.plan) OBVIOUS
  <2>4. g \in GenRecord(Q) /\ pl \in Seq(R) BY <1>2, <1>12, <2>1, <2>2, <2>3
  <2>5. h = [g EXCEPT !.plan = pl] BY <1>7, <2>1
  <2>6. /\ h \in GenRecord(R) /\ h.plan = pl /\ h.phase = g.phase /\ h.got = g.got /\ h.todo = g.todo
        /\ h.stamp = g.stamp /\ h.touched = g.touched /\ h.alone = g.alone
    BY ONLY <2>4, <2>5 DEF GenRecord
  <2> QED BY <2>1, <2>2, <2>6
<1>14. Range(h.plan) = Range(more) \cup Range(tl) BY <1>12, <1>13
<1>15. CASE g.phase = "read"
  <2>1. eco = "nix" BY <1>9, <1>15
  <2>2. PICK x \in g.got : s = Resign(x[1], x[2]) BY <1>9, <1>15
  <2>3. x[1] \in Pkgs /\ x[2] \in Revs BY <1>2, <2>2 DEF Collection
  <2>4. s.op = "sign" /\ s.pkg = x[1] /\ s.rev = x[2] BY <2>2 DEF Resign
  <2>5. files' = files /\ pool' = [pool EXCEPT ![x[1]] = [rev |-> x[2], own |-> TRUE]]
    BY <1>8, <2>4 DEF Effect
  <2>6. pool' \in [Pkgs -> Object \cup {Absent}] BY <1>2, <2>3, <2>5 DEF Object
  <2>7. Range(h.plan) = Range(tl) BY <1>11, <1>14, <2>4
  <2>8. Planned(h)
    <3>1. \A t \in Range(h.plan) : t \in Range(g.plan) BY <1>10, <2>7
    <3> QED BY <1>2, <1>13, <1>15, <3>1 DEF Planned
  <2>9. Written(h)' BY <1>13, <1>15 DEF Written
  <2>10. ASSUME h.alone PROVE Collected(h)'
    <3>1. Collected(g) BY <1>2, <1>13, <2>10
    <3>2. \A q \in Pkgs : pool'[q] = IF q = x[1] THEN [rev |-> x[2], own |-> TRUE] ELSE pool[q]
      BY <1>2, <2>3, <2>5
    <3>3. x = <<x[1], x[2]>> BY <1>2, <2>2 DEF Collection
    <3>4. \A q \in Stored' \ h.touched : q \in h.todo \/ <<q, pool'[q].rev>> \in h.got
      <4> SUFFICES ASSUME NEW q \in Stored' \ h.touched PROVE q \in h.todo \/ <<q, pool'[q].rev>> \in h.got OBVIOUS
      <4>1. CASE q = x[1] BY <1>13, <2>2, <3>2, <3>3, <4>1 DEF Stored
      <4>2. CASE q # x[1] BY <1>13, <1>15, <3>1, <3>2, <4>2 DEF Stored, Collected
      <4> QED BY <4>1, <4>2
    <3>5. \A y \in h.got : y[1] \notin h.touched =>
              pool'[y[1]].rev = y[2] /\ (eco' = "nix" => pool'[y[1]].own \/ Resign(y[1], y[2]) \in Range(h.plan))
      <4> SUFFICES ASSUME NEW y \in g.got, y[1] \notin g.touched
                   PROVE  pool'[y[1]].rev = y[2] /\ (pool'[y[1]].own \/ Resign(y[1], y[2]) \in Range(tl))
        BY <1>13, <2>7
      <4>1. y[1] \in Pkgs BY <1>2 DEF Collection
      <4>2. CASE y[1] = x[1]
        <5>1. y = x BY <1>2, <2>2, <4>2 DEF Collection
        <5> QED BY <3>2, <4>1, <4>2, <5>1
      <4>3. CASE y[1] # x[1]
        <5>1. pool'[y[1]] = pool[y[1]] BY <3>2, <4>1, <4>3
        <5>2. pool[y[1]].rev = y[2] /\ (pool[y[1]].own \/ Resign(y[1], y[2]) \in Range(g.plan))
          BY <1>15, <2>1, <3>1 DEF Collected
        <5>3. Resign(y[1], y[2]) # s BY <2>2, <4>3 DEF Resign
        <5> QED BY <1>10, <5>1, <5>2, <5>3
      <4> QED BY <4>2, <4>3
    <3> QED BY <3>4, <3>5 DEF Collected
  <2>11. IsFiniteSet(DOMAIN files') BY <1>2, <2>5
  <2> QED BY <1>1, <1>2, <1>8, <1>9, <1>13, <1>15, <2>6, <2>8, <2>9, <2>10, <2>11, OneMoves
<1>16. CASE g.phase = "write"
  <2>1. pool' = pool /\ pool' \in [Pkgs -> Object \cup {Absent}] /\ eco # "nix"
    <3>1. s.op # "sign" /\ eco # "nix" BY <1>9, <1>16
    <3> QED BY <1>2, <1>8, <3>1 DEF Effect
  <2>2. IsFiniteSet(DOMAIN files')
    <3>1. CASE s.op = "put"
      <4>1. DOMAIN files' = DOMAIN files \cup {s.key} BY <1>8, <3>1 DEF Effect, Put
      <4> QED BY <1>2, <4>1, FS_AddElement
    <3>2. CASE s.op = "del"
      <4>1. DOMAIN files' = DOMAIN files \ {s.key} BY <1>8, <3>2 DEF Effect
      <4> QED BY <1>2, <4>1, FS_RemoveElement
    <3>3. CASE s.op \notin {"put", "del"}
      <4>1. files' = files BY <1>8, <3>3 DEF Effect
      <4> QED BY <1>2, <4>1
    <3> QED BY <3>1, <3>2, <3>3
  <2>3. \A t \in Range(h.plan) : t \in Range(g.plan) \/ Dooms(g, t)
    <3>1. CASE s.op = "gc"
      <4>1. eco = "apt" /\ s = CollectOld(Apt!appendPackagesEntry(g.got)) BY <1>9, <1>16, <3>1
      <4>2. s.val = Apt!appendPackagesEntry(g.got) BY <4>1 DEF CollectOld
      <4>3. \A t \in Range(more) : t = DeleteFile(t.key) /\ t.key[1] = "by-hash" /\ t.key \notin Apt!readRetainedHashes(files, s.val)
        BY <1>2, <1>5, <3>1, CollectSteps
      <4>4. \A t \in Range(more) : Dooms(g, t)
        BY <4>1, <4>2, <4>3 DEF Dooms, Apt!readRetainedHashes
      <4> QED BY <1>10, <1>14, <4>4
    <3>2. CASE s.op # "gc" BY <1>10, <1>11, <1>14, <3>2
    <3> QED BY <3>1, <3>2
  <2>4. Planned(h)
    <3>1. \A t \in Range(h.plan) : t \in Range(Plan(g.got, g.stamp)) \/ Dooms(g, t)
      BY <1>2, <1>16, <2>3 DEF Planned
    <3>2. \A t : Dooms(h, t) <=> Dooms(g, t) BY <1>13 DEF Dooms
    <3> QED BY <1>2, <1>13, <1>16, <3>1, <3>2 DEF Planned
  <2>5. h.alone => Collected(h)'
    BY <1>2, <1>8, <1>13, <1>16, <2>1 DEF Collected, Stored
  <2>6. ASSUME h.alone PROVE Written(h)'
    <3>1. PICK P : P = Plan(g.got, g.stamp) OBVIOUS
    <3>2. Plan(h.got, h.stamp)' = P
      <4>1. Plan(h.got, h.stamp)' = Plan(h.got, h.stamp) BY <1>8, PlanSame
      <4> QED BY <1>13, <3>1, <4>1
    <3>3. ASSUME NEW t \in Range(P), t.op = "put" PROVE t \in Range(h.plan) \/ Holds(t)'
      <4>1. t \in Range(g.plan) \/ Holds(t) BY <1>2, <1>13, <1>16, <2>6, <3>1, <3>3 DEF Written
      <4>2. CASE s.op = "put"
        <5>1. s \in Range(P) BY <1>9, <1>16, <3>1, <4>2
        <5>2. files' = Put(files, s.key, s.val) BY <1>8, <4>2 DEF Effect
        <5>3. CASE t.key = s.key
          <6>1. t = s BY <1>2, <3>1, <3>3, <4>2, <5>1, <5>3 DEF SoundPlan
          <6> QED BY <5>2, <6>1 DEF Holds, Put
        <5>4. CASE t.key # s.key
          <6>1. CASE Holds(t) BY <5>2, <5>4, <6>1 DEF Holds, Put
          <6>2. CASE t \in Range(g.plan) BY <1>10, <1>14, <5>4, <6>2
          <6> QED BY <4>1, <6>1, <6>2
        <5> QED BY <5>3, <5>4
      <4>3. CASE s.op = "del"
        <5>1. Dooms(g, s) BY <1>9, <1>16, <4>3
        <5>2. t.key # s.key BY <1>2, <3>1, <3>3, <5>1 DEF SoundPlan, Dooms
        <5>3. files' = [k \in DOMAIN files \ {s.key} |-> files[k]] BY <1>8, <4>3 DEF Effect
        <5>4. CASE Holds(t) BY <5>2, <5>3, <5>4 DEF Holds
        <5>5. CASE t \in Range(g.plan) BY <1>10, <1>14, <3>3, <4>3, <5>5
        <5> QED BY <4>1, <5>4, <5>5
      <4>4. CASE s.op = "gc"
        <5>1. files' = files BY <1>8, <4>4 DEF Effect
        <5>2. CASE Holds(t) BY <5>1, <5>2 DEF Holds
        <5>3. CASE t \in Range(g.plan) BY <1>10, <1>14, <3>3, <4>4, <5>3
        <5> QED BY <4>1, <5>2, <5>3
      <4> QED BY <1>9, <1>16, <4>2, <4>3, <4>4
    <3> QED BY <3>2, <3>3 DEF Written
  <2> QED BY <1>1, <1>2, <1>8, <1>9, <1>13, <1>16, <2>1, <2>2, <2>4, <2>5, <2>6, OneMoves
<1> QED BY <1>9, <1>15, <1>16

LEMMA GenStepKeeps == ASSUME GenInv, NEW r \in Runners, GenStep(r) PROVE GenInv'
<1>1. CASE Leave(r)
  <2>1. Goes(r, Idle) /\ UNCHANGED <<eco, signed, pool, runs, files>> BY <1>1 DEF Leave
  <2>2. IsFiniteSet(DOMAIN files') BY <2>1 DEF GenInv, GenTypeOK
  <2> QED BY <2>1, <2>2, Ends
<1> QED BY <1>1, ListKeeps, ReadKeeps, BuildKeeps, WriteKeeps, FinishKeeps DEF GenStep

LEMMA FailureKeeps == ASSUME GenInv, NEW r \in Runners, Aborts(r) \/ CommitFailsLate(r) PROVE GenInv'
<1>1. r \in Active BY DEF Aborts, CommitFailsLate, Active
<1>2. Goes(r, Idle) /\ UNCHANGED <<eco, signed, pool, runs>> BY DEF Aborts, CommitFailsLate, Fails
<1>3. IsFiniteSet(DOMAIN files')
  <2>0. IsFiniteSet(DOMAIN files) BY DEF GenInv, GenTypeOK
  <2>1. CASE files' = files BY <2>0, <2>1
  <2>2. CASE files' = Put(files, Head(run[r].plan).key, Head(run[r].plan).val)
    <3>1. PICK k : k = Head(run[r].plan).key OBVIOUS
    <3>2. DOMAIN files' = DOMAIN files \cup {k} BY <2>2, <3>1 DEF Put
    <3> QED BY <2>0, <3>2, FS_AddElement
  <2> QED BY <2>1, <2>2 DEF Aborts, CommitFailsLate
<1> QED BY <1>1, <1>2, <1>3, Ends

\* A repository starts with what a generation would have written.
LEMMA StartsSound ==
    ASSUME NEW pkgs \in SUBSET Pkgs, StartWith(pkgs), pkgs = {} \/ 1 \in Revs
    PROVE  GenInv
<1>1. eco \in {"apt", "rpm-md", "pacman", "apk", "xbps", "nix"} /\ signed \in BOOLEAN /\ runs \in Nat
  BY IndexAssumption DEF StartWith
<1>2. pool \in [Pkgs -> Object \cup {Absent}]
  BY DEF StartWith, Object
<1>3. /\ run = [r \in Runners |-> Idle] /\ Idle \in GenRecord(Range(Idle.plan)) /\ Idle.phase = "idle" /\ Planned(Idle)
      /\ Collected(Idle) /\ Written(Idle)
  BY IdleFits DEF StartWith, Idle, Collected, Written
<1>4. IsFiniteSet(DOMAIN files)
  <2>1. CASE pkgs = {}
    <3>1. DOMAIN files = {} BY <2>1 DEF StartWith, NoFiles
    <3> QED BY <3>1, FS_EmptySet
  <2>2. CASE pkgs # {}
    <3> DEFINE got == {<<p, 1>> : p \in pkgs}  P == Plan(got, 0)  puts == {s \in Range(P) : s.op = "put"}
               keys == {s.key : s \in puts}
    <3>1. Collection(got) BY <2>2 DEF Collection
    <3>2. P \in Seq(Range(P))
      <4> HIDE DEF got
      <4> QED BY <1>1, <3>1, PlansSound DEF SoundPlan
    <3>3. files = AllPut(Range(P)) BY <2>2 DEF StartWith
    <3> HIDE DEF P
    <3>4. DOMAIN files = keys BY <3>3 DEF AllPut
    <3>5. IsFiniteSet(Range(P))
      <4>1. P \in Surjection(1 .. Len(P), Range(P)) BY <3>2 DEF Surjection, Range
      <4>2. IsFiniteSet(1 .. Len(P)) BY <3>2, FS_Interval
      <4> QED BY <4>1, <4>2, FS_Surjection
    <3>6. IsFiniteSet(puts) BY <3>5, FS_Subset
    <3>7. IsFiniteSet(keys)
      <4>1. [s \in puts |-> s.key] \in Surjection(puts, keys) BY DEF Surjection
      <4> QED BY <3>6, <4>1, FS_Surjection
    <3> QED BY <3>4, <3>7
  <2> QED BY <2>1, <2>2
<1>5. GenTypeOK BY <1>1, <1>2, <1>3, <1>4 DEF GenTypeOK
<1>6. Solo BY <1>3 DEF Solo
<1> QED BY <1>3, <1>5, <1>6 DEF GenInv

LEMMA GenNextKeeps == ASSUME GenInv, [IndexNext]_indexVars PROVE GenInv'
<1>1. ASSUME NEW p \in Pkgs, DeletePkg(p) PROVE GenInv'
  <2>1. Absent \in Object \cup {Absent} /\ pool' = [pool EXCEPT ![p] = Absent] /\ run' = Touch(p) /\ UNCHANGED <<eco, signed, files, runs>>
    BY <1>1 DEF DeletePkg
  <2>2. runs' \in Nat BY <2>1 DEF GenInv, GenTypeOK
  <2> QED BY <2>1, <2>2, EditKeeps
<1>2. ASSUME NEW p \in Pkgs, NEW c \in Revs, Upload(p, c) PROVE GenInv'
  <2>1. PICK o \in Object : o = [rev |-> c, own |-> FALSE] BY DEF Object
  <2>2. pool' = [pool EXCEPT ![p] = o] /\ run' = Touch(p) /\ UNCHANGED <<eco, signed, files, runs>>
    BY <1>2, <2>1 DEF Upload
  <2>3. runs' \in Nat BY <2>2 DEF GenInv, GenTypeOK
  <2> QED BY <2>2, <2>3, EditKeeps
<1>3. ASSUME NEW r \in Runners, Reindex(r) PROVE GenInv'
  <2>1. PICK ph \in {"idle", "list"} : ph = IF eco = "nix" /\ ~signed THEN "idle" ELSE "list" OBVIOUS
  <2>2. /\ runs' = runs + 1 /\ UNCHANGED <<eco, signed, pool, files>>
        /\ run' = [x \in Runners |->
                      IF x = r THEN [Idle EXCEPT !.phase = ph, !.stamp = runs + 1, !.alone = (Active = {})]
                      ELSE IF run[x].phase # "idle" THEN [run[x] EXCEPT !.alone = FALSE] ELSE run[x]]
    BY <1>3, <2>1, Zenon DEF Reindex
  <2> QED BY <2>2, BeginKeeps
<1>4. ASSUME Crash PROVE GenInv'
  BY <1>4, CrashKeeps DEF Crash
<1>5. CASE UNCHANGED indexVars
  <2> USE <1>5 DEF indexVars
  <2>1. GenTypeOK' /\ Solo' BY DEF GenInv, GenTypeOK, Solo, Active
  <2>2. ASSUME NEW x \in Runners
        PROVE  Planned(run[x])' /\ (run[x].alone => Collected(run[x]) /\ Written(run[x]))'
    <3>1. PICK h : h = run[x] OBVIOUS
    <3>2. Planned(h) /\ (h.alone => Collected(h) /\ Written(h)) BY <3>1 DEF GenInv
    <3>3. Planned(h)' BY <3>2, PlanSame
    <3>4. h.alone => Collected(h)' BY <3>2 DEF Collected, Stored
    <3>5. h.alone => Written(h)' BY <3>2, PlanSame DEF Written, Holds
    <3> QED BY <3>1, <3>3, <3>4, <3>5
  <2> QED BY <2>1, <2>2 DEF GenInv
<1> QED BY <1>1, <1>2, <1>3, <1>4, <1>5, GenStepKeeps, FailureKeeps DEF IndexNext

\* What the generations of IndexSpec know, whatever happens.
THEOREM GenInvariance == IndexSpec => []GenInv
<1>1. IndexInit => GenInv
  BY StartsSound DEF IndexInit
<1> QED BY <1>1, GenNextKeeps, PTL DEF IndexSpec

-----------------------------------------------------------------------------
(* A generation that has ended well                                        *)

\* Its records are what is stored, and its files are those of its plan.
LEMMA DoneFacts ==
    ASSUME GenInv, NEW r \in Runners, Done(r), NEW g, g = run[r]
    PROVE  /\ Collection(g.got) /\ signed \in BOOLEAN
           /\ eco \in {"apt", "rpm-md", "pacman", "apk", "xbps", "nix"}
           /\ pool \in [Pkgs -> Object \cup {Absent}]
           /\ \A s \in Range(Plan(g.got, g.stamp)) : s.op = "put" => Holds(s)
           /\ \A p \in Stored \ g.touched : <<p, pool[p].rev>> \in g.got
           /\ \A x \in g.got : x[1] \notin g.touched => pool[x[1]].rev = x[2] /\ (eco = "nix" => pool[x[1]].own)
<1>1. /\ g \in GenRecord(Range(g.plan)) /\ Planned(g) /\ Collection(g.got) /\ Collected(g) /\ Written(g)
      /\ pool \in [Pkgs -> Object \cup {Absent}]
  BY RunnerFacts DEF Done
<1>2. g.phase = "done" /\ g.plan = << >> /\ g.todo = {} /\ Range(<< >>) = {}
  BY <1>1, RangeOfPair DEF Done, Planned
<1>3. \A s \in Range(Plan(g.got, g.stamp)) : s.op = "put" => Holds(s)
  BY <1>1, <1>2 DEF Written
<1>4. \A p \in Stored \ g.touched : <<p, pool[p].rev>> \in g.got
  BY <1>1, <1>2 DEF Collected
<1>5. \A x \in g.got : x[1] \notin g.touched => pool[x[1]].rev = x[2] /\ (eco = "nix" => pool[x[1]].own)
  BY <1>1, <1>2 DEF Collected
<1> QED BY <1>1, <1>3, <1>4, <1>5 DEF GenInv, GenTypeOK

LEMMA PutHolds ==
    ASSUME NEW S, \A s \in S : s.op = "put" => Holds(s), NEW k, NEW v, WriteFile(k, v) \in S
    PROVE  k \in DOMAIN files /\ files[k] = v
<1>1. WriteFile(k, v).op = "put" /\ WriteFile(k, v).key = k /\ WriteFile(k, v).val = v
  BY DEF WriteFile
<1> QED BY <1>1 DEF Holds

\* The indexes of apt.
LEMMA AptDone ==
    ASSUME eco = "apt", signed \in BOOLEAN, NEW got, NEW stamp,
           \A s \in Range(Plan(got, stamp)) : s.op = "put" => Holds(s)
    PROVE  LET v == Apt!appendPackagesEntry(got) IN
           /\ Apt!Packages \in DOMAIN files /\ files[Apt!Packages] = v
           /\ Apt!Release \in DOMAIN files /\ files[Apt!Release] = Apt!buildRelease(v, stamp)
           /\ Apt!Marker \in DOMAIN files /\ files[Apt!Marker] = v
           /\ Apt!Copies(v) \subseteq DOMAIN files
           /\ signed => Apt!InRelease \in DOMAIN files /\ files[Apt!InRelease] = Signature(files[Apt!Release])
           /\ Apt!Verifies(files, signed)
<1> DEFINE v == Apt!appendPackagesEntry(got)  rel == Apt!buildRelease(v, stamp)
           P == Range(Plan(got, stamp))
<1>1. P = {WriteFile(Apt!Packages, v), WriteFile(Apt!PackagesGz, v),
           WriteFile(Apt!ByHash("plain", v), v), WriteFile(Apt!ByHash("gz", v), v),
           CollectOld(v), WriteFile(Apt!Marker, v), WriteFile(Apt!Release, rel)}
          \cup IF signed THEN {WriteFile(Apt!InRelease, Signature(rel)), WriteFile(Apt!ReleaseGpg, Signature(rel))} ELSE {}
  BY AptPlan DEF Plan
<1>2. rel.names = v BY DEF Apt!buildRelease
<1> HIDE DEF v, rel, P
<1>3. /\ {WriteFile(Apt!Packages, v), WriteFile(Apt!PackagesGz, v), WriteFile(Apt!ByHash("plain", v), v),
          WriteFile(Apt!ByHash("gz", v), v), WriteFile(Apt!Marker, v), WriteFile(Apt!Release, rel)} \subseteq P
      /\ signed => {WriteFile(Apt!InRelease, Signature(rel)), WriteFile(Apt!ReleaseGpg, Signature(rel))} \subseteq P
  BY <1>1
<1>4. \A s \in P : s.op = "put" => Holds(s) BY DEF P
<1>5. /\ Apt!Packages \in DOMAIN files /\ files[Apt!Packages] = v
      /\ Apt!PackagesGz \in DOMAIN files /\ files[Apt!PackagesGz] = v
      /\ Apt!ByHash("plain", v) \in DOMAIN files /\ Apt!ByHash("gz", v) \in DOMAIN files
      /\ Apt!Marker \in DOMAIN files /\ files[Apt!Marker] = v
      /\ Apt!Release \in DOMAIN files /\ files[Apt!Release] = rel
  BY <1>3, <1>4, PutHolds
<1>6. signed => /\ Apt!InRelease \in DOMAIN files /\ files[Apt!InRelease] = Signature(rel)
                /\ Apt!ReleaseGpg \in DOMAIN files /\ files[Apt!ReleaseGpg] = Signature(rel)
  BY <1>3, <1>4, PutHolds
<1>7. Apt!Copies(v) \subseteq DOMAIN files BY <1>5 DEF Apt!Copies
<1>8. Apt!Verifies(files, signed)
  BY <1>2, <1>5, <1>6, <1>7 DEF Apt!Verifies, Signature, Apt!Signature
<1> QED BY <1>5, <1>6, <1>7, <1>8 DEF v, rel

LEMMA RpmDone ==
    ASSUME eco = "rpm-md", signed \in BOOLEAN, NEW got, NEW stamp,
           \A s \in Range(Plan(got, stamp)) : s.op = "put" => Holds(s)
    PROVE  /\ Rpm!Primary \in DOMAIN files /\ files[Rpm!Primary] = got
           /\ Rpm!Verifies(files, signed)
<1> DEFINE rel == Rpm!buildRepomd(got, stamp)  P == Range(Plan(got, stamp))
<1>1. P = {WriteFile(Rpm!Primary, got), WriteFile(Rpm!Repomd, rel)}
          \cup IF signed THEN {WriteFile(Rpm!RepomdAsc, Signature(rel))} ELSE {}
  BY RpmPlan DEF Plan
<1>2. rel.names = got BY DEF Rpm!buildRepomd
<1> HIDE DEF rel, P
<1>3. /\ WriteFile(Rpm!Primary, got) \in P /\ WriteFile(Rpm!Repomd, rel) \in P
      /\ signed => WriteFile(Rpm!RepomdAsc, Signature(rel)) \in P
  BY <1>1
<1>4. \A s \in P : s.op = "put" => Holds(s) BY DEF P
<1>5. /\ Rpm!Primary \in DOMAIN files /\ files[Rpm!Primary] = got
      /\ Rpm!Repomd \in DOMAIN files /\ files[Rpm!Repomd] = rel
      /\ signed => Rpm!RepomdAsc \in DOMAIN files /\ files[Rpm!RepomdAsc] = Signature(rel)
  BY <1>3, <1>4, PutHolds
<1> QED BY <1>2, <1>5 DEF Rpm!Verifies, Signature, Rpm!Signature

LEMMA PacmanDone ==
    ASSUME eco = "pacman", signed \in BOOLEAN, NEW got, NEW stamp,
           \A s \in Range(Plan(got, stamp)) : s.op = "put" => Holds(s)
    PROVE  /\ Pacman!Db \in DOMAIN files /\ files[Pacman!Db] = Pacman!dedupeDescs(got)
           /\ Pacman!Verifies(files, signed)
<1> DEFINE v == Pacman!dedupeDescs(got)  P == Range(Plan(got, stamp))
<1>1. P = {WriteFile(Pacman!Db, v)} \cup IF signed THEN {WriteFile(Pacman!DbSig, Signature(v))} ELSE {}
  BY PacmanPlan DEF Plan
<1> HIDE DEF v, P
<1>2. WriteFile(Pacman!Db, v) \in P /\ (signed => WriteFile(Pacman!DbSig, Signature(v)) \in P)
  BY <1>1
<1>3. \A s \in P : s.op = "put" => Holds(s) BY DEF P
<1>4. /\ Pacman!Db \in DOMAIN files /\ files[Pacman!Db] = v
      /\ signed => Pacman!DbSig \in DOMAIN files /\ files[Pacman!DbSig] = Signature(v)
  BY <1>2, <1>3, PutHolds
<1> QED BY <1>4 DEF Pacman!Verifies, Signature, Pacman!Signature, v

LEMMA ApkDone ==
    ASSUME eco = "apk", NEW got, Collection(got), NEW stamp,
           \A s \in Range(Plan(got, stamp)) : s.op = "put" => Holds(s), NEW a \in Arches(Apk!Placed(got))
    PROVE  Apk!Index(files, a) = Named(Apk!Placed(got), a) \cup Named(Apk!Placed(got), "all")
<1> DEFINE v == Apk!buildIndex(got, a, signed)  P == Range(Plan(got, stamp))
<1>1. P = {WriteFile(Apk!ApkIndex(b), Apk!buildIndex(got, b, signed)) : b \in Arches(Apk!Placed(got))}
  BY ApkPlan DEF Plan, Collection
<1>2. WriteFile(Apk!ApkIndex(a), v) \in P BY <1>1
<1>3. v.names = Named(Apk!Placed(got), a) \cup Named(Apk!Placed(got), "all") BY DEF Apk!buildIndex, Named, Apk!Named
<1> HIDE DEF v, P
<1>4. \A s \in P : s.op = "put" => Holds(s) BY DEF P
<1>5. Apk!ApkIndex(a) \in DOMAIN files /\ files[Apk!ApkIndex(a)] = v BY <1>2, <1>4, PutHolds
<1> QED BY <1>3, <1>5 DEF Apk!Index

LEMMA XbpsDone ==
    ASSUME eco = "xbps", signed \in BOOLEAN, NEW got, Collection(got), NEW stamp,
           \A s \in Range(Plan(got, stamp)) : s.op = "put" => Holds(s)
    PROVE  LET recs == Xbps!dedupeRecords(got) IN
           /\ \A a \in Arches(recs) \ {"all"} : Xbps!Index(files, a) = Named(recs, a) \cup Named(recs, "all")
           /\ signed => \A g \in got : /\ Xbps!Sig(g[1]) \in DOMAIN files /\ files[Xbps!Sig(g[1])] = g[2]
                                       /\ Xbps!Sig2(g[1]) \in DOMAIN files /\ files[Xbps!Sig2(g[1])] = g[2]
<1> DEFINE recs == Xbps!dedupeRecords(got)
           V(a) == Xbps!buildRepodata(Xbps!groupByArch(recs, a), signed)
           P == Range(Plan(got, stamp))
           W == Range(Xbps!Signatures(got))
<1>1. P = {WriteFile(Xbps!Repodata(a), V(a)) : a \in Arches(recs) \ {"all"}} \cup IF signed THEN W ELSE {}
  BY XbpsPlan DEF Plan
<1>2. W = {WriteFile(Xbps!Sig2(g[1]), g[2]) : g \in got} \cup {WriteFile(Xbps!Sig(g[1]), g[2]) : g \in got}
  BY XbpsSignatures
<1>3. \A s \in P : s.op = "put" => Holds(s) OBVIOUS
<1>4. \A a : V(a).names = Named(recs, a) \cup Named(recs, "all")
  BY DEF Xbps!buildRepodata, Xbps!groupByArch, Named, Xbps!Named
<1> HIDE DEF recs, V, P, W
<1>5. ASSUME NEW a \in Arches(recs) \ {"all"} PROVE Xbps!Index(files, a) = Named(recs, a) \cup Named(recs, "all")
  <2>1. WriteFile(Xbps!Repodata(a), V(a)) \in P BY <1>1
  <2>2. Xbps!Repodata(a) \in DOMAIN files /\ files[Xbps!Repodata(a)] = V(a) BY <1>3, <2>1, PutHolds
  <2> QED BY <1>4, <2>2 DEF Xbps!Index
<1>6. ASSUME signed, NEW g \in got
      PROVE  /\ Xbps!Sig(g[1]) \in DOMAIN files /\ files[Xbps!Sig(g[1])] = g[2]
             /\ Xbps!Sig2(g[1]) \in DOMAIN files /\ files[Xbps!Sig2(g[1])] = g[2]
  <2>1. WriteFile(Xbps!Sig2(g[1]), g[2]) \in P /\ WriteFile(Xbps!Sig(g[1]), g[2]) \in P BY <1>1, <1>2, <1>6
  <2> QED BY <1>3, <2>1, PutHolds
<1> QED BY <1>5, <1>6 DEF recs

\* Files that no plan writes: an xbps index for packages of no architecture,
\* and an InRelease without a signer.
LEMMA PlanKeys ==
    ASSUME signed \in BOOLEAN, NEW got, Collection(got), NEW stamp, NEW s \in Range(Plan(got, stamp)), s.op = "put"
    PROVE  /\ eco = "xbps" => s.key # Xbps!Repodata("all")
           /\ eco = "apt" /\ ~signed => s.key # Apt!InRelease
<1>1. ASSUME eco = "xbps" PROVE s.key # Xbps!Repodata("all")
  <2> DEFINE recs == Xbps!dedupeRecords(got)
             V(a) == Xbps!buildRepodata(Xbps!groupByArch(recs, a), signed)
             P == Range(Plan(got, stamp))
             W == Range(Xbps!Signatures(got))
  <2>1. P = {WriteFile(Xbps!Repodata(a), V(a)) : a \in Arches(recs) \ {"all"}} \cup IF signed THEN W ELSE {}
    BY <1>1, XbpsPlan DEF Plan
  <2>2. W = {WriteFile(Xbps!Sig2(g[1]), g[2]) : g \in got} \cup {WriteFile(Xbps!Sig(g[1]), g[2]) : g \in got}
    BY XbpsSignatures
  <2>3. s \in P OBVIOUS
  <2> HIDE DEF recs, V, P, W
  <2>4. CASE s \in {WriteFile(Xbps!Repodata(a), V(a)) : a \in Arches(recs) \ {"all"}}
    <3>1. PICK a \in Arches(recs) \ {"all"} : s = WriteFile(Xbps!Repodata(a), V(a)) BY <2>4
    <3>2. s.key = Xbps!Repodata(a) BY <3>1 DEF WriteFile
    <3> QED BY <3>2 DEF Xbps!Repodata
  <2>5. CASE s \in W
    <3>1. PICK g \in got : s.key \in {Xbps!Sig2(g[1]), Xbps!Sig(g[1])} BY <2>2, <2>5 DEF WriteFile
    <3> QED BY <3>1 DEF Xbps!Repodata, Xbps!Sig2, Xbps!Sig
  <2> QED BY <2>1, <2>3, <2>4, <2>5
<1>2. ASSUME eco = "apt", ~signed PROVE s.key # Apt!InRelease
  <2> DEFINE v == Apt!appendPackagesEntry(got)  rel == Apt!buildRelease(v, stamp)
             P == Range(Plan(got, stamp))
  <2>1. P = {WriteFile(Apt!Packages, v), WriteFile(Apt!PackagesGz, v),
             WriteFile(Apt!ByHash("plain", v), v), WriteFile(Apt!ByHash("gz", v), v),
             CollectOld(v), WriteFile(Apt!Marker, v), WriteFile(Apt!Release, rel)}
            \cup IF signed THEN {WriteFile(Apt!InRelease, Signature(rel)), WriteFile(Apt!ReleaseGpg, Signature(rel))} ELSE {}
    BY <1>2, AptPlan DEF Plan
  <2>2. s \in P OBVIOUS
  <2> HIDE DEF v, rel, P
  <2>3. CollectOld(v).op # "put" BY DEF CollectOld
  <2>4. s \in {WriteFile(Apt!Packages, v), WriteFile(Apt!PackagesGz, v), WriteFile(Apt!ByHash("plain", v), v),
               WriteFile(Apt!ByHash("gz", v), v), WriteFile(Apt!Marker, v), WriteFile(Apt!Release, rel)}
    BY <1>2, <2>1, <2>2, <2>3
  <2>5. s.key \in {Apt!Packages, Apt!PackagesGz, Apt!ByHash("plain", v), Apt!ByHash("gz", v), Apt!Marker, Apt!Release}
    BY <2>4 DEF WriteFile
  <2> QED BY <2>5 DEF Apt!Packages, Apt!PackagesGz, Apt!ByHash, Apt!Marker, Apt!Release, Apt!InRelease
<1> QED BY <1>1, <1>2

LEMMA HeadPut ==
    ASSUME GenInv, NEW r \in Runners, run[r].plan # << >>, NEW s, s = Head(run[r].plan), s.op = "put"
    PROVE  run[r].phase = "write" /\ s \in Range(Plan(run[r].got, run[r].stamp)) /\ Collection(run[r].got) /\ signed \in BOOLEAN
<1>1. PICK g : g = run[r] OBVIOUS
<1>2. /\ g.phase \in {"read", "write"}
      /\ g.phase = "read" => \E x \in g.got : s = Resign(x[1], x[2])
      /\ g.phase = "write" => \/ s \in Range(Plan(g.got, g.stamp))
                              \/ Dooms(g, s) /\ s.op = "del"
  BY <1>1, WriteStep
<1>3. g.phase # "read"
  <2>1. \A x : Resign(x[1], x[2]).op = "sign" BY DEF Resign
  <2> QED BY <1>2, <2>1
<1>4. Collection(g.got) /\ signed \in BOOLEAN BY <1>1, RunnerFacts DEF GenInv, GenTypeOK
<1> QED BY <1>1, <1>2, <1>3, <1>4

LEMMA NeverWrittenStep == ASSUME GenInv, NeverWritten, [IndexNext]_indexVars PROVE NeverWritten'
<1>1. ASSUME NEW s, NEW r \in Runners, run[r].plan # << >>, s = Head(run[r].plan), s.op = "put",
             files' = Put(files, s.key, s.val), UNCHANGED <<eco, signed>>
      PROVE  NeverWritten'
  <2>1. (eco = "xbps" => s.key # Xbps!Repodata("all")) /\ (eco = "apt" /\ ~signed => s.key # Apt!InRelease)
    BY <1>1, HeadPut, PlanKeys
  <2>2. DOMAIN files' = DOMAIN files \cup {s.key} BY <1>1 DEF Put
  <2> QED BY <1>1, <2>1, <2>2 DEF NeverWritten
<1>2. ASSUME NEW r \in Runners, writeAtomic(r) PROVE NeverWritten'
  <2>1. PICK s : s = Head(run[r].plan) OBVIOUS
  <2>2. run[r].plan # << >> /\ Effect(s) /\ UNCHANGED <<eco, signed>> BY <1>2, <2>1 DEF writeAtomic
  <2>3. CASE s.op = "put" BY <1>1, <2>1, <2>2, <2>3 DEF Effect
  <2>4. CASE s.op # "put"
    <3>1. DOMAIN files' \subseteq DOMAIN files BY <2>2, <2>4 DEF Effect
    <3> QED BY <2>2, <3>1 DEF NeverWritten
  <2> QED BY <2>3, <2>4
<1>3. ASSUME NEW r \in Runners, CommitFailsLate(r) PROVE NeverWritten'
  <2>1. PICK s : s = Head(run[r].plan) OBVIOUS
  <2>2. run[r].plan # << >> /\ s.op = "put" /\ files' = Put(files, s.key, s.val) /\ UNCHANGED <<eco, signed>>
    BY <1>3, <2>1 DEF CommitFailsLate, Fails
  <2> QED BY <1>1, <2>1, <2>2
<1>4. ASSUME UNCHANGED <<eco, signed, files>> PROVE NeverWritten'
  BY <1>4 DEF NeverWritten
<1>5. ASSUME NEW r \in Runners, Reindex(r) \/ List(r) \/ Read(r) \/ Build(r) \/ Finish(r) \/ Leave(r) \/ Aborts(r)
      PROVE  UNCHANGED <<eco, signed, files>>
  BY <1>5 DEF Reindex, List, Read, Build, Finish, Leave, Aborts, Fails
<1>6. ASSUME NEW p \in Pkgs, DeletePkg(p) \/ \E c \in Revs : Upload(p, c) PROVE UNCHANGED <<eco, signed, files>>
  BY <1>6 DEF DeletePkg, Upload
<1>7. Crash \/ UNCHANGED indexVars => UNCHANGED <<eco, signed, files>>
  BY DEF Crash, indexVars
<1> QED BY <1>2, <1>3, <1>4, <1>5, <1>6, <1>7 DEF IndexNext, GenStep

LEMMA NeverWrittenAlways == IndexSpec => []NeverWritten
<1>1. IndexInit => NeverWritten
  BY DEF IndexInit, StartWith, NoFiles, NeverWritten
<1>2. GenInv /\ NeverWritten /\ [IndexNext]_indexVars => NeverWritten'
  BY NeverWrittenStep
<1> QED BY <1>1, <1>2, GenInvariance, PTL DEF IndexSpec

\* A package that none supersedes is the record of its name.
LEMMA NotSuperseded ==
    ASSUME GenInv, NEW r \in Runners, Done(r), NEW p \in Stored \ run[r].touched,
           ~Superseded(p), \A q \in run[r].touched : Family[q] # Family[p],
           NEW x \in run[r].got, x[1] = p, NEW h \in run[r].got, Family[h[1]] = Family[p], h # x
    PROVE  Version[p] - Version[h[1]] > 0 \/ (Version[p] - Version[h[1]] = 0 /\ p < h[1])
<1>1. PICK g : g = run[r] OBVIOUS
<1>2. /\ Collection(g.got)
      /\ \A y \in g.got : y[1] \notin g.touched => pool[y[1]].rev = y[2]
  BY <1>1, DoneFacts
<1>3. h[1] \in Pkgs /\ h[2] \in Revs /\ h[1] # p /\ h[1] \notin g.touched
  BY <1>1, <1>2 DEF Collection
<1>4. pool[h[1]].rev = h[2] BY <1>1, <1>2, <1>3
<1>5. h[1] \in Stored
  BY <1>3, <1>4, RepoAssumption DEF Stored, Absent
<1>6. p \in Nat /\ h[1] \in Nat /\ Version[p] \in Nat /\ Version[h[1]] \in Nat
  BY <1>3, RepoAssumption DEF Stored
<1> QED BY <1>3, <1>5, <1>6 DEF Superseded

\* The index of an architecture that was rebuilt names only what was collected.
LEMMA IndexFromRecords ==
    ASSUME GenInv, NeverWritten, NEW r \in Runners, Done(r), NEW a \in Rebuilt(run[r].got), eco # "nix"
    PROVE  Index(a) \subseteq run[r].got
<1>1. PICK g : g = run[r] OBVIOUS
<1>2. /\ Collection(g.got) /\ signed \in BOOLEAN /\ eco \in {"apt", "rpm-md", "pacman", "apk", "xbps", "nix"}
      /\ \A s \in Range(Plan(g.got, g.stamp)) : s.op = "put" => Holds(s)
  BY <1>1, DoneFacts
<1>3. CASE eco = "apt"
  <2>1. files[Apt!Packages] = Apt!appendPackagesEntry(g.got) BY <1>2, <1>3, AptDone
  <2>2. Index(a) \subseteq Apt!appendPackagesEntry(g.got) BY <1>3, <2>1 DEF Index, Apt!Index
  <2> QED BY <1>1, <2>2 DEF Apt!appendPackagesEntry
<1>4. CASE eco = "rpm-md"
  <2>1. Rpm!Primary \in DOMAIN files /\ files[Rpm!Primary] = g.got BY <1>2, <1>4, RpmDone
  <2> QED BY <1>1, <1>4, <2>1 DEF Index, Rpm!Index
<1>5. CASE eco = "pacman"
  <2>1. Pacman!Db \in DOMAIN files /\ files[Pacman!Db] = Pacman!dedupeDescs(g.got) BY <1>2, <1>5, PacmanDone
  <2>2. Index(a) = Pacman!dedupeDescs(g.got) BY <1>5, <2>1 DEF Index, Pacman!Index
  <2> QED BY <1>1, <2>2 DEF Pacman!dedupeDescs
<1>6. CASE eco = "apk"
  <2>1. a \in Arches(Apk!Placed(g.got)) BY <1>1, <1>6 DEF Rebuilt
  <2>2. Apk!Index(files, a) = Named(Apk!Placed(g.got), a) \cup Named(Apk!Placed(g.got), "all")
    BY <1>2, <1>6, <2>1, ApkDone
  <2>3. Index(a) = Apk!Index(files, a) BY <1>6 DEF Index
  <2> QED BY <1>1, <2>2, <2>3 DEF Named, Apk!Placed
<1>7. CASE eco = "xbps"
  <2> DEFINE recs == Xbps!dedupeRecords(g.got)
  <2>1. a \in Arches(recs) BY <1>1, <1>7 DEF Rebuilt
  <2>2. Index(a) = Xbps!Index(files, a) BY <1>7 DEF Index
  <2>3. CASE a = "all" BY <1>7, <2>2, <2>3 DEF NeverWritten, Xbps!Index
  <2>4. CASE a # "all"
    <3>1. a \in Arches(recs) \ {"all"} BY <2>1, <2>4
    <3>2. Xbps!Index(files, a) = Named(recs, a) \cup Named(recs, "all") BY <1>2, <1>7, <3>1, XbpsDone
    <3> QED BY <1>1, <2>2, <3>2 DEF Named, Xbps!dedupeRecords
  <2> QED BY <2>3, <2>4
<1> QED BY <1>2, <1>3, <1>4, <1>5, <1>6, <1>7

\* A generation that ends well, and had the storage to itself, lists every
\* package that was there all the time (Engine.Reindex and the generators).
THEOREM IndexesComplete == IndexSpec => []IndexComplete
<1>1. ASSUME GenInv PROVE IndexComplete
  <2> SUFFICES ASSUME NEW r \in Runners, Done(r), NEW p \in Stored \ run[r].touched,
                      Arch[p] # "all", Usable(p, Arch[p]),
                      OneVersion => ~Superseded(p) /\ \A q \in run[r].touched : Family[q] # Family[p]
               PROVE  <<p, pool[p].rev>> \in Index(Arch[p])
    BY DEF IndexComplete
  <2> USE <1>1
  <2>1. PICK g : g = run[r] OBVIOUS
  <2>2. /\ Collection(g.got) /\ signed \in BOOLEAN /\ eco \in {"apt", "rpm-md", "pacman", "apk", "xbps", "nix"}
        /\ pool \in [Pkgs -> Object \cup {Absent}]
        /\ \A s \in Range(Plan(g.got, g.stamp)) : s.op = "put" => Holds(s)
        /\ <<p, pool[p].rev>> \in g.got
        /\ \A x \in g.got : x[1] \notin g.touched => pool[x[1]].rev = x[2] /\ (eco = "nix" => pool[x[1]].own)
    BY <2>1, DoneFacts
  <2>3. PICK x \in g.got : x = <<p, pool[p].rev>> BY <2>2
  <2>4. x[1] = p /\ p \in Pkgs BY <2>3 DEF Stored
  <2>5. PICK a : a = Arch[p] OBVIOUS
  <2>6. CASE eco = "apt"
    <3>1. Apt!Packages \in DOMAIN files /\ files[Apt!Packages] = Apt!appendPackagesEntry(g.got)
      BY <2>2, <2>6, AptDone
    <3>2. a = "amd64" BY <2>5, <2>6 DEF Usable
    <3>3. x \in Apt!appendPackagesEntry(g.got) BY <2>4, <2>5, <3>2 DEF Apt!appendPackagesEntry
    <3> QED BY <2>3, <2>5, <2>6, <3>1, <3>2, <3>3 DEF Index, Apt!Index
  <2>7. CASE eco = "rpm-md"
    <3>1. Rpm!Primary \in DOMAIN files /\ files[Rpm!Primary] = g.got BY <2>2, <2>7, RpmDone
    <3> QED BY <2>2, <2>7, <3>1 DEF Index, Rpm!Index
  <2>8. CASE eco = "pacman"
    <3>1. Pacman!Db \in DOMAIN files /\ files[Pacman!Db] = Pacman!dedupeDescs(g.got) BY <2>2, <2>8, PacmanDone
    <3>2. \A h \in g.got : Family[h[1]] = Family[x[1]] /\ h # x =>
              Version[p] - Version[h[1]] > 0 \/ (Version[p] - Version[h[1]] = 0 /\ p < h[1])
      BY <2>1, <2>4, <2>8, NotSuperseded DEF OneVersion
    <3>3. x \in Pacman!dedupeDescs(g.got)
      BY <2>4, <3>2 DEF Pacman!dedupeDescs, Pacman!Newer, Pacman!ComparePkgVer
    <3> QED BY <2>3, <2>8, <3>1, <3>3 DEF Index, Pacman!Index
  <2>9. CASE eco = "apk"
    <3>1. x \in Apk!Placed(g.got) BY <2>4, <2>9 DEF Usable, Apk!Placed
    <3>2. a \in Arches(Apk!Placed(g.got)) BY <2>4, <2>5, <3>1 DEF Arches
    <3>3. Apk!Index(files, a) = Named(Apk!Placed(g.got), a) \cup Named(Apk!Placed(g.got), "all")
      BY <2>2, <2>9, <3>2, ApkDone
    <3>4. x \in Named(Apk!Placed(g.got), a) BY <2>4, <2>5, <3>1 DEF Named
    <3> QED BY <2>3, <2>5, <2>9, <3>3, <3>4 DEF Index
  <2>10. CASE eco = "xbps"
    <3> DEFINE recs == Xbps!dedupeRecords(g.got)
    <3>1. \A h \in g.got : Family[h[1]] = Family[x[1]] /\ h # x =>
              Version[p] - Version[h[1]] > 0 \/ (Version[p] - Version[h[1]] = 0 /\ p < h[1])
      BY <2>1, <2>4, <2>10, NotSuperseded DEF OneVersion
    <3>2. x \in recs
      BY <2>4, <3>1 DEF Xbps!dedupeRecords, Xbps!Newer, Xbps!CompareXbpsVer
    <3>3. a \in Arches(recs) \ {"all"} BY <2>4, <2>5, <3>2 DEF Arches
    <3>4. Xbps!Index(files, a) = Named(recs, a) \cup Named(recs, "all") BY <2>2, <2>10, <3>3, XbpsDone
    <3>5. x \in Named(recs, a) BY <2>4, <2>5, <3>2 DEF Named
    <3> HIDE DEF recs
    <3> QED BY <2>3, <2>5, <2>10, <3>4, <3>5 DEF Index
  <2>11. CASE eco = "nix"
    <3>1. pool[p].own /\ p \in DOMAIN pool BY <2>1, <2>2, <2>3, <2>4, <2>11
    <3> QED BY <2>11, <3>1 DEF Index, Nix!Index
  <2> QED BY <2>2, <2>6, <2>7, <2>8, <2>9, <2>10, <2>11
<1> QED BY <1>1, GenInvariance, PTL

\* ... and names nothing that is not stored, where it has rebuilt the index.
THEOREM IndexesNameStored == IndexSpec => []IndexNamesStored
<1>1. ASSUME GenInv, NeverWritten PROVE IndexNamesStored
  <2> SUFFICES ASSUME NEW r \in Runners, Done(r), NEW a \in Rebuilt(run[r].got), NEW x \in Index(a), x[1] \notin run[r].touched
               PROVE  pool[x[1]].rev = x[2]
    BY DEF IndexNamesStored
  <2>1. CASE eco = "nix"
    <3>1. Index(a) = Nix!Index(pool) BY <2>1 DEF Index
    <3>2. PICK p : x = <<p, pool[p].rev>> BY <3>1 DEF Nix!Index
    <3> QED BY <3>2
  <2>2. CASE eco # "nix"
    <3>1. x \in run[r].got BY <1>1, <2>2, IndexFromRecords
    <3> QED BY <1>1, <3>1, DoneFacts
  <2> QED BY <2>1, <2>2
<1> QED BY <1>1, GenInvariance, NeverWrittenAlways, PTL

\* ... and its signatures and checksums are over the files beside them.
THEOREM IndexesVerify == IndexSpec => []IndexVerifies
<1>1. ASSUME GenInv, NeverWritten PROVE IndexVerifies
  <2> SUFFICES ASSUME NEW r \in Runners, Done(r)
               PROVE  CASE eco = "apt" -> Apt!Verifies(files, signed) [] eco = "rpm-md" -> Rpm!Verifies(files, signed)
                        [] eco = "pacman" -> Pacman!Verifies(files, signed)
                        [] eco = "xbps" -> Xbps!Verifies(files, signed, Rebuilt(run[r].got))
                        [] OTHER -> TRUE
    BY DEF IndexVerifies
  <2>1. PICK g : g = run[r] OBVIOUS
  <2>2. /\ Collection(g.got) /\ signed \in BOOLEAN
        /\ \A s \in Range(Plan(g.got, g.stamp)) : s.op = "put" => Holds(s)
    BY <1>1, <2>1, DoneFacts
  <2>3. CASE eco = "apt"
    <3>1. Apt!Verifies(files, signed) BY <2>2, <2>3, AptDone
    <3> QED BY <2>3, <3>1
  <2>4. CASE eco = "rpm-md"
    <3>1. Rpm!Verifies(files, signed) BY <2>2, <2>4, RpmDone
    <3> QED BY <2>4, <3>1
  <2>5. CASE eco = "pacman"
    <3>1. Pacman!Verifies(files, signed) BY <2>2, <2>5, PacmanDone
    <3> QED BY <2>5, <3>1
  <2>6. CASE eco = "xbps"
    <3>1. \A a \in Rebuilt(g.got) : Xbps!Index(files, a) \subseteq g.got
      BY <1>1, <2>1, <2>6, IndexFromRecords DEF Index
    <3>2. signed => \A x \in g.got : /\ Xbps!Sig(x[1]) \in DOMAIN files /\ files[Xbps!Sig(x[1])] = x[2]
                                     /\ Xbps!Sig2(x[1]) \in DOMAIN files /\ files[Xbps!Sig2(x[1])] = x[2]
      BY <2>2, <2>6, XbpsDone
    <3>3. Xbps!Verifies(files, signed, Rebuilt(g.got)) BY <3>1, <3>2 DEF Xbps!Verifies
    <3> QED BY <2>1, <2>6, <3>3
  <2>7. CASE eco \notin {"apt", "rpm-md", "pacman", "xbps"} BY <2>7
  <2> QED BY <2>3, <2>4, <2>5, <2>6, <2>7
<1> QED BY <1>1, GenInvariance, NeverWrittenAlways, PTL

-----------------------------------------------------------------------------
(* Two generations of apt                                                  *)

LEMMA ConcatAt ==
    ASSUME NEW S, NEW q \in Seq(S), NEW t \in Seq(S)
    PROVE  /\ Len(q \o t) = Len(q) + Len(t)
           /\ \A i \in 1 .. Len(q) + Len(t) : (q \o t)[i] = IF i <= Len(q) THEN q[i] ELSE t[i - Len(q)]
OBVIOUS

LEMMA SeqWiden == ASSUME NEW S, NEW U, S \subseteq U, NEW q \in Seq(S) PROVE q \in Seq(U)
OBVIOUS

LEMMA SevenAt ==
    ASSUME NEW a, NEW b, NEW c, NEW d, NEW e, NEW f, NEW g, NEW A, A = <<a, b, c, d, e, f, g>>
    PROVE  /\ Len(A) = 7 /\ A \in Seq({a, b, c, d, e, f, g}) /\ A[1] = a /\ A[2] = b /\ A[3] = c /\ A[4] = d
           /\ A[5] = e /\ A[6] = f /\ A[7] = g
BY Z3

LEMMA TwoAt ==
    ASSUME NEW h, NEW l, NEW B, B = <<h, l>>
    PROVE  B \in Seq({h, l}) /\ Len(B) = 2 /\ B[1] = h /\ B[2] = l
OBVIOUS

LEMMA NineAt ==
    ASSUME NEW S, NEW A \in Seq(S), NEW B \in Seq(S), Len(A) = 7, Len(B) = 2, NEW q, q = A \o B
    PROVE  Len(q) = 9 /\ (\A j \in 1 .. 7 : q[j] = A[j]) /\ q[8] = B[1] /\ q[9] = B[2]
<1>1. /\ Len(q) = Len(A) + Len(B)
      /\ \A j \in 1 .. Len(A) + Len(B) : q[j] = IF j <= Len(A) THEN A[j] ELSE B[j - Len(A)]
  BY ConcatAt
<1>2. Len(A) = 7 /\ Len(B) = 2 OBVIOUS
<1> QED BY ONLY <1>1, <1>2

LEMMA SevenThenTwo ==
    ASSUME NEW a, NEW b, NEW c, NEW d, NEW e, NEW f, NEW g, NEW h, NEW l,
           NEW A, A = <<a, b, c, d, e, f, g>>, NEW B, B = <<h, l>>, NEW q, q = A \o B
    PROVE  /\ Len(q) = 9 /\ \A j \in 1 .. 5 : q[j] \in {a, b, c, d, e}
           /\ q[6] = f /\ q[7] = g /\ q[8] = h /\ q[9] = l
<1>0. A = <<a, b, c, d, e, f, g>> /\ B = <<h, l>> /\ q = A \o B OBVIOUS
<1>1. /\ Len(A) = 7 /\ A \in Seq({a, b, c, d, e, f, g}) /\ A[1] = a /\ A[2] = b /\ A[3] = c /\ A[4] = d
      /\ A[5] = e /\ A[6] = f /\ A[7] = g
  BY SevenAt
<1>2. B \in Seq({h, l}) /\ Len(B) = 2 /\ B[1] = h /\ B[2] = l BY ONLY <1>0, TwoAt
<1>3. PICK S, X, Y : S = X \cup Y /\ X = {a, b, c, d, e, f, g} /\ Y = {h, l} OBVIOUS
<1>4. A \in Seq(X) /\ B \in Seq(Y) /\ X \subseteq S /\ Y \subseteq S BY ONLY <1>1, <1>2, <1>3
<1>5. A \in Seq(S) /\ B \in Seq(S) BY ONLY <1>4, SeqWiden
<1>6. Len(q) = 9 /\ (\A j \in 1 .. 7 : q[j] = A[j]) /\ q[8] = B[1] /\ q[9] = B[2]
  BY ONLY <1>0, <1>1, <1>2, <1>5, NineAt
<1>7. q[1] = a /\ q[2] = b /\ q[3] = c /\ q[4] = d /\ q[5] = e /\ q[6] = f /\ q[7] = g
  BY ONLY <1>1, <1>6
<1>8. \A j \in 1 .. 5 : q[j] \in {a, b, c, d, e} BY ONLY <1>7
<1> QED BY ONLY <1>2, <1>6, <1>7, <1>8

LEMMA SevenAlone ==
    ASSUME NEW a, NEW b, NEW c, NEW d, NEW e, NEW f, NEW g,
           NEW A, A = <<a, b, c, d, e, f, g>>, NEW q, q = A \o << >>
    PROVE  /\ Len(q) = 7 /\ \A j \in 1 .. 5 : q[j] \in {a, b, c, d, e}
           /\ q[6] = f /\ q[7] = g
<1>1. /\ Len(A) = 7 /\ A \in Seq({a, b, c, d, e, f, g}) /\ A[1] = a /\ A[2] = b /\ A[3] = c /\ A[4] = d
      /\ A[5] = e /\ A[6] = f /\ A[7] = g
  BY SevenAt
<1>2. PICK S : A \in Seq(S) BY ONLY <1>1
<1>3. A \o << >> = A BY ONLY <1>2
<1>4. q = A BY <1>3
<1>5. \A j \in 1 .. 5 : q[j] \in {a, b, c, d, e} BY ONLY <1>1, <1>4
<1> QED BY ONLY <1>1, <1>4, <1>5

\* The order of the steps of an apt generation.
LEMMA AptPlanOrder ==
    ASSUME NEW got, NEW stamp, signed \in BOOLEAN
    PROVE  LET v == Apt!appendPackagesEntry(got)
               rel == Apt!buildRelease(v, stamp)
               P == Apt!GenerateIndexes(got, stamp, signed)
           IN  /\ Len(P) = 5 + EndLength
               /\ \A i \in 1 .. 5 : P[i] \in {WriteFile(Apt!Packages, v), WriteFile(Apt!PackagesGz, v),
                              WriteFile(Apt!ByHash("plain", v), v), WriteFile(Apt!ByHash("gz", v), v), CollectOld(v)}
               /\ P[6] = WriteFile(Apt!Marker, v) /\ P[7] = WriteFile(Apt!Release, rel)
               /\ signed => P[8] = WriteFile(Apt!InRelease, Signature(rel)) /\ P[9] = WriteFile(Apt!ReleaseGpg, Signature(rel))
<1> DEFINE v == Apt!appendPackagesEntry(got)
           rel == Apt!buildRelease(v, stamp)
           A == << WriteFile(Apt!Packages, v), WriteFile(Apt!PackagesGz, v),
                   WriteFile(Apt!ByHash("plain", v), v), WriteFile(Apt!ByHash("gz", v), v),
                   CollectOld(v), WriteFile(Apt!Marker, v), WriteFile(Apt!Release, rel) >>
           B == IF signed THEN << WriteFile(Apt!InRelease, Signature(rel)), WriteFile(Apt!ReleaseGpg, Signature(rel)) >> ELSE << >>
<1>2. Apt!GenerateIndexes(got, stamp, signed) = A \o B
  BY DEF Apt!GenerateIndexes, WriteFile, Apt!WriteFile, CollectOld, Apt!CollectOld, Signature, Apt!Signature
<1>3. PICK a1 : a1 = WriteFile(Apt!Packages, v) OBVIOUS
<1>4. PICK a2 : a2 = WriteFile(Apt!PackagesGz, v) OBVIOUS
<1>5. PICK a3 : a3 = WriteFile(Apt!ByHash("plain", v), v) OBVIOUS
<1>6. PICK a4 : a4 = WriteFile(Apt!ByHash("gz", v), v) OBVIOUS
<1>7. PICK a5 : a5 = CollectOld(v) OBVIOUS
<1>8. PICK a6 : a6 = WriteFile(Apt!Marker, v) OBVIOUS
<1>9. PICK a7 : a7 = WriteFile(Apt!Release, rel) OBVIOUS
<1>10. PICK b1 : b1 = WriteFile(Apt!InRelease, Signature(rel)) OBVIOUS
<1>11. PICK b2 : b2 = WriteFile(Apt!ReleaseGpg, Signature(rel)) OBVIOUS
<1>12. A = <<a1, a2, a3, a4, a5, a6, a7>> /\ B = IF signed THEN <<b1, b2>> ELSE << >>
  BY <1>3, <1>4, <1>5, <1>6, <1>7, <1>8, <1>9, <1>10, <1>11
<1>16. PICK F, E : F = A /\ E = B OBVIOUS
<1> HIDE DEF A, B, v, rel
<1>13. PICK P : P = F \o E OBVIOUS
<1>17. F = <<a1, a2, a3, a4, a5, a6, a7>> /\ (signed => E = <<b1, b2>>) /\ (~signed => E = << >>) /\ signed \in BOOLEAN
  BY <1>12, <1>16
<1>14. /\ Len(P) = 5 + EndLength
       /\ \A i \in 1 .. 5 : P[i] \in {a1, a2, a3, a4, a5}
       /\ P[6] = a6 /\ P[7] = a7 /\ (signed => P[8] = b1 /\ P[9] = b2)
  <2>1. CASE signed
    <3>1. E = <<b1, b2>> /\ F = <<a1, a2, a3, a4, a5, a6, a7>> BY <1>17, <2>1
    <3>2. /\ Len(P) = 9 /\ \A j \in 1 .. 5 : P[j] \in {a1, a2, a3, a4, a5}
          /\ P[6] = a6 /\ P[7] = a7 /\ P[8] = b1 /\ P[9] = b2
      BY ONLY <1>13, <3>1, SevenThenTwo
    <3> QED BY <2>1, <3>2 DEF EndLength
  <2>2. CASE ~signed
    <3>1. E = << >> /\ F = <<a1, a2, a3, a4, a5, a6, a7>> BY <1>17, <2>2
    <3>2. /\ Len(P) = 7 /\ \A j \in 1 .. 5 : P[j] \in {a1, a2, a3, a4, a5}
          /\ P[6] = a6 /\ P[7] = a7
      BY ONLY <1>13, <3>1, SevenAlone
    <3> QED BY <2>2, <3>2 DEF EndLength
  <2> QED BY <2>1, <2>2
<1>15. P = Apt!GenerateIndexes(got, stamp, signed) BY <1>2, <1>13, <1>16
<1> QED BY <1>3, <1>4, <1>5, <1>6, <1>7, <1>8, <1>9, <1>10, <1>11, <1>14, <1>15 DEF v, rel

\* What AptInv says of the files, and of the generations in progress.
AptFiles ==
    /\ ReleaseResolves /\ (prev # {} => Apt!Copies(prev) \subseteq DOMAIN files)
    /\ Apt!InRelease \in DOMAIN files => Apt!Release \in DOMAIN files
    /\ Apt!Release \in DOMAIN files => Apt!Marker \in DOMAIN files
SignedBefore(g) ==
    g.phase = "write" /\ Len(g.plan) = EndLength - 1 /\ signed =>
       (Apt!Release \in DOMAIN files => Apt!InRelease \in DOMAIN files /\ files[Apt!InRelease].of = files[Apt!Release])
AptRuns ==
    /\ \A r \in Active : run[r].alone /\ EndInOrder(run[r]) /\ SignedBefore(run[r])
    /\ MarkerCurrent => ~MarkerAhead(files)

LEMMA AptParts == ASSUME eco = "apt", ~torn PROVE AptInv <=> AptFiles /\ AptRuns
BY DEF AptInv, AptFiles, AptRuns, SignedBefore, TwoGenerations

LEMMA SameAptFiles ==
    ASSUME AptFiles, UNCHANGED <<eco, signed, files, prev>>
    PROVE  AptFiles'
BY DEF AptFiles, ReleaseResolves

\* No generation is in progress, or none writes: nothing may be ahead.
LEMMA NobodyWrites ==
    ASSUME \A r \in Active' : run'[r].phase # "write" /\ run'[r].alone, ~MarkerAhead(files)'
    PROVE  AptRuns'
BY DEF AptRuns, EndInOrder, SignedBefore

\* An apt generation near its end has written what comes before.
LEMMA EndHolds ==
    ASSUME GenInv, eco = "apt", NEW r \in Runners, NEW g, g = run[r], g.phase = "write", g.alone, EndInOrder(g),
           NEW v, v = Apt!appendPackagesEntry(g.got), NEW n, n = Len(g.plan)
    PROVE  /\ n \in Nat /\ EndLength \in {2, 4} /\ (signed <=> EndLength = 4)
           /\ n < EndLength => /\ Apt!Marker \in DOMAIN files /\ files[Apt!Marker] = v
                               /\ Apt!Copies(v) \subseteq DOMAIN files
           /\ n < EndLength - 1 => Apt!Release \in DOMAIN files /\ files[Apt!Release] = Apt!buildRelease(v, g.stamp)
<1>1. g.plan \in Seq(Range(g.plan)) /\ Written(g) /\ signed \in BOOLEAN
  BY RunnerFacts DEF GenRecord, GenInv, GenTypeOK
<1>2. n \in Nat /\ EndLength \in {2, 4} /\ (signed <=> EndLength = 4) /\ DOMAIN g.plan = 1 .. n
  BY <1>1 DEF EndLength
<1>3. PICK P : P = Range(Plan(g.got, g.stamp)) OBVIOUS
<1>4. PICK rel : rel = Apt!buildRelease(v, g.stamp) OBVIOUS
<1>5. {WriteFile(Apt!ByHash("plain", v), v), WriteFile(Apt!ByHash("gz", v), v), WriteFile(Apt!Marker, v),
       WriteFile(Apt!Release, rel)} \subseteq P
  <2>1. P = Range(Apt!GenerateIndexes(g.got, g.stamp, signed)) BY <1>3 DEF Plan
  <2> QED BY <1>1, <1>4, <2>1, AptPlan
<1>6. \A s \in P : s.op = "put" => s \in Range(g.plan) \/ Holds(s)
  BY <1>1, <1>3 DEF Written
<1>7. \A s \in Range(g.plan) : n <= EndLength => \E l \in 1 .. n : s = LastStep(g, l)
  <2> SUFFICES ASSUME NEW i \in 1 .. n, n <= EndLength PROVE \E l \in 1 .. n : g.plan[i] = LastStep(g, l)
    BY <1>2 DEF Range
  <2>1. n + 1 - i \in 1 .. n /\ n + 1 - i <= EndLength BY <1>2
  <2>2. g.plan[i] = LastStep(g, n + 1 - i) BY <1>2, <2>1 DEF EndInOrder
  <2> QED BY <2>1, <2>2
<1>8. ASSUME NEW l \in 1 .. 4, l < EndLength
      PROVE  /\ LastStep(g, l).key \in {Apt!Release, Apt!InRelease, Apt!ReleaseGpg}
             /\ l < EndLength - 1 => LastStep(g, l).key \in {Apt!InRelease, Apt!ReleaseGpg}
  <2>1. CASE l = EndLength - 1
    <3>1. LastStep(g, l) = WriteFile(Apt!Release, rel) BY <1>2, <1>4, <2>1 DEF LastStep
    <3> QED BY <1>2, <2>1, <3>1 DEF WriteFile
  <2>2. CASE l < EndLength - 1
    <3>1. signed /\ l \in {1, 2} BY <1>2, <2>2
    <3>2. LastStep(g, l) \in {WriteFile(Apt!InRelease, Signature(rel)), WriteFile(Apt!ReleaseGpg, Signature(rel))}
      BY <1>2, <1>4, <2>2, <3>1 DEF LastStep
    <3> QED BY <3>2 DEF WriteFile
  <2> QED BY <1>2, <1>8, <2>1, <2>2
<1>9. ASSUME n < EndLength, NEW k, NEW w, WriteFile(k, w) \in P, k \notin {Apt!Release, Apt!InRelease, Apt!ReleaseGpg}
      PROVE  k \in DOMAIN files /\ files[k] = w
  <2>1. WriteFile(k, w).op = "put" /\ WriteFile(k, w).key = k /\ WriteFile(k, w).val = w BY DEF WriteFile
  <2>2. WriteFile(k, w) \notin Range(g.plan)
    <3> SUFFICES ASSUME NEW l \in 1 .. n, WriteFile(k, w) = LastStep(g, l) PROVE FALSE BY <1>2, <1>7, <1>9
    <3>1. l \in 1 .. 4 /\ l < EndLength BY <1>2, <1>9
    <3> QED BY <1>8, <1>9, <2>1, <3>1
  <2> QED BY <1>6, <1>9, <2>1, <2>2 DEF Holds
<1>10. ASSUME n < EndLength - 1 PROVE Apt!Release \in DOMAIN files /\ files[Apt!Release] = rel
  <2> DEFINE s == WriteFile(Apt!Release, rel)
  <2>1. s.op = "put" /\ s.key = Apt!Release /\ s.val = rel BY DEF WriteFile
  <2>2. s \notin Range(g.plan)
    <3> SUFFICES ASSUME NEW l \in 1 .. n, s = LastStep(g, l) PROVE FALSE BY <1>2, <1>7, <1>10
    <3>1. l \in 1 .. 4 /\ l < EndLength - 1 BY <1>2, <1>10
    <3>2. s.key \in {Apt!InRelease, Apt!ReleaseGpg} BY <1>2, <1>8, <3>1
    <3> QED BY <2>1, <3>2 DEF Apt!Release, Apt!InRelease, Apt!ReleaseGpg
  <2>3. s \in P BY <1>5
  <2> HIDE DEF s
  <2> QED BY <1>6, <2>1, <2>2, <2>3 DEF Holds
<1>11. /\ Apt!Marker \notin {Apt!Release, Apt!InRelease, Apt!ReleaseGpg}
       /\ \A f : Apt!ByHash(f, v) \notin {Apt!Release, Apt!InRelease, Apt!ReleaseGpg}
  BY DEF Apt!Marker, Apt!ByHash, Apt!Release, Apt!InRelease, Apt!ReleaseGpg
<1>12. ASSUME n < EndLength
       PROVE  Apt!Marker \in DOMAIN files /\ files[Apt!Marker] = v /\ Apt!Copies(v) \subseteq DOMAIN files
  BY <1>5, <1>9, <1>11, <1>12 DEF Apt!Copies
<1> QED BY <1>2, <1>4, <1>10, <1>12

\* Steps that leave the files as they are.
LEMMA AptFrame ==
    ASSUME AptFiles, AptRuns, UNCHANGED <<eco, signed, files, prev>>,
           \A x \in Active' :
              /\ run'[x].alone
              /\ \/ /\ x \in Active /\ run'[x].phase = run[x].phase /\ run'[x].plan = run[x].plan
                    /\ run'[x].got = run[x].got /\ run'[x].stamp = run[x].stamp
                 \/ run'[x].phase # "write"
                 \/ EndInOrder(run[x])' /\ Len(run'[x].plan) > EndLength,
           MarkerCurrent' => MarkerCurrent \/ ~MarkerAhead(files),
           EndLength \in {2, 4}
    PROVE  AptFiles' /\ AptRuns'
<1>1. AptFiles' BY SameAptFiles
<1>2. EndLength' = EndLength BY DEF EndLength
<1>3. ASSUME NEW x \in Active' PROVE (run[x].alone /\ EndInOrder(run[x]) /\ SignedBefore(run[x]))'
  <2>1. PICK g, h : g = run[x] /\ h = run'[x] OBVIOUS
  <2>2. h.alone BY <1>3, <2>1
  <2>3. CASE /\ x \in Active /\ h.phase = g.phase /\ h.plan = g.plan
             /\ h.got = g.got /\ h.stamp = g.stamp
    <3>1. EndInOrder(g) /\ SignedBefore(g) BY <2>1, <2>3 DEF AptRuns
    <3>2. \A l : LastStep(h, l)' = LastStep(g, l) BY <1>2, <2>3 DEF LastStep
    <3>3. EndInOrder(h)' BY <1>2, <2>3, <3>1, <3>2 DEF EndInOrder
    <3>4. SignedBefore(h)' BY <1>2, <2>3, <3>1 DEF SignedBefore
    <3> QED BY <2>1, <2>2, <3>3, <3>4
  <2>4. CASE h.phase # "write" BY <2>1, <2>2, <2>4 DEF EndInOrder, SignedBefore
  <2>5. CASE EndInOrder(h)' /\ Len(h.plan) > EndLength
    <3>1. SignedBefore(h)' BY <1>2, <2>5 DEF SignedBefore
    <3> QED BY <2>1, <2>2, <2>5, <3>1
  <2>6. EndInOrder(run[x])' => EndInOrder(h)' BY <2>1
  <2> QED BY <1>3, <2>1, <2>3, <2>4, <2>5, <2>6
<1>4. MarkerCurrent' => ~MarkerAhead(files)'
  BY DEF AptRuns, MarkerAhead
<1> QED BY <1>1, <1>3, <1>4 DEF AptRuns

\* The steps that are left, after the first of them and with more before them.
LEMMA PlanShift ==
    ASSUME NEW g, g \in GenRecord(Range(g.plan)), g.plan # << >>, g.phase = "write", EndInOrder(g),
           UNCHANGED <<eco, signed>>, EndLength \in {2, 4},
           NEW S, NEW more \in Seq(S), NEW h, h = [g EXCEPT !.plan = more \o Tail(@)],
           Len(more) > 0 => Len(g.plan) > EndLength,
           \A i \in 1 .. Len(more) :
              more[i].op = "del" /\ (Apt!Marker \in DOMAIN files' => more[i].key \notin Apt!Copies(files'[Apt!Marker])),
           Len(g.plan) > EndLength /\ Apt!Marker \in DOMAIN files' =>
              Apt!Marker \in DOMAIN files /\ files'[Apt!Marker] = files[Apt!Marker]
    PROVE  EndInOrder(h)' /\ Len(h.plan) = Len(more) + Len(g.plan) - 1
<1> DEFINE q == g.plan  n == Len(g.plan)  m == Len(more)
<1>1. q \in Seq(Range(q)) /\ n \in Nat /\ m \in Nat BY DEF GenRecord
<1>2. Tail(q) \in Seq(Range(q)) /\ n >= 1 /\ Len(Tail(q)) = n - 1 /\ \A i \in 1 .. n - 1 : Tail(q)[i] = q[i + 1]
  BY <1>1, HeadAndTail
<1>3. PICK U : S \subseteq U /\ Range(q) \subseteq U
  <2>1. S \subseteq S \cup Range(q) /\ Range(q) \subseteq S \cup Range(q) OBVIOUS
  <2> QED BY <2>1
<1>4. more \in Seq(U) /\ Tail(q) \in Seq(U) BY <1>2, <1>3, SeqWiden
<1>5. h.plan = more \o Tail(q) /\ h.phase = "write" /\ h.got = g.got /\ h.stamp = g.stamp BY DEF GenRecord
<1>6. /\ Len(h.plan) = m + n - 1
      /\ \A i \in 1 .. m + n - 1 : h.plan[i] = IF i <= m THEN more[i] ELSE q[i - m + 1]
  <2>1. /\ Len(h.plan) = m + Len(Tail(q))
        /\ \A i \in 1 .. m + Len(Tail(q)) : h.plan[i] = IF i <= m THEN more[i] ELSE Tail(q)[i - m]
    BY <1>4, <1>5, ConcatAt
  <2>2. Len(h.plan) = m + n - 1 BY <1>1, <1>2, <2>1
  <2>3. ASSUME NEW i \in 1 .. m + n - 1 PROVE h.plan[i] = IF i <= m THEN more[i] ELSE q[i - m + 1]
    <3>1. i \in 1 .. m + Len(Tail(q)) BY <1>1, <1>2
    <3>2. CASE i <= m BY <2>1, <3>1, <3>2
    <3>3. CASE ~(i <= m)
      <4>1. i - m \in 1 .. n - 1 BY <1>1, <1>2, <3>3
      <4> QED BY <1>2, <2>1, <3>1, <3>3, <4>1
    <3> QED BY <3>2, <3>3
  <2> QED BY <2>2, <2>3
<1>7. \A l : LastStep(h, l)' = LastStep(g, l) BY <1>5 DEF LastStep, EndLength
<1>8. EndLength' = EndLength BY DEF EndLength
<1> HIDE DEF q, n, m
<1>9. ASSUME NEW i \in 1 .. m + n - 1, NEW left, left = m + n - i
      PROVE  IF left <= EndLength THEN h.plan[i] = LastStep(g, left)
             ELSE /\ h.plan[i].op = "put" => h.plan[i].key \notin {Apt!Marker, Apt!Release, Apt!InRelease}
                  /\ h.plan[i].op = "del" /\ Apt!Marker \in DOMAIN files' =>
                        h.plan[i].key \notin Apt!Copies(files'[Apt!Marker])
  <2>1. CASE i <= m
    <3>1. i \in 1 .. m /\ m > 0 BY <1>1, <2>1
    <3>2. h.plan[i] = more[i] BY <1>6, <2>1
    <3>3. ~(left <= EndLength) BY <1>1, <1>9, <3>1 DEF m, n
    <3> QED BY <3>1, <3>2, <3>3 DEF m
  <2>2. CASE ~(i <= m)
    <3> DEFINE j == i - m + 1
    <3>0. i \in Int /\ i >= m + 1 /\ i <= m + n - 1 /\ m \in Nat /\ n \in Nat /\ left = m + n - i
      BY <1>1, <1>2, <1>9, <2>2
    <3>1. j \in 1 .. n /\ left = n + 1 - j /\ left < n BY ONLY <3>0
    <3>2. h.plan[i] = q[j] BY <1>6, <2>2
    <3>3. IF left <= EndLength THEN q[j] = LastStep(g, left)
          ELSE /\ q[j].op = "put" => q[j].key \notin {Apt!Marker, Apt!Release, Apt!InRelease}
               /\ q[j].op = "del" /\ Apt!Marker \in DOMAIN files =>
                     q[j].key \notin Apt!Copies(files[Apt!Marker])
      <4>1. left = Len(q) + 1 - j /\ j \in 1 .. Len(q) BY <3>1 DEF n, q
      <4> HIDE DEF j
      <4> QED BY <4>1 DEF EndInOrder, q
    <3>4. left > EndLength => n > EndLength BY <1>1, <3>1
    <3> HIDE DEF j
    <3>5. CASE left <= EndLength BY <3>2, <3>3, <3>5
    <3>6. CASE ~(left <= EndLength)
      <4>1. left > EndLength BY <1>1, <1>9, <3>6
      <4>2. Apt!Marker \in DOMAIN files' => Apt!Marker \in DOMAIN files /\ files'[Apt!Marker] = files[Apt!Marker]
        BY <3>4, <4>1 DEF n
      <4> QED BY <3>2, <3>3, <3>6, <4>2
    <3> QED BY <3>5, <3>6
  <2> QED BY <2>1, <2>2
<1>10. EndInOrder(h)'
  <2> DEFINE Fine(i, left) ==
               IF left <= EndLength' THEN h.plan[i] = LastStep(h, left)'
               ELSE /\ h.plan[i].op = "put" => h.plan[i].key \notin {Apt!Marker, Apt!Release, Apt!InRelease}
                    /\ h.plan[i].op = "del" /\ Apt!Marker \in DOMAIN files' =>
                          h.plan[i].key \notin Apt!Copies(files'[Apt!Marker])
  <2>1. ASSUME NEW i \in 1 .. Len(h.plan) PROVE Fine(i, Len(h.plan) + 1 - i)
    <3>1. PICK left : left = Len(h.plan) + 1 - i OBVIOUS
    <3>2. i \in 1 .. m + n - 1 /\ left = m + n - i BY <1>1, <1>6, <3>1
    <3>3. Fine(i, left) BY <1>7, <1>8, <1>9, <3>2
    <3> QED BY <3>1, <3>3
  <2> QED BY <2>1 DEF EndInOrder
<1> QED BY <1>6, <1>10 DEF m, n

LEMMA TailShift ==
    ASSUME NEW g, g \in GenRecord(Range(g.plan)), g.plan # << >>, g.phase = "write", EndInOrder(g),
           UNCHANGED <<eco, signed>>, EndLength \in {2, 4}, NEW more, more = << >>,
           NEW h, h = [g EXCEPT !.plan = more \o Tail(@)],
           Len(g.plan) > EndLength /\ Apt!Marker \in DOMAIN files' =>
              Apt!Marker \in DOMAIN files /\ files'[Apt!Marker] = files[Apt!Marker]
    PROVE  EndInOrder(h)' /\ Len(h.plan) = Len(more) + Len(g.plan) - 1
<1>1. more \in Seq({}) /\ Len(more) = 0 OBVIOUS
<1>2. ~(Len(more) > 0) /\ \A i : i \notin 1 .. Len(more) BY <1>1
<1> QED BY <1>1, <1>2, PlanShift
\* What is left to do of an apt generation that is alone, and its next step.
LEMMA AptHead ==
    ASSUME GenInv, eco = "apt", NEW r \in Runners, NEW g, g = run[r], g.phase = "write", EndInOrder(g),
           g.plan # << >>, NEW s, s = Head(g.plan), NEW n, n = Len(g.plan)
    PROVE  /\ n \in Nat /\ n >= 1 /\ EndLength \in {2, 4} /\ (signed <=> EndLength = 4)
           /\ IF n <= EndLength THEN s = LastStep(g, n)
              ELSE /\ s.op = "put" => s.key \notin {Apt!Marker, Apt!Release, Apt!InRelease}
                   /\ s.op = "del" /\ Apt!Marker \in DOMAIN files => s.key \notin Apt!Copies(files[Apt!Marker])
<1>1. g.plan \in Seq(Range(g.plan)) /\ signed \in BOOLEAN
  BY RunnerFacts DEF GenRecord, GenInv, GenTypeOK
<1>2. n \in Nat /\ n >= 1 /\ s = g.plan[1] BY <1>1
<1>3. EndLength \in {2, 4} /\ (signed <=> EndLength = 4) BY <1>1 DEF EndLength
<1>4. PICK i : i = 1 OBVIOUS
<1>5. i \in 1 .. Len(g.plan) /\ n = Len(g.plan) + 1 - i /\ s = g.plan[i] BY <1>2, <1>4
<1>6. IF n <= EndLength THEN g.plan[i] = LastStep(g, n)
      ELSE /\ g.plan[i].op = "put" => g.plan[i].key \notin {Apt!Marker, Apt!Release, Apt!InRelease}
           /\ g.plan[i].op = "del" /\ Apt!Marker \in DOMAIN files => g.plan[i].key \notin Apt!Copies(files[Apt!Marker])
  BY <1>5 DEF EndInOrder
<1> QED BY <1>2, <1>3, <1>5, <1>6

\* The files after one of them is written: what Release and InRelease name, and
\* what the Release before named, is there.
LEMMA AptPut ==
    ASSUME GenInv, eco = "apt", AptFiles, NEW r \in Runners, NEW g, g = run[r], g.phase = "write", g.alone,
           EndInOrder(g), g.plan # << >>, NEW s, s = Head(g.plan), s.op = "put",
           UNCHANGED <<eco, signed>>, files' = Put(files, s.key, s.val),
           prev' = prev \/ (Apt!Release \in DOMAIN files /\ prev' = files[Apt!Release].names)
    PROVE  AptFiles'
<1>1. PICK n : n = Len(g.plan) OBVIOUS
<1>2. PICK v : v = Apt!appendPackagesEntry(g.got) OBVIOUS
<1>3. PICK rel : rel = Apt!buildRelease(v, g.stamp) OBVIOUS
<1>4. /\ n \in Nat /\ n >= 1 /\ EndLength \in {2, 4} /\ (signed <=> EndLength = 4)
      /\ IF n <= EndLength THEN s = LastStep(g, n)
         ELSE s.key \notin {Apt!Marker, Apt!Release, Apt!InRelease}
  BY <1>1, AptHead
<1>5. /\ n < EndLength => /\ Apt!Marker \in DOMAIN files /\ files[Apt!Marker] = v
                          /\ Apt!Copies(v) \subseteq DOMAIN files
      /\ n < EndLength - 1 => Apt!Release \in DOMAIN files /\ files[Apt!Release] = rel
  BY <1>1, <1>2, <1>3, EndHolds
<1>6. /\ DOMAIN files' = DOMAIN files \cup {s.key} /\ files'[s.key] = s.val
      /\ \A k \in DOMAIN files : k # s.key => files'[k] = files[k]
  BY DEF Put
<1>7. rel.names = v BY <1>3 DEF Apt!buildRelease
<1>8. /\ Apt!Marker # Apt!Release /\ Apt!Marker # Apt!InRelease /\ Apt!Release # Apt!InRelease
      /\ Apt!ReleaseGpg \notin {Apt!Marker, Apt!Release, Apt!InRelease}
  BY DEF Apt!Marker, Apt!Release, Apt!InRelease, Apt!ReleaseGpg
<1>9. /\ Apt!Release \in DOMAIN files => Apt!Copies(files[Apt!Release].names) \subseteq DOMAIN files
      /\ Apt!InRelease \in DOMAIN files => Apt!Copies(files[Apt!InRelease].of.names) \subseteq DOMAIN files
      /\ prev # {} => Apt!Copies(prev) \subseteq DOMAIN files
      /\ Apt!InRelease \in DOMAIN files => Apt!Release \in DOMAIN files
      /\ Apt!Release \in DOMAIN files => Apt!Marker \in DOMAIN files
  BY DEF AptFiles, ReleaseResolves
<1>10. (prev # {} => Apt!Copies(prev) \subseteq DOMAIN files)' BY <1>6, <1>9
<1>11. SUFFICES /\ Apt!Release \in DOMAIN files' => Apt!Copies(files'[Apt!Release].names) \subseteq DOMAIN files'
                /\ Apt!InRelease \in DOMAIN files' => Apt!Copies(files'[Apt!InRelease].of.names) \subseteq DOMAIN files'
                /\ Apt!InRelease \in DOMAIN files' => Apt!Release \in DOMAIN files'
                /\ Apt!Release \in DOMAIN files' => Apt!Marker \in DOMAIN files'
  BY <1>10 DEF AptFiles, ReleaseResolves
<1>12. CASE s.key \notin {Apt!Release, Apt!InRelease}
  <2>1. \A k \in {Apt!Release, Apt!InRelease} :
            (k \in DOMAIN files' => k \in DOMAIN files /\ files'[k] = files[k])
    BY ONLY <1>6, <1>12
  <2>2. DOMAIN files \subseteq DOMAIN files' BY ONLY <1>6
  <2>3. Apt!Release \in DOMAIN files' => Apt!Copies(files'[Apt!Release].names) \subseteq DOMAIN files'
    BY ONLY <1>9, <2>1, <2>2
  <2>4. Apt!InRelease \in DOMAIN files' => Apt!Copies(files'[Apt!InRelease].of.names) \subseteq DOMAIN files'
    BY ONLY <1>9, <2>1, <2>2
  <2>5. /\ Apt!InRelease \in DOMAIN files' => Apt!Release \in DOMAIN files'
        /\ Apt!Release \in DOMAIN files' => Apt!Marker \in DOMAIN files'
    BY ONLY <1>9, <2>1, <2>2
  <2> QED BY ONLY <2>3, <2>4, <2>5
<1>13. CASE s.key = Apt!Release
  <2>1. n <= EndLength /\ s = LastStep(g, n)
    <3>1. CASE n <= EndLength BY <1>4, <3>1
    <3>2. CASE ~(n <= EndLength)
      <4>1. s.key \notin {Apt!Marker, Apt!Release, Apt!InRelease} BY ONLY <1>4, <3>2
      <4> QED BY <1>13, <4>1
    <3> QED BY <3>1, <3>2
  <2>2. n = EndLength - 1 /\ s.val = rel
    <3>1. CASE n = EndLength
      <4>1. s = WriteFile(Apt!Marker, v) BY <1>2, <1>4, <2>1, <3>1 DEF LastStep
      <4> QED BY <1>8, <1>13, <4>1 DEF WriteFile
    <3>2. CASE n = EndLength - 1
      <4>1. s = WriteFile(Apt!Release, rel) BY <1>2, <1>3, <1>4, <2>1, <3>2 DEF LastStep
      <4> QED BY <3>2, <4>1 DEF WriteFile
    <3>3. CASE n < EndLength - 1
      <4>1. s = WriteFile(Apt!InRelease, Signature(rel)) \/ s = WriteFile(Apt!ReleaseGpg, Signature(rel))
        BY <1>2, <1>3, <1>4, <2>1, <3>3 DEF LastStep
      <4> QED BY <1>8, <1>13, <4>1 DEF WriteFile
    <3> QED BY <1>4, <2>1, <3>1, <3>2, <3>3
  <2>3. Apt!Marker \in DOMAIN files /\ Apt!Copies(v) \subseteq DOMAIN files BY <1>4, <1>5, <2>2
  <2>4. files'[Apt!Release] = rel /\ DOMAIN files \subseteq DOMAIN files' /\ Apt!Release \in DOMAIN files'
    BY ONLY <1>6, <1>13, <2>2
  <2>5. Apt!Copies(files'[Apt!Release].names) \subseteq DOMAIN files' BY ONLY <1>7, <2>3, <2>4
  <2>6. Apt!InRelease \in DOMAIN files' => Apt!Copies(files'[Apt!InRelease].of.names) \subseteq DOMAIN files'
    <3>1. Apt!InRelease \in DOMAIN files' => Apt!InRelease \in DOMAIN files /\ files'[Apt!InRelease] = files[Apt!InRelease]
      BY ONLY <1>6, <1>8, <1>13
    <3> QED BY ONLY <1>9, <2>4, <3>1
  <2>7. Apt!Marker \in DOMAIN files' BY ONLY <2>3, <2>4
  <2> QED BY ONLY <2>4, <2>5, <2>6, <2>7
<1>14. CASE s.key = Apt!InRelease
  <2>1. n <= EndLength /\ s = LastStep(g, n)
    <3>1. CASE n <= EndLength BY <1>4, <3>1
    <3>2. CASE ~(n <= EndLength)
      <4>1. s.key \notin {Apt!Marker, Apt!Release, Apt!InRelease} BY ONLY <1>4, <3>2
      <4> QED BY <1>14, <4>1
    <3> QED BY <3>1, <3>2
  <2>2. n < EndLength - 1 /\ s.val = Signature(rel)
    <3>1. CASE n = EndLength
      <4>1. s = WriteFile(Apt!Marker, v) BY <1>2, <1>4, <2>1, <3>1 DEF LastStep
      <4> QED BY <1>8, <1>14, <4>1 DEF WriteFile
    <3>2. CASE n = EndLength - 1
      <4>1. s = WriteFile(Apt!Release, rel) BY <1>2, <1>3, <1>4, <2>1, <3>2 DEF LastStep
      <4> QED BY <1>8, <1>14, <4>1 DEF WriteFile
    <3>3. CASE n < EndLength - 1
      <4>1. s = WriteFile(Apt!InRelease, Signature(rel)) \/ s = WriteFile(Apt!ReleaseGpg, Signature(rel))
        BY <1>2, <1>3, <1>4, <2>1, <3>3 DEF LastStep
      <4> QED BY <3>3, <4>1 DEF WriteFile
    <3> QED BY <1>4, <2>1, <3>1, <3>2, <3>3
  <2>3. /\ Apt!Release \in DOMAIN files /\ files[Apt!Release] = rel /\ Apt!Marker \in DOMAIN files
        /\ Apt!Copies(v) \subseteq DOMAIN files
    BY <1>4, <1>5, <2>2
  <2>4. s.val.of.names = v BY <1>7, <2>2 DEF Signature
  <2>5. files'[Apt!InRelease] = s.val /\ DOMAIN files \subseteq DOMAIN files' BY ONLY <1>6, <1>14
  <2>6. files'[Apt!Release] = rel BY ONLY <1>6, <1>8, <1>14, <2>3
  <2>7. Apt!Copies(files'[Apt!InRelease].of.names) \subseteq DOMAIN files' BY ONLY <2>3, <2>4, <2>5
  <2>8. Apt!Copies(files'[Apt!Release].names) \subseteq DOMAIN files' BY ONLY <1>7, <2>3, <2>5, <2>6
  <2>9. Apt!Release \in DOMAIN files' /\ Apt!Marker \in DOMAIN files' BY ONLY <2>3, <2>5
  <2> QED BY ONLY <2>7, <2>8, <2>9
<1> QED BY ONLY <1>12, <1>13, <1>14

\* While a generation that is alone is in progress, no other is.
LEMMA OneActive ==
    ASSUME GenInv, NEW r \in Active, run[r].alone PROVE Active = {r}
BY DEF GenInv, Solo, Active

\* One step of an apt generation that is alone.
LEMMA AptWrite ==
    ASSUME GenInv, NeverWritten, eco = "apt", AptFiles, AptRuns, NEW r \in Runners, writeAtomic(r)
    PROVE  AptFiles' /\ AptRuns'
<1>1. PICK g : g = run[r] OBVIOUS
<1>2. PICK s : s = Head(g.plan) OBVIOUS
<1>3. PICK more : more = IF s.op = "gc" THEN Apt!gcByHash(files, s.val) ELSE << >> OBVIOUS
<1>4. PICK h : h = [g EXCEPT !.plan = more \o Tail(@)] OBVIOUS
<1>5. PICK n : n = Len(g.plan) OBVIOUS
<1>6. g.plan # << >> /\ Effect(s) /\ Goes(r, h) /\ UNCHANGED <<eco, signed>>
  BY <1>1, <1>2, <1>3, <1>4 DEF writeAtomic
<1>7. /\ g.phase = "write" /\ r \in Active
      /\ \/ s = WriteFile(s.key, s.val) /\ s.op = "put"
         \/ s = CollectOld(Apt!appendPackagesEntry(g.got)) /\ s.op = "gc"
         \/ Dooms(g, s) /\ s.op = "del"
  BY <1>1, <1>2, <1>6, WriteStep
<1>8. g.alone /\ EndInOrder(g) /\ SignedBefore(g) BY <1>1, <1>7 DEF AptRuns
<1>9. Active = {r} BY <1>1, <1>7, <1>8, OneActive
<1>10. /\ n \in Nat /\ n >= 1 /\ EndLength \in {2, 4} /\ (signed <=> EndLength = 4)
       /\ IF n <= EndLength THEN s = LastStep(g, n)
          ELSE /\ s.op = "put" => s.key \notin {Apt!Marker, Apt!Release, Apt!InRelease}
               /\ s.op = "del" /\ Apt!Marker \in DOMAIN files => s.key \notin Apt!Copies(files[Apt!Marker])
  BY <1>1, <1>2, <1>5, <1>6, <1>7, <1>8, AptHead
<1>11. g \in GenRecord(Range(g.plan)) /\ IsFiniteSet(DOMAIN files) BY <1>1, RunnerFacts
<1>12. h.phase = "write" /\ h.alone /\ h.plan = more \o Tail(g.plan)
  BY <1>4, <1>7, <1>8, <1>11 DEF GenRecord
<1>13. Active' = {r} /\ run'[r] = h
  <2>1. DOMAIN run = Runners BY DEF GenInv, GenTypeOK
  <2>2. run'[r] = h /\ \A x \in Runners : x # r => run'[x] = run[x] BY <1>6, <2>1 DEF Goes
  <2> QED BY <1>9, <1>12, <2>2 DEF Active
<1>14. EndLength' = EndLength BY <1>6 DEF EndLength
<1>15. n >= EndLength => MarkerCurrent BY <1>1, <1>5, <1>9 DEF MarkerCurrent
<1>16. n >= EndLength => ~MarkerAhead(files) BY <1>15 DEF AptRuns
\* It is enough that the steps before the last ones leave Marker, Release and
\* InRelease as they are.
<1> DEFINE Kept(k) == (k \in DOMAIN files' <=> k \in DOMAIN files) /\ (k \in DOMAIN files => files'[k] = files[k])
<1>17. ASSUME AptFiles', EndInOrder(h)', Len(h.plan) = Len(more) + n - 1, Len(more) \in Nat,
              n > EndLength => \A k \in {Apt!Marker, Apt!Release, Apt!InRelease} :
                                   Kept(k),
              n = EndLength => \A k \in {Apt!Release, Apt!InRelease} :
                                   Kept(k),
              Len(more) > 0 => n > EndLength
       PROVE  AptFiles' /\ AptRuns'
  <2>1. SignedBefore(h)'
    <3> SUFFICES ASSUME Len(h.plan) = EndLength - 1, signed, Apt!Release \in DOMAIN files'
                 PROVE  Apt!InRelease \in DOMAIN files' /\ files'[Apt!InRelease].of = files'[Apt!Release]
      BY <1>6, <1>14 DEF SignedBefore
    <3>1. n = EndLength BY <1>10, <1>17
    <3>2. ~MarkerAhead(files) BY <1>10, <1>16, <3>1
    <3>3. Apt!Release \in DOMAIN files BY <1>17, <3>1
    <3>4. Apt!Marker \in DOMAIN files BY <3>3 DEF AptFiles
    <3>5. Apt!InRelease \in DOMAIN files /\ files[Apt!InRelease].of = files[Apt!Release]
      BY <3>2, <3>3, <3>4 DEF MarkerAhead
    <3> QED BY <1>17, <3>1, <3>5
  <2>2. MarkerCurrent' => ~MarkerAhead(files)'
    <3> SUFFICES ASSUME MarkerCurrent' PROVE ~MarkerAhead(files)' OBVIOUS
    <3>1. Len(h.plan) >= EndLength BY <1>12, <1>13, <1>14 DEF MarkerCurrent
    <3>2. n > EndLength BY <1>10, <1>17, <3>1
    <3>3. ~MarkerAhead(files) BY <1>10, <1>16, <3>2
    <3> QED BY <1>6, <1>17, <3>2, <3>3 DEF MarkerAhead
  <2> QED BY <1>12, <1>13, <1>17, <2>1, <2>2 DEF AptRuns
<1>18. /\ Apt!Marker # Apt!Release /\ Apt!Marker # Apt!InRelease /\ Apt!Release # Apt!InRelease
       /\ Apt!Marker[1] # "by-hash" /\ Apt!Release[1] # "by-hash" /\ Apt!InRelease[1] # "by-hash"
  BY DEF Apt!Marker, Apt!Release, Apt!InRelease
<1>19. \A k, w : WriteFile(k, w).op = "put" /\ WriteFile(k, w).key = k BY DEF WriteFile
<1>20. n <= EndLength => s.op = "put" /\ (n = EndLength => s.key = Apt!Marker)
  <2> SUFFICES ASSUME n <= EndLength PROVE s.op = "put" /\ (n = EndLength => s.key = Apt!Marker) OBVIOUS
  <2>1. s = LastStep(g, n) BY <1>10
  <2>2. CASE n = EndLength
    <3>1. s = WriteFile(Apt!Marker, Apt!appendPackagesEntry(g.got)) BY <1>10, <2>1, <2>2 DEF LastStep
    <3> QED BY <1>19, <3>1
  <2>3. CASE n # EndLength
    <3>1. \E k, w : s = WriteFile(k, w) BY <1>10, <2>1, <2>3 DEF LastStep
    <3> QED BY <1>19, <2>3, <3>1
  <2> QED BY <2>2, <2>3
<1>21. CASE s.op = "put"
  <2>1. /\ files' = Put(files, s.key, s.val)
        /\ prev' = prev \/ (Apt!Release \in DOMAIN files /\ prev' = files[Apt!Release].names)
    BY <1>6, <1>21 DEF Effect
  <2>2. AptFiles' BY <1>1, <1>2, <1>6, <1>7, <1>8, <1>21, <2>1, AptPut
  <2>3. more = << >> /\ more \in Seq({}) /\ Len(more) = 0 BY <1>3, <1>21
  <2>4. \A k : k # s.key => Kept(k)
    BY <2>1 DEF Put
  <2>5. n > EndLength => s.key \notin {Apt!Marker, Apt!Release, Apt!InRelease}
    <3>1. CASE n <= EndLength BY <1>10, <3>1
    <3>2. CASE ~(n <= EndLength) BY ONLY <1>10, <1>21, <3>2
    <3> QED BY <3>1, <3>2
  <2>6. Apt!Marker \in DOMAIN files' /\ n > EndLength => Apt!Marker \in DOMAIN files /\ files'[Apt!Marker] = files[Apt!Marker]
    BY <2>4, <2>5
  <2>7. EndInOrder(h)' /\ Len(h.plan) = Len(more) + n - 1
    <3>1. /\ g \in GenRecord(Range(g.plan)) /\ g.plan # << >> /\ g.phase = "write" /\ EndInOrder(g)
          /\ UNCHANGED <<eco, signed>> /\ EndLength \in {2, 4} /\ more = << >>
          /\ h = [g EXCEPT !.plan = more \o Tail(@)] /\ n = Len(g.plan)
      BY ONLY <1>4, <1>5, <1>6, <1>7, <1>8, <1>10, <1>11, <2>3
    <3>2. Len(g.plan) > EndLength /\ Apt!Marker \in DOMAIN files' =>
             Apt!Marker \in DOMAIN files /\ files'[Apt!Marker] = files[Apt!Marker]
      BY ONLY <2>6, <3>1
    <3> QED BY ONLY <3>1, <3>2, TailShift
  <2>8. n > EndLength => \A k \in {Apt!Marker, Apt!Release, Apt!InRelease} : Kept(k) BY <2>4, <2>5
  <2>9. n = EndLength => \A k \in {Apt!Release, Apt!InRelease} : Kept(k) BY <1>10, <1>18, <1>20, <2>4
  <2> HIDE DEF Kept
  <2> QED BY <1>17, <2>2, <2>3, <2>7, <2>8, <2>9
<1>22. n > EndLength \/ s.op = "put" BY <1>10, <1>20
<1>23. CASE s.op = "del"
  <2>1. n > EndLength /\ ~(n <= EndLength) /\ n # EndLength BY <1>10, <1>22, <1>23
  <2>2. s.key[1] = "by-hash" /\ (Apt!Marker \in DOMAIN files => s.key \notin Apt!Copies(files[Apt!Marker]))
    <3>1. Apt!Marker \in DOMAIN files => s.key \notin Apt!Copies(files[Apt!Marker]) BY ONLY <1>10, <1>23, <2>1
    <3> QED BY <1>7, <1>23, <3>1 DEF Dooms
  <2>3. files' = [k \in DOMAIN files \ {s.key} |-> files[k]] /\ prev' = {}
    BY <1>6, <1>23 DEF Effect
  <2>4. \A k : k # s.key => Kept(k) BY <2>3
  <2>5. \A k \in {Apt!Marker, Apt!Release, Apt!InRelease} : Kept(k) BY <1>18, <2>2, <2>4
  <2>6. more = << >> /\ more \in Seq({}) /\ Len(more) = 0 BY <1>3, <1>23
  <2>7. EndInOrder(h)' /\ Len(h.plan) = Len(more) + n - 1
    <3>1. /\ g \in GenRecord(Range(g.plan)) /\ g.plan # << >> /\ g.phase = "write" /\ EndInOrder(g)
          /\ UNCHANGED <<eco, signed>> /\ EndLength \in {2, 4} /\ more = << >>
          /\ h = [g EXCEPT !.plan = more \o Tail(@)] /\ n = Len(g.plan)
      BY ONLY <1>4, <1>5, <1>6, <1>7, <1>8, <1>10, <1>11, <2>6
    <3>2. Len(g.plan) > EndLength /\ Apt!Marker \in DOMAIN files' =>
             Apt!Marker \in DOMAIN files /\ files'[Apt!Marker] = files[Apt!Marker]
      BY ONLY <2>5, <3>1
    <3> QED BY ONLY <3>1, <3>2, TailShift
  <2>8. ~MarkerAhead(files) BY <1>10, <1>16, <2>1
  <2>9. AptFiles'
    <3>1. /\ Apt!Release \in DOMAIN files => Apt!Copies(files[Apt!Release].names) \subseteq DOMAIN files
          /\ Apt!InRelease \in DOMAIN files => Apt!Copies(files[Apt!InRelease].of.names) \subseteq DOMAIN files
          /\ Apt!InRelease \in DOMAIN files => Apt!Release \in DOMAIN files
          /\ Apt!Release \in DOMAIN files => Apt!Marker \in DOMAIN files
      BY DEF AptFiles, ReleaseResolves
    <3>2. Apt!Release \in DOMAIN files => files[Apt!Marker] = files[Apt!Release].names
      BY <2>8, <3>1 DEF MarkerAhead
    <3>3. Apt!InRelease \in DOMAIN files => files[Apt!InRelease].of = files[Apt!Release]
      <4>1. Apt!InRelease \in DOMAIN files => signed BY DEF NeverWritten
      <4> QED BY <2>8, <3>1, <4>1 DEF MarkerAhead
    <3>4. \A V : V \subseteq DOMAIN files /\ s.key \notin V => V \subseteq DOMAIN files' BY <2>3
    <3>5. Apt!Release \in DOMAIN files' => Apt!Copies(files'[Apt!Release].names) \subseteq DOMAIN files'
      <4> SUFFICES ASSUME Apt!Release \in DOMAIN files' PROVE Apt!Copies(files'[Apt!Release].names) \subseteq DOMAIN files' OBVIOUS
      <4>1. Apt!Release \in DOMAIN files /\ files'[Apt!Release] = files[Apt!Release] BY <2>5
      <4>2. s.key \notin Apt!Copies(files[Apt!Release].names) BY <2>2, <3>1, <3>2, <4>1
      <4> QED BY <3>1, <3>4, <4>1, <4>2
    <3>6. Apt!InRelease \in DOMAIN files' => Apt!Copies(files'[Apt!InRelease].of.names) \subseteq DOMAIN files'
      <4> SUFFICES ASSUME Apt!InRelease \in DOMAIN files' PROVE Apt!Copies(files'[Apt!InRelease].of.names) \subseteq DOMAIN files' OBVIOUS
      <4>1. Apt!InRelease \in DOMAIN files /\ files'[Apt!InRelease] = files[Apt!InRelease] BY <2>5
      <4>2. s.key \notin Apt!Copies(files[Apt!InRelease].of.names) BY <2>2, <3>1, <3>2, <3>3, <4>1
      <4> QED BY <3>1, <3>4, <4>1, <4>2
    <3>7. /\ Apt!InRelease \in DOMAIN files' => Apt!Release \in DOMAIN files'
          /\ Apt!Release \in DOMAIN files' => Apt!Marker \in DOMAIN files'
      BY <2>5, <3>1
    <3> QED BY <2>3, <3>5, <3>6, <3>7 DEF AptFiles, ReleaseResolves
  <2> HIDE DEF Kept
  <2> QED BY <1>17, <2>1, <2>5, <2>6, <2>7, <2>9
<1>24. CASE s.op = "gc"
  <2>1. n > EndLength /\ n # EndLength BY <1>10, <1>22, <1>24
  <2>2. files' = files /\ prev' = prev BY <1>6, <1>24 DEF Effect
  <2>3. \A k : Kept(k) BY <2>2
  <2>4. more = Apt!gcByHash(files, s.val) BY <1>3, <1>24
  <2>5. /\ more \in Seq(Range(more))
        /\ \A d \in Range(more) : d = DeleteFile(d.key) /\ d.key \notin Apt!readRetainedHashes(files, s.val)
    BY <1>11, <2>4, CollectSteps
  <2>6. Len(more) \in Nat /\ \A i \in 1 .. Len(more) : more[i] \in Range(more) BY <2>5 DEF Range
  <2>7. \A d \in Range(more) :
            d.op = "del" /\ (Apt!Marker \in DOMAIN files' => d.key \notin Apt!Copies(files'[Apt!Marker]))
    BY <2>2, <2>5 DEF DeleteFile, Apt!readRetainedHashes
  <2>8. \A i \in 1 .. Len(more) :
            more[i].op = "del" /\ (Apt!Marker \in DOMAIN files' => more[i].key \notin Apt!Copies(files'[Apt!Marker]))
    BY <2>6, <2>7
  <2>9. EndInOrder(h)' /\ Len(h.plan) = Len(more) + n - 1
    BY <1>4, <1>5, <1>6, <1>7, <1>8, <1>10, <1>11, <2>1, <2>2, <2>5, <2>8, PlanShift
  <2>10. AptFiles' BY <1>6, <2>2, SameAptFiles
  <2> HIDE DEF Kept
  <2> QED BY <1>17, <2>1, <2>3, <2>6, <2>9, <2>10
<1> QED BY <1>7, <1>21, <1>23, <1>24

\* A late failure of a Commit: the file is there, the generation is not.
LEMMA AptLate ==
    ASSUME GenInv, eco = "apt", ~torn, AptFiles, AptRuns, NEW r \in Runners, CommitFailsLate(r), ~torn'
    PROVE  AptFiles' /\ AptRuns'
<1>1. PICK g, s : g = run[r] /\ s = Head(g.plan) OBVIOUS
<1>2. /\ g.phase = "write" /\ g.plan # << >> /\ s.op = "put" /\ files' = Put(files, s.key, s.val)
      /\ Goes(r, Idle) /\ torn' = (torn \/ MarkerAhead(files')) /\ UNCHANGED <<eco, signed, prev>>
  BY <1>1 DEF CommitFailsLate, Fails
<1>3. r \in Active BY <1>1, <1>2 DEF Active
<1>4. g.alone /\ EndInOrder(g) BY <1>1, <1>3 DEF AptRuns
<1>5. Active = {r} BY <1>1, <1>3, <1>4, OneActive
<1>6. AptFiles' BY <1>1, <1>2, <1>4, AptPut
<1>7. Active' = {}
  <2>1. DOMAIN run = Runners BY DEF GenInv, GenTypeOK
  <2>2. run'[r] = Idle /\ \A x \in Runners : x # r => run'[x] = run[x] BY <1>2, <2>1 DEF Goes
  <2> QED BY <1>5, <2>2 DEF Active, Idle
<1>8. ~MarkerAhead(files)'
  <2>1. ~MarkerAhead(files') BY <1>2
  <2> QED BY <1>2, <2>1 DEF MarkerAhead
<1> QED BY <1>6, <1>7, <1>8, NobodyWrites

\* What an apt generation that is alone leaves when it has written everything.
LEMMA AptWhole ==
    ASSUME GenInv, NeverWritten, eco = "apt", NEW r \in Runners, run[r].phase = "write", run[r].plan = << >>, run[r].alone
    PROVE  /\ Apt!Release \in DOMAIN files /\ Apt!Marker \in DOMAIN files
           /\ Apt!Copies(files[Apt!Release].names) \subseteq DOMAIN files
           /\ Apt!InRelease \in DOMAIN files => Apt!Copies(files[Apt!InRelease].of.names) \subseteq DOMAIN files
           /\ ~MarkerAhead(files)
<1>1. PICK g : g = run[r] OBVIOUS
<1>2. Written(g) /\ signed \in BOOLEAN BY <1>1, RunnerFacts DEF GenInv, GenTypeOK
<1>3. Range(g.plan) = {} BY <1>1 DEF Range
<1>4. \A s \in Range(Plan(g.got, g.stamp)) : s.op = "put" => Holds(s) BY <1>1, <1>2, <1>3 DEF Written
<1>5. PICK v : v = Apt!appendPackagesEntry(g.got) OBVIOUS
<1>6. /\ Apt!Release \in DOMAIN files /\ files[Apt!Release] = Apt!buildRelease(v, g.stamp)
      /\ Apt!Marker \in DOMAIN files /\ files[Apt!Marker] = v
      /\ Apt!Copies(v) \subseteq DOMAIN files
      /\ signed => Apt!InRelease \in DOMAIN files /\ files[Apt!InRelease] = Signature(files[Apt!Release])
  BY <1>2, <1>4, <1>5, AptDone
<1>7. files[Apt!Release].names = v BY <1>6 DEF Apt!buildRelease
<1>8. signed => files[Apt!InRelease].of = files[Apt!Release] BY <1>6 DEF Signature
<1>9. Apt!InRelease \in DOMAIN files => signed BY DEF NeverWritten
<1> QED BY <1>6, <1>7, <1>8, <1>9 DEF MarkerAhead

LEMMA AptRepairs ==
    ASSUME GenInv, NeverWritten, eco = "apt", torn, NEW r \in Runners, Finish(r), ~torn'
    PROVE  AptFiles' /\ AptRuns'
<1>1. /\ run[r].phase = "write" /\ run[r].plan = << >> /\ run[r].alone
      /\ prev' = files[Apt!Release].names /\ UNCHANGED <<eco, signed, files>>
      /\ Goes(r, [run[r] EXCEPT !.phase = "done"])
  BY DEF Finish
<1>2. /\ Apt!Release \in DOMAIN files /\ Apt!Marker \in DOMAIN files
      /\ Apt!Copies(files[Apt!Release].names) \subseteq DOMAIN files
      /\ Apt!InRelease \in DOMAIN files => Apt!Copies(files[Apt!InRelease].of.names) \subseteq DOMAIN files
      /\ ~MarkerAhead(files)
  BY <1>1, AptWhole
<1>3. AptFiles' BY <1>1, <1>2 DEF AptFiles, ReleaseResolves
<1>4. Active = {r} BY <1>1, OneActive DEF Active
<1>5. Active' = {}
  <2>1. DOMAIN run = Runners /\ run[r] \in GenRecord(Range(run[r].plan)) BY DEF GenInv, GenTypeOK
  <2>2. run'[r].phase = "done" /\ \A x \in Runners : x # r => run'[x] = run[x] BY <1>1, <2>1 DEF Goes, GenRecord
  <2> QED BY <1>4, <2>2 DEF Active
<1>6. ~MarkerAhead(files)' BY <1>1, <1>2 DEF MarkerAhead
<1> QED BY <1>3, <1>5, <1>6, NobodyWrites

\* The plan of a generation that begins to write.
LEMMA AptBuilt ==
    ASSUME GenInv, eco = "apt", NEW r \in Runners, Build(r)
    PROVE  EndInOrder(run[r])' /\ Len(run'[r].plan) > EndLength /\ run'[r].alone = run[r].alone
<1>1. PICK g, h : g = run[r] /\ h = [g EXCEPT !.phase = "write", !.plan = Plan(g.got, g.stamp)] OBVIOUS
<1>2. run'[r] = h /\ UNCHANGED <<eco, signed, files>> BY <1>1 DEF Build, Goes, GenInv, GenTypeOK
<1>3. g \in GenRecord(Range(g.plan)) /\ signed \in BOOLEAN BY <1>1, RunnerFacts DEF GenInv, GenTypeOK
<1>4. /\ h.phase = "write" /\ h.plan = Plan(g.got, g.stamp) /\ h.got = g.got /\ h.stamp = g.stamp /\ h.alone = g.alone
  BY <1>1, <1>3 DEF GenRecord
<1>5. PICK v : v = Apt!appendPackagesEntry(g.got) OBVIOUS
<1>6. PICK rel : rel = Apt!buildRelease(v, g.stamp) OBVIOUS
<1>7. PICK P : P = h.plan OBVIOUS
<1>8. P = Apt!GenerateIndexes(g.got, g.stamp, signed) BY <1>4, <1>7 DEF Plan
<1>9. /\ Len(P) = 5 + EndLength
      /\ \A i \in 1 .. 5 : P[i] \in {WriteFile(Apt!Packages, v), WriteFile(Apt!PackagesGz, v),
                     WriteFile(Apt!ByHash("plain", v), v), WriteFile(Apt!ByHash("gz", v), v), CollectOld(v)}
      /\ P[6] = WriteFile(Apt!Marker, v) /\ P[7] = WriteFile(Apt!Release, rel)
      /\ signed => P[8] = WriteFile(Apt!InRelease, Signature(rel)) /\ P[9] = WriteFile(Apt!ReleaseGpg, Signature(rel))
  BY <1>3, <1>5, <1>6, <1>8, AptPlanOrder
<1>10. EndLength \in {2, 4} /\ (signed <=> EndLength = 4) BY <1>3 DEF EndLength
<1>11. ASSUME NEW i \in 1 .. 5
       PROVE  /\ P[i].op = "put" => P[i].key \notin {Apt!Marker, Apt!Release, Apt!InRelease}
              /\ P[i].op # "del"
  <2>1. P[i] \in {WriteFile(Apt!Packages, v), WriteFile(Apt!PackagesGz, v),
                     WriteFile(Apt!ByHash("plain", v), v), WriteFile(Apt!ByHash("gz", v), v), CollectOld(v)}
    BY <1>9
  <2>2. \A k \in {Apt!Packages, Apt!PackagesGz, Apt!ByHash("plain", v), Apt!ByHash("gz", v)} :
            k \notin {Apt!Marker, Apt!Release, Apt!InRelease}
    BY DEF Apt!Packages, Apt!PackagesGz, Apt!ByHash, Apt!Marker, Apt!Release, Apt!InRelease
  <2>3. \A k, w : WriteFile(k, w).op = "put" /\ WriteFile(k, w).key = k BY DEF WriteFile
  <2>4. CollectOld(v).op = "gc" BY DEF CollectOld
  <2> QED BY <2>1, <2>2, <2>3, <2>4
<1>12. ASSUME NEW i \in 6 .. 5 + EndLength PROVE P[i] = LastStep(g, 6 + EndLength - i)
  <2>1. CASE i = 6 BY <1>5, <1>9, <1>10, <2>1 DEF LastStep
  <2>2. CASE i = 7 BY <1>5, <1>6, <1>9, <1>10, <2>2 DEF LastStep
  <2>3. CASE i > 7
    <3>1. signed /\ EndLength = 4 /\ i \in {8, 9} BY <1>10, <2>3
    <3>2. CASE i = 8 BY <1>5, <1>6, <1>9, <3>1, <3>2 DEF LastStep
    <3>3. CASE i = 9 BY <1>5, <1>6, <1>9, <3>1, <3>3 DEF LastStep
    <3> QED BY <3>1, <3>2, <3>3
  <2> QED BY <1>10, <2>1, <2>2, <2>3
<1>13. \A l : LastStep(h, l)' = LastStep(g, l) BY <1>2, <1>4 DEF LastStep, EndLength
<1>14. EndLength' = EndLength BY <1>2 DEF EndLength
<1>15. EndInOrder(h)'
  <2> DEFINE Fine(i, left) ==
               IF left <= EndLength' THEN P[i] = LastStep(h, left)'
               ELSE /\ P[i].op = "put" => P[i].key \notin {Apt!Marker, Apt!Release, Apt!InRelease}
                    /\ P[i].op = "del" /\ Apt!Marker \in DOMAIN files' => P[i].key \notin Apt!Copies(files'[Apt!Marker])
  <2>1. ASSUME NEW i \in 1 .. Len(P) PROVE Fine(i, Len(P) + 1 - i)
    <3>1. PICK left : left = Len(P) + 1 - i OBVIOUS
    <3>2. left = 6 + EndLength - i /\ i \in Int BY <1>9, <1>10, <3>1
    <3>3. CASE i <= 5
      <4>1. i \in 1 .. 5 /\ ~(left <= EndLength') BY <1>10, <1>14, <3>2, <3>3
      <4>2. Fine(i, left) BY <1>11, <4>1
      <4> QED BY <3>1, <4>2
    <3>4. CASE i > 5
      <4>1. i \in 6 .. 5 + EndLength /\ left <= EndLength' BY <1>9, <1>10, <1>14, <3>2, <3>4
      <4>2. P[i] = LastStep(h, left)' BY <1>12, <1>13, <3>2, <4>1
      <4>3. Fine(i, left) BY <4>1, <4>2
      <4> QED BY <3>1, <4>3
    <3> QED BY <3>2, <3>3, <3>4
  <2> QED BY <1>7, <2>1 DEF EndInOrder
<1> QED BY <1>1, <1>2, <1>4, <1>7, <1>9, <1>10, <1>15

\* A generation that moves on, or ends, without writing.
LEMMA AptMoves ==
    ASSUME GenInv, eco = "apt", AptFiles, AptRuns, NEW r \in Runners, NEW h, Goes(r, h),
           UNCHANGED <<eco, signed, files, prev>>,
           h.phase \in {"list", "read", "write"} => r \in Active /\ h.alone = run[r].alone,
           \/ h.phase # "write" /\ (run[r].phase # "write" \/ ~MarkerAhead(files))
           \/ EndInOrder(h)' /\ Len(h.plan) > EndLength /\ run[r].phase # "write"
    PROVE  AptFiles' /\ AptRuns'
<1>1. DOMAIN run = Runners /\ signed \in BOOLEAN BY DEF GenInv, GenTypeOK
<1>2. run'[r] = h /\ \A x \in Runners : x # r => run'[x] = run[x] BY <1>1 DEF Goes
<1>3. EndLength \in {2, 4} /\ EndLength' = EndLength BY <1>1 DEF EndLength
<1>4. ASSUME NEW x \in Active'
      PROVE  /\ run'[x].alone
             /\ \/ /\ x \in Active /\ run'[x].phase = run[x].phase /\ run'[x].plan = run[x].plan
                   /\ run'[x].got = run[x].got /\ run'[x].stamp = run[x].stamp
                \/ run'[x].phase # "write"
                \/ EndInOrder(run[x])' /\ Len(run'[x].plan) > EndLength
  <2>1. x \in Runners /\ run'[x].phase \in {"list", "read", "write"} BY DEF Active
  <2>2. CASE x = r
    <3>1. h.alone BY <1>2, <2>1, <2>2 DEF AptRuns
    <3>2. EndInOrder(h)' => EndInOrder(run[x])' BY <1>2, <2>2
    <3> QED BY <1>2, <2>2, <3>1, <3>2
  <2>3. CASE x # r
    <3>1. x \in Active /\ run'[x] = run[x] BY <1>2, <2>1, <2>3 DEF Active
    <3> QED BY <3>1 DEF AptRuns
  <2> QED BY <2>2, <2>3
<1>5. MarkerCurrent' => MarkerCurrent \/ ~MarkerAhead(files)
  <2> SUFFICES ASSUME MarkerCurrent', run[r].phase # "write" PROVE MarkerCurrent OBVIOUS
  <2> SUFFICES ASSUME NEW x \in Active, run[x].phase = "write" PROVE Len(run[x].plan) >= EndLength BY DEF MarkerCurrent
  <2>1. x # r /\ x \in Runners BY DEF Active
  <2>2. run'[x] = run[x] BY <1>2, <2>1
  <2>3. x \in Active' BY <2>1, <2>2 DEF Active
  <2> QED BY <1>3, <2>2, <2>3 DEF MarkerCurrent
<1> QED BY <1>3, <1>4, <1>5, AptFrame

LEMMA AptEdit ==
    ASSUME GenInv, AptFiles, AptRuns, NEW p, run' = Touch(p), UNCHANGED <<eco, signed, files, prev>>
    PROVE  AptFiles' /\ AptRuns'
<1>1. signed \in BOOLEAN /\ EndLength \in {2, 4} BY DEF GenInv, GenTypeOK, EndLength
<1>2. \A x \in Runners : /\ run'[x].phase = run[x].phase /\ run'[x].plan = run[x].plan /\ run'[x].got = run[x].got
                         /\ run'[x].stamp = run[x].stamp /\ run'[x].alone = run[x].alone
  <2> SUFFICES ASSUME NEW x \in Runners
               PROVE  /\ run'[x].phase = run[x].phase /\ run'[x].plan = run[x].plan /\ run'[x].got = run[x].got
                      /\ run'[x].stamp = run[x].stamp /\ run'[x].alone = run[x].alone
    OBVIOUS
  <2>1. run[x] \in GenRecord(Range(run[x].plan)) BY DEF GenInv, GenTypeOK
  <2>2. run'[x] = run[x] \/ run'[x] = [run[x] EXCEPT !.touched = @ \cup {p}] BY DEF Touch
  <2> QED BY <2>1, <2>2 DEF GenRecord
<1>3. Active' = Active BY <1>2 DEF Active
<1>4. MarkerCurrent' => MarkerCurrent
  <2>1. EndLength' = EndLength BY DEF EndLength
  <2> QED BY <1>2, <1>3, <2>1 DEF MarkerCurrent, Active
<1>5. \A x \in Active' : x \in Runners /\ x \in Active /\ run[x].alone BY <1>3 DEF Active, AptRuns
<1> QED BY <1>1, <1>2, <1>4, <1>5, AptFrame

LEMMA AptGenStep ==
    ASSUME GenInv, NeverWritten, eco = "apt", ~torn, AptFiles, AptRuns, NEW r \in Runners, GenStep(r), ~torn'
    PROVE  AptFiles' /\ AptRuns'
<1>0. PICK g : g = run[r] OBVIOUS
<1>1. g \in GenRecord(Range(g.plan)) BY <1>0, RunnerFacts
<1>2. CASE List(r)
  <2>1. PICK h : h = [g EXCEPT !.phase = "read", !.todo = Stored] OBVIOUS
  <2>2. /\ g.phase = "list" /\ Goes(r, h) /\ UNCHANGED <<eco, signed, files, prev>> BY <1>0, <1>2, <2>1 DEF List, collect
  <2>3. h.phase = "read" /\ h.alone = g.alone BY <1>1, <2>1 DEF GenRecord
  <2>4. r \in Active BY <1>0, <2>2 DEF Active
  <2> QED BY <1>0, <2>2, <2>3, <2>4, AptMoves
<1>3. CASE Read(r)
  <2>1. g.phase = "read" /\ r \in Active BY <1>0, <1>3 DEF Read, Active
  <2>2. \/ /\ \E T, G, Q : Goes(r, [g EXCEPT !.todo = T, !.got = G, !.plan = Q])
           /\ UNCHANGED <<eco, signed, files, prev>>
        \/ files' = files /\ Fails(r)
    BY <1>0, <1>3 DEF Read
  <2>3. CASE files' = files /\ Fails(r)
    <3>1. PICK h : h = Idle OBVIOUS
    <3>2. Goes(r, h) /\ UNCHANGED <<eco, signed, files, prev>> /\ h.phase = "idle" BY <2>3, <3>1 DEF Fails, Idle
    <3> QED BY <1>0, <2>1, <3>2, AptMoves
  <2>4. CASE /\ \E T, G, Q : Goes(r, [g EXCEPT !.todo = T, !.got = G, !.plan = Q])
             /\ UNCHANGED <<eco, signed, files, prev>>
    <3>3. PICK T, G, Q : Goes(r, [g EXCEPT !.todo = T, !.got = G, !.plan = Q]) BY <2>4
    <3>1. PICK h : Goes(r, h) /\ h = [g EXCEPT !.todo = T, !.got = G, !.plan = Q] BY <3>3
    <3>2. h.phase = "read" /\ h.alone = g.alone BY <1>1, <2>1, <3>1 DEF GenRecord
    <3> QED BY <1>0, <2>1, <2>4, <3>1, <3>2, AptMoves
  <2> QED BY <2>2, <2>3, <2>4
<1>4. CASE Build(r)
  <2>1. PICK h : h = [g EXCEPT !.phase = "write", !.plan = Plan(g.got, g.stamp)] OBVIOUS
  <2>2. g.phase = "read" /\ Goes(r, h) /\ UNCHANGED <<eco, signed, files, prev>> BY <1>0, <1>4, <2>1 DEF Build
  <2>3. run'[r] = h BY <2>2 DEF Goes, GenInv, GenTypeOK
  <2>4. EndInOrder(run[r])' /\ Len(run'[r].plan) > EndLength /\ run'[r].alone = run[r].alone BY <1>4, AptBuilt
  <2>5. EndInOrder(h)' /\ Len(h.plan) > EndLength /\ h.alone = run[r].alone BY <2>3, <2>4
  <2>6. r \in Active BY <1>0, <2>2 DEF Active
  <2> QED BY <1>0, <2>2, <2>5, <2>6, AptMoves
<1>5. CASE writeAtomic(r) BY <1>5, AptWrite
<1>6. CASE Finish(r)
  <2>1. PICK h : h = [g EXCEPT !.phase = "done"] OBVIOUS
  <2>2. /\ g.phase = "write" /\ g.plan = << >> /\ Goes(r, h) /\ UNCHANGED <<eco, signed, files, prev>>
    BY <1>0, <1>6, <2>1 DEF Finish
  <2>3. h.phase = "done" BY <1>1, <2>1 DEF GenRecord
  <2>4. g.alone BY <1>0, <2>2 DEF AptRuns, Active
  <2>5. ~MarkerAhead(files) BY <1>0, <2>2, <2>4, AptWhole
  <2> QED BY <1>0, <2>2, <2>3, <2>5, AptMoves
<1>7. CASE Leave(r)
  <2>1. PICK h : h = Idle OBVIOUS
  <2>2. /\ g.phase = "done" /\ Goes(r, h) /\ UNCHANGED <<eco, signed, files, prev>> /\ h.phase = "idle"
    BY <1>0, <1>7, <2>1 DEF Leave, Idle
  <2> QED BY <1>0, <2>2, AptMoves
<1> QED BY <1>2, <1>3, <1>4, <1>5, <1>6, <1>7 DEF GenStep

LEMMA AptStep == ASSUME GenInv, NeverWritten, AptInv, [IndexNext]_indexVars PROVE AptInv'
<1> SUFFICES ASSUME eco' = "apt", ~torn' PROVE AptInv' BY DEF AptInv
<1>1. eco = "apt" /\ signed' = signed
  BY DEF IndexNext, indexVars, DeletePkg, Upload, Reindex, GenStep, List, Read, Build, writeAtomic, Finish, Leave,
         Aborts, CommitFailsLate, Fails, Crash
<1>2. (AptFiles /\ AptRuns)' => AptInv'
  BY DEF AptInv, AptFiles, AptRuns, SignedBefore, TwoGenerations
<1>3. torn => \E r \in Runners : Finish(r)
  BY DEF IndexNext, indexVars, DeletePkg, Upload, Reindex, GenStep, List, Read, Build, writeAtomic, Leave,
         Aborts, CommitFailsLate, Fails, Crash
<1>4. CASE torn
  <2>1. PICK r \in Runners : Finish(r) BY <1>3, <1>4
  <2> QED BY <1>1, <1>2, <1>4, <2>1, AptRepairs
<1>5. CASE ~torn
  <2>0. AptFiles /\ AptRuns BY <1>1, <1>5, AptParts
  <2>1. ASSUME NEW p \in Pkgs, DeletePkg(p) \/ \E c \in Revs : Upload(p, c) PROVE AptFiles' /\ AptRuns'
    <3>1. run' = Touch(p) /\ UNCHANGED <<eco, signed, files, prev>> BY <2>1 DEF DeletePkg, Upload
    <3> QED BY <2>0, <3>1, AptEdit
  <2>2. ASSUME NEW r \in Runners, Reindex(r) PROVE AptFiles' /\ AptRuns'
    <3>1. Active = {} /\ UNCHANGED <<eco, signed, files, prev>> BY <2>2, <1>5 DEF Reindex
    <3>2. \A x \in Active' : run'[x].phase # "write" /\ run'[x].alone
      <4> SUFFICES ASSUME NEW x \in Runners, run'[x].phase \in {"list", "read", "write"}
                   PROVE  run'[x].phase # "write" /\ run'[x].alone
        BY DEF Active
      <4>1. run[x] \in GenRecord(Range(run[x].plan)) BY DEF GenInv, GenTypeOK
      <4>2. CASE x # r
        <5>1. run'[x].phase = run[x].phase BY <2>2, <4>1, <4>2 DEF Reindex, GenRecord
        <5> QED BY <3>1, <5>1 DEF Active
      <4>3. CASE x = r
        <5>1. run'[x] = [Idle EXCEPT !.phase = "list", !.stamp = runs + 1, !.alone = TRUE]
          BY <1>1, <2>2, <3>1, <4>3 DEF Reindex
        <5> QED BY <5>1 DEF Idle
      <4> QED BY <4>2, <4>3
    <3>3. MarkerCurrent BY <3>1 DEF MarkerCurrent
    <3>4. ~MarkerAhead(files)' BY <2>0, <3>1, <3>3 DEF AptRuns, MarkerAhead
    <3> QED BY <2>0, <3>1, <3>2, <3>4, SameAptFiles, NobodyWrites
  <2>3. ASSUME NEW r \in Runners, GenStep(r) PROVE AptFiles' /\ AptRuns'
    BY <1>1, <1>5, <2>0, <2>3, AptGenStep
  <2>4. ASSUME NEW r \in Runners, Aborts(r) PROVE AptFiles' /\ AptRuns'
    <3>1. PICK h : h = Idle OBVIOUS
    <3>2. /\ Goes(r, h) /\ UNCHANGED <<eco, signed, files, prev>> /\ h.phase = "idle" /\ ~MarkerAhead(files)
      BY <2>4, <3>1 DEF Aborts, Fails, Idle
    <3> QED BY <1>1, <2>0, <3>2, AptMoves
  <2>5. ASSUME NEW r \in Runners, CommitFailsLate(r) PROVE AptFiles' /\ AptRuns'
    BY <1>1, <1>5, <2>0, <2>5, AptLate
  <2>6. CASE Crash
    <3>1. UNCHANGED <<eco, signed, files, prev>> /\ ~MarkerAhead(files) /\ run' = [x \in Runners |-> Idle] BY <2>6 DEF Crash
    <3>2. Active' = {} BY <3>1 DEF Active, Idle
    <3>3. ~MarkerAhead(files)' BY <3>1 DEF MarkerAhead
    <3> QED BY <1>2, <2>0, <3>1, <3>2, <3>3, SameAptFiles, NobodyWrites
  <2>7. CASE UNCHANGED indexVars
    <3> USE <2>7 DEF indexVars
    <3>1. AptFiles' BY <2>0, SameAptFiles
    <3>2. AptRuns' BY <2>0 DEF AptRuns, EndInOrder, SignedBefore, LastStep, EndLength, MarkerCurrent, MarkerAhead, Active
    <3> QED BY <1>2, <3>1, <3>2
  <2> QED BY <1>2, <2>1, <2>2, <2>3, <2>4, <2>5, <2>6, <2>7 DEF IndexNext
<1> QED BY <1>4, <1>5

\* The inductive invariant behind the two generations that apt keeps.
THEOREM IndexInvariance == IndexSpec => []IndexInv
<1>1. IndexInit => AptInv
  <2> SUFFICES ASSUME IndexInit PROVE AptInv OBVIOUS
  <2>1. files = NoFiles /\ prev = {} /\ run = [r \in Runners |-> Idle] BY DEF IndexInit, StartWith
  <2>2. DOMAIN files = {} BY <2>1 DEF NoFiles
  <2>3. Active = {} BY <2>1 DEF Active, Idle
  <2> QED BY <2>1, <2>2, <2>3 DEF AptInv, TwoGenerations, ReleaseResolves, MarkerAhead
<1> QED BY <1>1, AptStep, GenInvariance, NeverWrittenAlways, PTL DEF IndexSpec, IndexInv

\* Whatever is in progress, fails or is cut short: while no generation ended
\* between its marker and its signatures and none overlapped, what the
\* published Release and InRelease name is there, and until the next collection
\* what the Release before it named (gcByHash).
THEOREM TwoGenerationsKept == IndexSpec => []TwoGenerations
<1>1. IndexInv => TwoGenerations BY DEF IndexInv, AptInv, TwoGenerations
<1> QED BY <1>1, IndexInvariance, PTL
=============================================================================
