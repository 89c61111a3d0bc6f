-------------------------------- MODULE ApkGen ---------------------------------
(* The apk generator (mod/ecosystem/apk/gen.go): one APKINDEX.tar.gz per   *)
(* architecture, with the signature inside it.                             *)
EXTENDS RepoObjects

ApkIndex(a) == <<"apkindex", a>>

\* The name up to the version; the architecture is not a part of it.
ObjectFamily(p) == Family[p]

\* .PKGINFO in the control section of a package, and the record made of it.
readPkgInfoFromPackage(o) == o.rev \notin Broken
readIndexEntry(p, o) == IF readPkgInfoFromPackage(o) THEN {<<p, o.rev>>} ELSE {}

\* A package outside the directory of its architecture is skipped.
Placed(got) == {g \in got : Dir[g[1]] = Arch[g[1]]}

\* An index per architecture met; the records of noarch go into each of them.
buildIndex(got, a, signed) ==
    [names |-> Named(Placed(got), a) \cup Named(Placed(got), "all"), signed |-> signed]

GenerateIndexes(got, stamp, signed) ==
    LET archs == SetToSeq(Arches(Placed(got))) IN
    [n \in 1 .. Len(archs) |-> WriteFile(ApkIndex(archs[n]), buildIndex(got, archs[n], signed))]

Index(files, a) == IF ApkIndex(a) \in DOMAIN files THEN files[ApkIndex(a)].names ELSE {}
=============================================================================
