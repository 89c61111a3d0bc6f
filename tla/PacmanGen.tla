------------------------------- MODULE PacmanGen -------------------------------
(* The pacman generator (mod/ecosystem/pacman/gen.go): <repo>.db and its   *)
(* detached signature.                                                     *)
EXTENDS RepoObjects

Db == <<"pacman", "db">>
DbSig == <<"pacman", "db.sig">>

\* The name up to the version; the architecture is not a part of it.
ObjectFamily(p) == Family[p]

\* .PKGINFO of a package, and the desc record made of it.
readPkgInfoFromPackage(o) == o.rev \notin Broken
buildDescEntry(p, o) == IF readPkgInfoFromPackage(o) THEN {<<p, o.rev>>} ELSE {}

ComparePkgVer(p, q) == Version[p] - Version[q]

\* One record per name: the newest version, of equals the first key.
Newer(g, h) == ComparePkgVer(g[1], h[1]) > 0 \/ (ComparePkgVer(g[1], h[1]) = 0 /\ g[1] < h[1])
dedupeDescs(got) == {g \in got : \A h \in got : Family[h[1]] = Family[g[1]] /\ h # g => Newer(g, h)}

\* Mutant: with no packages there is nothing to write.
NothingToWrite(got, stamp, signed) ==
    IF got = {} THEN << >> ELSE << WriteFile(Db, dedupeDescs(got)), WriteFile(DbSig, Signature(dedupeDescs(got))) >>

GenerateIndexes(got, stamp, signed) ==
    LET v == dedupeDescs(got) IN
    << WriteFile(Db, v) >> \o IF signed THEN << WriteFile(DbSig, Signature(v)) >> ELSE << >>

Index(files, a) == IF Db \in DOMAIN files THEN files[Db] ELSE {}

Verifies(files, signed) ==
    /\ Db \in DOMAIN files
    /\ signed => DbSig \in DOMAIN files /\ files[DbSig] = Signature(files[Db])
=============================================================================
