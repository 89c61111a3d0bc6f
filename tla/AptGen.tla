-------------------------------- MODULE AptGen ---------------------------------
(* The apt generator (mod/ecosystem/apt/gen.go): one distribution, one     *)
(* component, binary-amd64.  Clients follow Release to copies of the       *)
(* indexes that are named by their hash.                                   *)
EXTENDS RepoObjects

Packages == <<"apt", "packages">>
PackagesGz == <<"apt", "packages.gz">>
Release == <<"apt", "release">>
InRelease == <<"apt", "inrelease">>
ReleaseGpg == <<"apt", "release.gpg">>
Marker == <<"apt", ".retained">>
ByHash(form, v) == <<"by-hash", form, v>>
Copies(v) == {ByHash("plain", v), ByHash("gz", v)}

\* The directory of the source in the pool, so all binary packages of a source.
ObjectFamily(p) == Dir[p]

\* A .deb is an ar archive with a compressed tar that has a control file.
newArReader(o) == o.rev \notin Broken
readControl(p, o) == IF newArReader(o) THEN {<<p, o.rev>>} ELSE {}

\* amd64 and all; a package of another architecture is skipped.
appendPackagesEntry(got) == {g \in got : Arch[g[1]] \in {"amd64", "all"}}

\* Release names the hashes of both indexes and the time.
buildRelease(v, stamp) == [names |-> v, stamp |-> stamp]

\* Mutant: the previous generation is not kept.
KeptCurrent(files, v) == Copies(v)

\* The copies to keep: the ones of this generation and those of the marker.  A
\* marker that is not there or does not parse keeps nothing.
readRetainedHashes(files, v) ==
    Copies(v) \cup (IF Marker \in DOMAIN files THEN Copies(files[Marker]) ELSE {})

\* gcByHash: every other copy under by-hash/ is deleted, one after the other.
gcByHash(files, v) ==
    LET stale == {k \in DOMAIN files : k[1] = "by-hash"} \ readRetainedHashes(files, v)
    IN  [n \in 1 .. Cardinality(stale) |-> DeleteFile(SetToSeq(stale)[n])]

\* The order of the writes: the indexes, their copies by hash, the collection
\* of older copies and the marker, then Release and its signatures.
GenerateIndexes(got, stamp, signed) ==
    LET v == appendPackagesEntry(got)  rel == buildRelease(v, stamp) IN
    << WriteFile(Packages, v), WriteFile(PackagesGz, v),
       WriteFile(ByHash("plain", v), v), WriteFile(ByHash("gz", v), v),
       CollectOld(v), WriteFile(Marker, v), WriteFile(Release, rel) >>
    \o IF signed THEN << WriteFile(InRelease, Signature(rel)), WriteFile(ReleaseGpg, Signature(rel)) >>
       ELSE << >>

Index(files, a) ==
    IF Packages \in DOMAIN files /\ a \in {"amd64", "all"} THEN files[Packages] ELSE {}

\* The chain a client checks: Release over the index, signatures over Release.
Verifies(files, signed) ==
    /\ {Packages, PackagesGz, Release} \subseteq DOMAIN files
    /\ files[Release].names = files[Packages] /\ files[PackagesGz] = files[Packages]
    /\ Copies(files[Packages]) \subseteq DOMAIN files
    /\ signed => /\ {InRelease, ReleaseGpg} \subseteq DOMAIN files
                 /\ files[InRelease] = Signature(files[Release])
                 /\ files[ReleaseGpg] = Signature(files[Release])
=============================================================================
