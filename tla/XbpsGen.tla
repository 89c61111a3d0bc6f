-------------------------------- MODULE XbpsGen --------------------------------
(* The xbps generator (mod/ecosystem/xbps/gen.go): <arch>-repodata per     *)
(* native architecture and two detached signatures per package.            *)
EXTENDS RepoObjects

Repodata(a) == <<"repodata", a>>
Sig2(p) == <<"sig2", p>>
Sig(p) == <<"sig", p>>

\* The name in pkgver.
ObjectFamily(p) == Family[p]

\* props.plist of a package, and the record made of it.
OpenPackage(o) == o.rev \notin Broken
readPackage(p, o) == IF OpenPackage(o) THEN {<<p, o.rev>>} ELSE {}

CompareXbpsVer(p, q) == Version[p] - Version[q]

\* One record per name, whatever the architecture: the newest version, of
\* equals the first key.
Newer(g, h) == CompareXbpsVer(g[1], h[1]) > 0 \/ (CompareXbpsVer(g[1], h[1]) = 0 /\ g[1] < h[1])
dedupeRecords(got) == {g \in got : \A h \in got : Family[h[1]] = Family[g[1]] /\ h # g => Newer(g, h)}

\* The native architectures; noarch records go into each of them.
groupByArch(got, a) == Named(got, a) \cup Named(got, "all")

\* Every package found is signed, also one that is not in the index.
Signatures(got) ==
    LET recs == CHOOSE q \in [1 .. Cardinality(got) -> got] :
                    \A i, j \in 1 .. Cardinality(got) : i < j => q[i][1] < q[j][1]
    IN
    [n \in 1 .. 2 * Cardinality(got) |->
        LET g == recs[(n + 1) \div 2] IN
        WriteFile(IF n % 2 = 1 THEN Sig2(g[1]) ELSE Sig(g[1]), g[2])]

\* The index, and the key and signature type when there is a signer.
buildMetaPlist(signed) == IF signed THEN {"rsa"} ELSE {}
buildRepodata(index, signed) == [names |-> index, meta |-> buildMetaPlist(signed)]

GenerateIndexes(got, stamp, signed) ==
    LET recs == dedupeRecords(got)
        archs == SetToSeq(Arches(recs) \ {"all"})
    IN  [n \in 1 .. Len(archs) |->
            WriteFile(Repodata(archs[n]), buildRepodata(groupByArch(recs, archs[n]), signed))]
        \o IF signed THEN Signatures(got) ELSE << >>

Index(files, a) == IF Repodata(a) \in DOMAIN files THEN files[Repodata(a)].names ELSE {}

\* Both signatures of a package that the index of one of the architectures A
\* names are over the bytes the index names.
Verifies(files, signed, A) ==
    signed => \A a \in A \ {"all"} : \A g \in Index(files, a) :
        /\ {Sig(g[1]), Sig2(g[1])} \subseteq DOMAIN files
        /\ files[Sig(g[1])] = g[2] /\ files[Sig2(g[1])] = g[2]
=============================================================================
