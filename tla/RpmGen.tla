-------------------------------- MODULE RpmGen ---------------------------------
(* The rpm-md generator (mod/ecosystem/rpmmmd/gen.go): repodata/ with      *)
(* primary.xml.gz, repomd.xml and its detached signature.                  *)
EXTENDS RepoObjects

Primary == <<"rpm", "primary.xml.gz">>
Repomd == <<"rpm", "repomd.xml">>
RepomdAsc == <<"rpm", "repomd.xml.asc">>

\* The name up to the version; the architecture is not a part of it.
ObjectFamily(p) == Family[p]

\* The lead, the signature and the header of an .rpm.
ParseRPMHeader(p, o) == IF o.rev \in Broken THEN {} ELSE {<<p, o.rev>>}

\* Every package read becomes a <package>, whatever its architecture.
appendPrimaryEntry(got) == got
buildRepomd(v, stamp) == [names |-> v, stamp |-> stamp]

\* Mutant: the signature is made over a repomd.xml built a second time.
SignsAnother(got, stamp, signed) ==
    LET v == appendPrimaryEntry(got)  md == buildRepomd(v, stamp) IN
    << WriteFile(Primary, v), WriteFile(Repomd, md) >>
    \o IF signed THEN << WriteFile(RepomdAsc, Signature(buildRepomd(v, stamp + 1))) >> ELSE << >>

GenerateIndexes(got, stamp, signed) ==
    LET v == appendPrimaryEntry(got)  md == buildRepomd(v, stamp) IN
    << WriteFile(Primary, v), WriteFile(Repomd, md) >>
    \o IF signed THEN << WriteFile(RepomdAsc, Signature(md)) >> ELSE << >>

Index(files, a) == IF Primary \in DOMAIN files THEN files[Primary] ELSE {}

Verifies(files, signed) ==
    /\ {Primary, Repomd} \subseteq DOMAIN files
    /\ files[Repomd].names = files[Primary]
    /\ signed => RepomdAsc \in DOMAIN files /\ files[RepomdAsc] = Signature(files[Repomd])
=============================================================================
