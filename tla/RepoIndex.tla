------------------------------- MODULE RepoIndex -------------------------------
(***************************************************************************)
(* Generation of the indexes of a personal repository                      *)
(* (publish.Engine.Reindex and the generators in mod/ecosystem).           *)
(*                                                                         *)
(* A generation lists the packages, reads them one by one, and then writes *)
(* its files one by one, each atomically.  Users upload and delete all the *)
(* while, a step may fail, the process may die, and two generations may    *)
(* overlap: POST /reindex is a task keyed by the name of the repository,   *)
(* the retention pass reindexes outside that key.                          *)
(***************************************************************************)
EXTENDS RepoObjects

CONSTANTS
    Ecosystems,  \* the ecosystems to run
    Signers,     \* whether a signer may be injected, a set of Booleans
    Runners,     \* generations that may be in progress at the same time
    MaxRuns,     \* bound: generations started
    MaxEdits     \* bound: uploads and deletions

ASSUME IndexAssumption ==
    /\ Ecosystems \subseteq {"apt", "rpm-md", "pacman", "apk", "xbps", "nix"}
    /\ Signers \subseteq BOOLEAN /\ MaxRuns \in Nat /\ MaxEdits \in Nat

VARIABLES
    eco, signed,  \* the ecosystem, and whether a signer has been injected
    pool,         \* the packages in the storage
    files,        \* the generated files in the storage
    run,          \* the generations in progress
    runs, edits,
    prev,         \* history: what the Release before the current one named,
                  \* until a later generation collects it
    torn          \* history: a generation ended between its marker and its
                  \* signatures, or overlapped, since the last good one

indexVars == <<eco, signed, pool, files, run, runs, edits, prev, torn>>

Apt == INSTANCE AptGen
Rpm == INSTANCE RpmGen
Pacman == INSTANCE PacmanGen
Apk == INSTANCE ApkGen
Xbps == INSTANCE XbpsGen
Nix == INSTANCE NixGen

Idle == [phase |-> "idle", todo |-> {}, got |-> {}, plan |-> << >>, stamp |-> 0,
         touched |-> {}, alone |-> TRUE]

Plan(got, stamp) ==
    CASE eco = "apt" -> Apt!GenerateIndexes(got, stamp, signed)
      [] eco = "rpm-md" -> Rpm!GenerateIndexes(got, stamp, signed)
      [] eco = "pacman" -> Pacman!GenerateIndexes(got, stamp, signed)
      [] eco = "apk" -> Apk!GenerateIndexes(got, stamp, signed)
      [] eco = "xbps" -> Xbps!GenerateIndexes(got, stamp, signed)
      [] OTHER -> << >>

Put(f, k, v) == [x \in DOMAIN f \cup {k} |-> IF x = k THEN v ELSE f[x]]

\* The files that a generation has written when all its steps are done.
AllPut(Steps) ==
    LET puts == {s \in Steps : s.op = "put"}
    IN  [k \in {s.key : s \in puts} |-> (CHOOSE s \in puts : s.key = k).val]

\* A repository with the packages pkgs, and the indexes generated from them.
StartWith(pkgs) ==
    /\ eco \in Ecosystems /\ signed \in Signers
    /\ pool = [p \in Pkgs |-> IF p \in pkgs THEN [rev |-> 1, own |-> FALSE] ELSE Absent]
    /\ files = IF pkgs = {} THEN NoFiles ELSE AllPut(Range(Plan({<<p, 1>> : p \in pkgs}, 0)))
    /\ run = [r \in Runners |-> Idle]
    /\ runs = 0 /\ edits = 0 /\ prev = {} /\ torn = FALSE
IndexInit == StartWith({})

Stored == {p \in Pkgs : pool[p] # Absent}
Active == {r \in Runners : run[r].phase \in {"list", "read", "write"}}

\* The generations in progress learn, for the history only, that p has changed.
Touch(p) == [r \in Runners |-> IF run[r].phase # "idle" THEN [run[r] EXCEPT !.touched = @ \cup {p}] ELSE run[r]]

-----------------------------------------------------------------------------
(* Users                                                                   *)

\* Any bytes are accepted: what they are is found out by the generator.
Upload(p, c) ==
    /\ edits < MaxEdits /\ edits' = edits + 1
    /\ pool[p] # [rev |-> c, own |-> FALSE]
    /\ pool' = [pool EXCEPT ![p] = [rev |-> c, own |-> FALSE]]
    /\ run' = Touch(p)
    /\ UNCHANGED <<eco, signed, files, runs, prev, torn>>

DeletePkg(p) ==
    /\ edits < MaxEdits /\ edits' = edits + 1
    /\ p \in Stored
    /\ pool' = [pool EXCEPT ![p] = Absent]
    /\ run' = Touch(p)
    /\ UNCHANGED <<eco, signed, files, runs, prev, torn>>

-----------------------------------------------------------------------------
(* A generation                                                            *)

Goes(r, s) == run' = [run EXCEPT ![r] = s]

\* Without a signer the nix publisher has nothing to do.
Reindex(r) ==
    /\ run[r].phase = "idle" /\ runs < MaxRuns
    /\ runs' = runs + 1
    /\ run' = [x \in Runners |->
                  IF x = r THEN [Idle EXCEPT !.phase = IF eco = "nix" /\ ~signed THEN "idle" ELSE "list",
                                             !.stamp = runs + 1, !.alone = (Active = {})]
                  ELSE IF run[x].phase # "idle" THEN [run[x] EXCEPT !.alone = FALSE] ELSE run[x]]
    /\ torn' = (torn \/ Active # {})
    /\ UNCHANGED <<eco, signed, pool, files, edits, prev>>

\* What is left behind when a generation ends early: its marker may be ahead
\* of the Release that is published.
MarkerAhead(f) ==
    /\ eco = "apt" /\ Apt!Marker \in DOMAIN f /\ Apt!Release \in DOMAIN f
    /\ \/ f[Apt!Marker] # f[Apt!Release].names
       \/ signed /\ (Apt!InRelease \in DOMAIN f => f[Apt!InRelease].of # f[Apt!Release])

Fails(r) ==
    /\ Goes(r, Idle)
    /\ torn' = (torn \/ MarkerAhead(files'))
    /\ UNCHANGED <<eco, signed, pool, runs, edits, prev>>

\* Mutant: an error of the listing is taken for the end of it.
ListedSoFar(r) ==
    \E part \in SUBSET Stored : Goes(r, [run[r] EXCEPT !.phase = "read", !.todo = part])

\* collectDebs, collectRpms, ...: a listing that fails ends the generation,
\* an incomplete one would be written over a good index.
collect(r) == Goes(r, [run[r] EXCEPT !.phase = "read", !.todo = Stored])

List(r) ==
    /\ run[r].phase = "list"
    /\ collect(r)
    /\ UNCHANGED <<eco, signed, pool, files, runs, edits, prev, torn>>

\* The next key in order: Get, hash, parse.  A package that has been deleted
\* since the listing, or does not parse, ends the generation.
Next1(r) == CHOOSE p \in run[r].todo : \A q \in run[r].todo : p <= q
ReadPackage(p) ==
    IF pool[p] = Absent THEN {} ELSE
    CASE eco = "apt" -> Apt!readControl(p, pool[p]) [] eco = "rpm-md" -> Rpm!ParseRPMHeader(p, pool[p])
      [] eco = "pacman" -> Pacman!buildDescEntry(p, pool[p]) [] eco = "apk" -> Apk!readIndexEntry(p, pool[p])
      [] eco = "xbps" -> Xbps!readPackage(p, pool[p]) [] OTHER -> Nix!ParseNarinfo(p, pool[p])
Read(r) ==
    /\ run[r].phase = "read" /\ run[r].todo # {} /\ run[r].plan = << >>
    /\ LET p == Next1(r) IN
       IF ReadPackage(p) # {}
       THEN /\ Goes(r, [run[r] EXCEPT !.todo = @ \ {p}, !.got = @ \cup ReadPackage(p),
                                      !.plan = IF eco = "nix" THEN Nix!resignNarinfo(p, pool[p]) ELSE << >>])
            /\ UNCHANGED <<eco, signed, pool, files, runs, edits, prev, torn>>
       ELSE files' = files /\ Fails(r)

Build(r) ==
    /\ run[r].phase = "read" /\ run[r].todo = {} /\ run[r].plan = << >>
    /\ Goes(r, [run[r] EXCEPT !.phase = "write", !.plan = Plan(run[r].got, run[r].stamp)])
    /\ UNCHANGED <<eco, signed, pool, files, runs, edits, prev, torn>>

\* writeAtomic: Put, Write and Commit make the file visible at once.
Effect(s) ==
    /\ files' = CASE s.op = "put" -> Put(files, s.key, s.val)
                  [] s.op = "del" -> [k \in DOMAIN files \ {s.key} |-> files[k]]
                  [] OTHER -> files
    /\ prev' = IF s.op = "put" /\ s.key = Apt!Release /\ Apt!Release \in DOMAIN files
               THEN files[Apt!Release].names
               ELSE IF s.op = "del" THEN {} ELSE prev
    /\ pool' = IF s.op = "sign" THEN [pool EXCEPT ![s.pkg] = [rev |-> s.rev, own |-> TRUE]] ELSE pool

writeAtomic(r) ==
    /\ run[r].plan # << >>
    /\ LET s == Head(run[r].plan)
           more == IF s.op = "gc" THEN Apt!gcByHash(files, s.val) ELSE << >>
       IN  Effect(s) /\ Goes(r, [run[r] EXCEPT !.plan = more \o Tail(@)])
    /\ UNCHANGED <<eco, signed, runs, edits, torn>>

\* An error of the storage, of the signer, or a cancelled context ends the
\* generation where it is; a Commit may have made its file visible all the same.
Aborts(r) ==
    /\ r \in Active
    /\ files' = files
    /\ Fails(r)
CommitFailsLate(r) ==
    /\ run[r].phase = "write" /\ run[r].plan # << >> /\ Head(run[r].plan).op = "put"
    /\ files' = Put(files, Head(run[r].plan).key, Head(run[r].plan).val)
    /\ Fails(r)

\* A generation that ends well, with no other beside it, puts things right.
Finish(r) ==
    /\ run[r].phase = "write" /\ run[r].plan = << >>
    /\ Goes(r, [run[r] EXCEPT !.phase = "done"])
    /\ torn' = (torn /\ ~run[r].alone)
    /\ prev' = IF torn /\ run[r].alone /\ eco = "apt" THEN files[Apt!Release].names ELSE prev
    /\ UNCHANGED <<eco, signed, pool, files, runs, edits>>
Leave(r) ==
    /\ run[r].phase = "done" /\ Goes(r, Idle)
    /\ UNCHANGED <<eco, signed, pool, files, runs, edits, prev, torn>>

Crash ==
    /\ Active # {}
    /\ run' = [r \in Runners |-> Idle]
    /\ torn' = (torn \/ MarkerAhead(files))
    /\ UNCHANGED <<eco, signed, pool, files, runs, edits, prev>>

GenStep(r) == List(r) \/ Read(r) \/ Build(r) \/ writeAtomic(r) \/ Finish(r) \/ Leave(r)

IndexNext ==
    \/ \E p \in Pkgs : DeletePkg(p) \/ \E c \in Revs : Upload(p, c)
    \/ \E r \in Runners : Reindex(r) \/ GenStep(r) \/ Aborts(r) \/ CommitFailsLate(r)
    \/ Crash

IndexSpec == IndexInit /\ [][IndexNext]_indexVars

-----------------------------------------------------------------------------
(* Properties                                                              *)

\* What a client of architecture a finds in the indexes.
Index(a) ==
    CASE eco = "apt" -> Apt!Index(files, a) [] eco = "rpm-md" -> Rpm!Index(files, a)
      [] eco = "pacman" -> Pacman!Index(files, a) [] eco = "apk" -> Apk!Index(files, a)
      [] eco = "xbps" -> Xbps!Index(files, a) [] OTHER -> Nix!Index(pool)

\* The packages of an index that a client of architecture a could install; the
\* newest version of a name, whatever its architecture (README, Observations).
Usable(p, a) == Arch[p] \in {a, "all"} /\ (eco = "apk" => Dir[p] = Arch[p]) /\ (eco = "apt" => a = "amd64")
Superseded(p) ==
    \E q \in Stored : /\ Family[q] = Family[p] /\ q # p
                      /\ Version[q] > Version[p] \/ (Version[q] = Version[p] /\ q < p)
Done(r) == run[r].phase = "done" /\ run[r].alone

\* A generation that ends well and had the storage to itself lists every
\* package that was there untouched from its listing to its end, with the
\* bytes stored, for the architecture it is made for; where the client takes
\* one version of a name (pacman, xbps), the newest of them (docs: "чтобы
\* клиенты видели согласованный набор").
OneVersion == eco \in {"pacman", "xbps"}
IndexComplete ==
    \A r \in Runners : Done(r) =>
        \A p \in Stored \ run[r].touched :
            LET a == Arch[p] IN
            /\ a # "all" /\ Usable(p, a)
            /\ OneVersion => /\ ~Superseded(p)
                             /\ \A q \in run[r].touched : Family[q] # Family[p]
            => <<p, pool[p].rev>> \in Index(a)

\* The architectures whose clients read an index it has written: all of them,
\* except where there is an index for each architecture that has packages.
Rebuilt(got) ==
    CASE eco = "apk" -> Arches(Apk!Placed(got)) [] eco = "xbps" -> Arches(Xbps!dedupeRecords(got))
      [] OTHER -> {Arch[p] : p \in Pkgs}

\* ... and nothing that is not stored; the index of an architecture that has
\* lost its last package is left as it was (apk, xbps).
IndexNamesStored ==
    \A r \in Runners : Done(r) =>
        \A a \in Rebuilt(run[r].got) : \A g \in Index(a) :
            g[1] \notin run[r].touched => pool[g[1]].rev = g[2]

\* ... and its signatures and checksums are over the files beside them.
IndexVerifies ==
    \A r \in Runners : Done(r) =>
        CASE eco = "apt" -> Apt!Verifies(files, signed) [] eco = "rpm-md" -> Rpm!Verifies(files, signed)
          [] eco = "pacman" -> Pacman!Verifies(files, signed) [] eco = "xbps" -> Xbps!Verifies(files, signed, Rebuilt(run[r].got))
          [] OTHER -> TRUE

\* Whatever is in progress or has failed, the copies by hash that the
\* published Release and InRelease name are there.
ReleaseResolves ==
    eco = "apt" =>
        /\ Apt!Release \in DOMAIN files => Apt!Copies(files[Apt!Release].names) \subseteq DOMAIN files
        /\ Apt!InRelease \in DOMAIN files => Apt!Copies(files[Apt!InRelease].of.names) \subseteq DOMAIN files

\* The same, while no generation ended between its marker and its signatures
\* and none overlapped; and until the next collection also the copies that the
\* Release before the current one named (gcByHash: two generations are kept).
TwoGenerations ==
    eco = "apt" /\ ~torn =>
        /\ ReleaseResolves
        /\ prev # {} => Apt!Copies(prev) \subseteq DOMAIN files

-----------------------------------------------------------------------------
(* What the argument for these properties rests on                         *)

\* The steps of a plan come from any set that contains them.
GenRecord(Steps) ==
    [phase : {"idle", "list", "read", "write", "done"}, todo : SUBSET Pkgs, got : SUBSET (Pkgs \X Revs),
     plan : Seq(Steps), stamp : Nat, touched : SUBSET Pkgs, alone : BOOLEAN]
GenTypeOK ==
    /\ eco \in {"apt", "rpm-md", "pacman", "apk", "xbps", "nix"} /\ signed \in BOOLEAN
    /\ pool \in [Pkgs -> Object \cup {Absent}] /\ runs \in Nat
    /\ IsFiniteSet(DOMAIN files)
    /\ DOMAIN run = Runners /\ \A r \in Runners : run[r] \in GenRecord(Range(run[r].plan))

\* A generation that counts as alone is the only one in progress.
Solo == \A r, x \in Runners : r # x /\ run[r].phase # "idle" /\ run[r].alone => x \notin Active

\* A package is read once; what is left to do comes from the plan, or deletes
\* a copy that it does not write.
Dooms(g, s) ==
    /\ eco = "apt" /\ s = DeleteFile(s.key) /\ s.key[1] = "by-hash"
    /\ s.key \notin Apt!Copies(Apt!appendPackagesEntry(g.got))
Planned(g) ==
    /\ \A x, y \in g.got : x[1] = y[1] => x = y
    /\ \A x \in g.got : x[1] \notin g.todo
    /\ g.phase \in {"idle", "list"} => g.got = {}
    /\ g.phase \in {"idle", "list", "done"} => g.plan = << >>
    /\ g.phase = "read" => \A s \in Range(g.plan) : eco = "nix" /\ \E x \in g.got : s = Resign(x[1], x[2])
    /\ g.phase \in {"write", "done"} => g.todo = {}
    /\ g.phase = "write" => \A s \in Range(g.plan) : s \in Range(Plan(g.got, g.stamp)) \/ Dooms(g, s)

\* What a generation that is alone has collected is what is stored, but for
\* what users have touched.
Collected(g) ==
    g.phase \in {"read", "write", "done"} =>
        /\ \A p \in Stored \ g.touched : p \in g.todo \/ <<p, pool[p].rev>> \in g.got
        /\ \A x \in g.got : x[1] \notin g.touched =>
              /\ pool[x[1]].rev = x[2]
              /\ eco = "nix" => pool[x[1]].own \/ Resign(x[1], x[2]) \in Range(g.plan)

\* The files of its plan are written or still to be written.
Holds(s) == s.key \in DOMAIN files /\ files[s.key] = s.val
Written(g) ==
    g.phase \in {"write", "done"} =>
        \A s \in Range(Plan(g.got, g.stamp)) : s.op = "put" => s \in Range(g.plan) \/ Holds(s)

\* Files that no generation writes.
NeverWritten ==
    /\ eco = "xbps" => Xbps!Repodata("all") \notin DOMAIN files
    /\ eco = "apt" /\ ~signed => Apt!InRelease \notin DOMAIN files

GenInv ==
    /\ GenTypeOK /\ Solo
    /\ \A r \in Runners : /\ Planned(run[r])
                          /\ run[r].alone => Collected(run[r]) /\ Written(run[r])

\* The end of an apt generation: marker, Release and its signatures.
EndLength == IF signed THEN 4 ELSE 2
LastStep(g, n) ==
    LET v == Apt!appendPackagesEntry(g.got)  rel == Apt!buildRelease(v, g.stamp) IN
    CASE n = EndLength -> WriteFile(Apt!Marker, v) [] n = EndLength - 1 -> WriteFile(Apt!Release, rel)
      [] signed /\ n = 2 -> WriteFile(Apt!InRelease, Signature(rel)) [] OTHER -> WriteFile(Apt!ReleaseGpg, Signature(rel))

\* The order of the last steps, counted from the end; before them no file is
\* written that Release or the marker is one of, and no copy that the marker
\* names is deleted.
EndInOrder(g) ==
    g.phase = "write" =>
        \A i \in 1 .. Len(g.plan) :
            LET left == Len(g.plan) + 1 - i IN
            IF left <= EndLength THEN g.plan[i] = LastStep(g, left)
            ELSE /\ g.plan[i].op = "put" => g.plan[i].key \notin {Apt!Marker, Apt!Release, Apt!InRelease}
                 /\ g.plan[i].op = "del" /\ Apt!Marker \in DOMAIN files =>
                       g.plan[i].key \notin Apt!Copies(files[Apt!Marker])

\* No generation in progress has written its marker.
MarkerCurrent == \A r \in Active : run[r].phase = "write" => Len(run[r].plan) >= EndLength

AptInv ==
    eco = "apt" /\ ~torn =>
        /\ TwoGenerations
        /\ \A r \in Active : run[r].alone /\ EndInOrder(run[r])
        /\ Apt!InRelease \in DOMAIN files => Apt!Release \in DOMAIN files
        /\ Apt!Release \in DOMAIN files => Apt!Marker \in DOMAIN files
        /\ MarkerCurrent => ~MarkerAhead(files)
        /\ \A r \in Active : run[r].phase = "write" /\ Len(run[r].plan) = EndLength - 1 /\ signed =>
              (Apt!Release \in DOMAIN files => Apt!InRelease \in DOMAIN files /\ files[Apt!InRelease].of = files[Apt!Release])

IndexInv == GenInv /\ NeverWritten /\ AptInv
=============================================================================
