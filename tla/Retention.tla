------------------------------- MODULE Retention -------------------------------
(***************************************************************************)
(* Retention of old versions in a personal repository                      *)
(* (core/engine/retention), the marks of downloads it decides by           *)
(* (core/engine/accesskeeper), the pins of users, and the generation of    *)
(* the indexes that follows (RepoIndex).                                   *)
(*                                                                         *)
(* A pass reads the policy and the pins, lists the repository, and then    *)
(* judges and deletes version by version; users upload, delete, download   *)
(* and pin all the while.  The periodic pass is not a task of the          *)
(* registry, so it may overlap with a pass that an administrator started.  *)
(***************************************************************************)
EXTENDS RepoIndex, FiniteSetsExt

CONSTANTS
    Passes,    \* the passes: the periodic one, the one of the administrator
    Policies,  \* policies [min, age] a repository may have
    Uploaded,  \* when the packages were uploaded that are there at the start
    MaxKeys,   \* keys the keeper accumulates at most
    MaxClock,  \* bound: time
    MaxFaults  \* bound: failures and crashes

ASSUME RetentionAssumption ==
    /\ Passes = Runners /\ MaxKeys \in Nat /\ MaxClock \in Nat /\ 1 \in Revs
    /\ Uploaded \in [Pkgs -> {1, 2}] /\ Policies \subseteq [min : Int, age : Int]

VARIABLES
    clock, mtime,
    acc,      \* object_access: the time of the last download
    mem,      \* marks accumulated in memory, 0 for none
    batch,    \* marks taken out of memory and not merged yet
    pins,     \* repo_pins
    policy,   \* the policy of the repository
    pass,     \* the passes in progress
    faults,
    lost,     \* history: packages whose last download left no mark
    hit,      \* history: the time of the last download
    swept     \* history: packages deleted by a pass and not uploaded since

retVars == <<clock, mtime, acc, mem, batch, pins, policy, pass, faults, lost, hit, swept>>
vars == <<indexVars, retVars>>

NoMarks == [p \in Pkgs |-> 0]
NoPass == [st |-> "idle", pol |-> [min |-> 0, age |-> 0], pinned |-> {}, todo |-> << >>,
           now |-> 0, cand |-> 0, mine |-> {}, moved |-> {}, late |-> {}]

\* ValidateRetention: an age needs a minimum of two versions.
ValidateRetention(pol) == pol.min >= 0 /\ pol.age >= 0 /\ (pol.age > 0 => pol.min >= 2)
Enabled(pol) == pol.min > 0

\* A repository that has been in use.
Init ==
    /\ StartWith(Pkgs)
    /\ clock = 2 /\ mtime = Uploaded /\ acc = NoMarks /\ mem = NoMarks /\ batch = NoMarks
    /\ pins = {} /\ policy \in {pol \in Policies : ValidateRetention(pol)}
    /\ pass = [s \in Passes |-> NoPass]
    /\ faults = 0 /\ lost = {} /\ hit = NoMarks /\ swept = {}

Tick ==
    /\ clock < MaxClock /\ clock' = clock + 1
    /\ UNCHANGED <<indexVars, mtime, acc, mem, batch, pins, policy, pass, lost, hit, swept, faults>>

Fault == faults < MaxFaults /\ faults' = faults + 1

\* The passes in progress learn, for the history only, that others changed p.
Moved(p) == [s \in Passes |-> IF pass[s].st = "idle" THEN pass[s]
                              ELSE [pass[s] EXCEPT !.moved = @ \cup {p}]]

-----------------------------------------------------------------------------
(* Users                                                                   *)

UserUploads(p, c) ==
    /\ Upload(p, c)
    /\ mtime' = [mtime EXCEPT ![p] = clock]
    /\ pass' = Moved(p) /\ swept' = swept \ {p}
    /\ UNCHANGED <<clock, acc, mem, batch, pins, policy, lost, hit, faults>>

UserDeletes(p) ==
    /\ DeletePkg(p)
    /\ pass' = Moved(p)
    /\ UNCHANGED <<clock, mtime, acc, mem, batch, pins, policy, lost, hit, swept, faults>>

\* The requests of users share one bound.
Edits ==
    /\ edits < MaxEdits /\ edits' = edits + 1
    /\ UNCHANGED <<eco, signed, pool, files, run, runs, prev, torn>>

\* handlePutRetentionPin: the object must exist.  Pins outlive it.
SetPin(p) ==
    /\ p \in Stored /\ p \notin pins /\ Edits
    /\ pins' = pins \cup {p}
    /\ pass' = [s \in Passes |-> IF pass[s].st = "idle" THEN pass[s]
                                 ELSE [pass[s] EXCEPT !.late = @ \cup {p}]]
    /\ UNCHANGED <<clock, mtime, acc, mem, batch, policy, lost, hit, swept, faults>>
Unpin(p) ==
    /\ p \in pins /\ pins' = pins \ {p} /\ Edits
    /\ UNCHANGED <<clock, mtime, acc, mem, batch, policy, pass, lost, hit, swept, faults>>

SetPolicy(pol) ==
    /\ ValidateRetention(pol) /\ pol # policy /\ Edits
    /\ policy' = pol
    /\ UNCHANGED <<clock, mtime, acc, mem, batch, pins, pass, lost, hit, swept, faults>>

-----------------------------------------------------------------------------
(* The keeper of the marks                                                 *)

Max2(a, b) == IF a < b THEN b ELSE a
Later(f, g) == [p \in Pkgs |-> Max2(f[p], g[p])]

\* Record: the later time stays; when the map is full a new key is dropped.
Full(p) == mem[p] = 0 /\ Cardinality({q \in Pkgs : mem[q] # 0}) >= MaxKeys
Record(p) == mem' = IF Full(p) THEN mem ELSE [mem EXCEPT ![p] = Max2(@, clock)]

\* handleRepoFile: a package that is there is recorded before it is sent.
handleRepoFile(p) ==
    /\ p \in Stored /\ Edits
    /\ Record(p)
    /\ lost' = IF Full(p) THEN lost \cup {p} ELSE lost \ {p}
    /\ hit' = [hit EXCEPT ![p] = clock]
    /\ UNCHANGED <<clock, mtime, acc, batch, pins, policy, pass, swept, faults>>

\* Mutant: the map is emptied when the batch has been merged.
MergeClears ==
    /\ acc' = Later(acc, batch) /\ batch' = NoMarks /\ mem' = NoMarks
    /\ UNCHANGED <<clock, mtime, pins, policy, lost, hit, swept, faults>>

\* Flush takes the map out under the lock and merges it afterwards: a mark
\* recorded meanwhile is in the next batch.
Swap == batch' = mem /\ mem' = NoMarks
Flush ==
    /\ mem # NoMarks /\ batch = NoMarks
    /\ Swap
    /\ UNCHANGED <<indexVars, clock, mtime, acc, pins, policy, pass, lost, hit, swept, faults>>

\* MergeAccess: the later of the two times stays.
Merge ==
    /\ acc' = Later(acc, batch) /\ batch' = NoMarks /\ mem' = mem
    /\ UNCHANGED <<clock, mtime, pins, policy, lost, hit, swept, faults>>
MergeAccess ==
    /\ batch # NoMarks
    /\ Merge
    /\ pass' = [s \in Passes |-> IF pass[s].st = "idle" THEN pass[s]
                                 ELSE [pass[s] EXCEPT !.late = @ \cup {p \in Pkgs : batch[p] > acc[p]}]]
    /\ UNCHANGED indexVars
\* A merge that fails has lost its batch.
MergeFails ==
    /\ Fault
    /\ batch # NoMarks
    /\ batch' = NoMarks /\ lost' = lost \cup {p \in Pkgs : batch[p] = hit[p] /\ hit[p] # 0}
    /\ UNCHANGED <<indexVars, clock, mtime, acc, mem, pins, policy, pass, hit, swept>>

-----------------------------------------------------------------------------
(* A pass                                                                  *)

PassGoes(s, v) == pass' = [pass EXCEPT ![s] = v]

\* ApplyAndReindex: a disabled policy and an ecosystem without families (nix)
\* return before anything is read.
PassBegins(s) ==
    /\ pass[s].st = "idle" /\ run[s].phase = "idle"
    /\ Enabled(policy) /\ eco # "nix"
    /\ PassGoes(s, [NoPass EXCEPT !.st = "list", !.pol = policy, !.pinned = pins])
    /\ UNCHANGED <<indexVars, clock, mtime, acc, mem, batch, pins, policy, lost, hit, swept, faults>>

\* The adapter of the ecosystem names the family of a package.
familyResolver(p) ==
    CASE eco = "apt" -> Apt!ObjectFamily(p) [] eco = "rpm-md" -> Rpm!ObjectFamily(p)
      [] eco = "pacman" -> Pacman!ObjectFamily(p) [] eco = "apk" -> Apk!ObjectFamily(p)
      [] OTHER -> Xbps!ObjectFamily(p)

\* The listing grouped by families, each in the order of the upload, the latest
\* first and equals by key; the first min of each are safe.
Fresher(q, p) == mtime[q] > mtime[p] \/ (mtime[q] = mtime[p] /\ q < p)
Rank(p) == Cardinality({q \in Stored : familyResolver(q) = familyResolver(p) /\ Fresher(q, p)})

\* Mutant: one version fewer is safe.
OneFewer(s) == {p \in Stored : Rank(p) + 1 >= pass[s].pol.min}

sweepFamily(s) == {p \in Stored : Rank(p) >= pass[s].pol.min}
FamilyOrder(p, q) ==
    LET first(x) == CHOOSE k \in Stored : /\ familyResolver(k) = familyResolver(x)
                                          /\ \A j \in Stored : familyResolver(j) = familyResolver(x) => k <= j
    IN  IF familyResolver(p) # familyResolver(q) THEN first(p) < first(q) ELSE Fresher(p, q)

\* The elements of S in that order.
Ordered(S) ==
    {keys \in [1 .. Cardinality(S) -> S] :
        \A i, j \in 1 .. Cardinality(S) : i < j => FamilyOrder(keys[i], keys[j])}

PassLists(s) ==
    /\ pass[s].st = "list"
    /\ \E keys \in Ordered(sweepFamily(s)) :
          PassGoes(s, [pass[s] EXCEPT !.st = "judge", !.now = clock, !.moved = {},
                           !.todo = [n \in 1 .. Cardinality(sweepFamily(s)) |-> <<keys[n], mtime[keys[n]]>>]])
    /\ UNCHANGED <<indexVars, clock, mtime, acc, mem, batch, pins, policy, lost, hit, swept, faults>>

\* A version beyond them is spared when it was accessed lately (without a mark
\* the upload counts), or when it is pinned.
Recent(s, v) ==
    LET last == IF acc[v[1]] # 0 THEN acc[v[1]] ELSE v[2]
    IN  pass[s].pol.age > 0 /\ last >= pass[s].now - pass[s].pol.age
Spared(s, v) == Recent(s, v) \/ v[1] \in pass[s].pinned

PassJudges(s) ==
    /\ pass[s].st = "judge" /\ pass[s].todo # << >>
    /\ LET v == Head(pass[s].todo) IN
       PassGoes(s, [pass[s] EXCEPT !.todo = Tail(@), !.late = @ \ (IF v[1] \in pins THEN {} ELSE {v[1]}),
                        !.cand = IF Spared(s, v) THEN 0 ELSE v[1],
                        !.st = IF Spared(s, v) THEN "judge" ELSE "delete"])
    /\ UNCHANGED <<indexVars, clock, mtime, acc, mem, batch, pins, policy, lost, hit, swept, faults>>

\* deleteKey: an object that is already gone does not count as deleted.
deleteKey(s) ==
    LET p == pass[s].cand IN
    /\ pass[s].st = "delete"
    /\ pool' = [pool EXCEPT ![p] = Absent]
    /\ run' = Touch(p)
    /\ pass' = [(IF p \in Stored THEN Moved(p) ELSE pass) EXCEPT
                    ![s] = [pass[s] EXCEPT !.st = "judge", !.cand = 0,
                                           !.mine = IF p \in Stored THEN @ \cup {p} ELSE @]]
    /\ swept' = IF p \in Stored THEN swept \cup {p} ELSE swept
    /\ UNCHANGED <<eco, signed, files, runs, edits, prev, torn>>
    /\ UNCHANGED <<clock, mtime, acc, mem, batch, pins, policy, lost, hit, faults>>

\* A deletion that fails is counted, and the pass goes on.
DeleteFails(s) ==
    /\ Fault
    /\ pass[s].st = "delete"
    /\ PassGoes(s, [pass[s] EXCEPT !.st = "judge", !.cand = 0])
    /\ UNCHANGED <<indexVars, clock, mtime, acc, mem, batch, pins, policy, lost, hit, swept>>

\* An error of the pins, of the listing or of AccessEntry, or a cancelled
\* context, ends the pass without a reindex; what is deleted stays deleted.
PassFails(s) ==
    /\ Fault
    /\ pass[s].st \in {"list", "judge"}
    /\ PassGoes(s, NoPass)
    /\ UNCHANGED <<indexVars, clock, mtime, acc, mem, batch, pins, policy, lost, hit, swept>>

\* Mutant: a single deletion is left to the next pass.
ReindexesMany(s) == Cardinality(pass[s].mine) > 1
\* Something was deleted: the indexes are generated anew.
Reindexes(s) == pass[s].mine # {}

PassSwept(s) ==
    /\ pass[s].st = "judge" /\ pass[s].todo = << >>
    /\ IF Reindexes(s)
       THEN /\ PassGoes(s, [pass[s] EXCEPT !.st = "reindex"])
            /\ runs' = runs + 1
            /\ run' = [x \in Runners |->
                          IF x = s THEN [Idle EXCEPT !.phase = "list", !.stamp = runs + 1, !.alone = (Active = {})]
                          ELSE IF run[x].phase # "idle" THEN [run[x] EXCEPT !.alone = FALSE] ELSE run[x]]
            /\ torn' = (torn \/ Active # {})
            /\ UNCHANGED <<eco, signed, pool, files, edits, prev>>
       ELSE PassGoes(s, [pass[s] EXCEPT !.st = "ok"]) /\ UNCHANGED indexVars
    /\ UNCHANGED <<clock, mtime, acc, mem, batch, pins, policy, lost, hit, swept, faults>>

PassReturns(s) ==
    /\ pass[s].st = "ok"
    /\ PassGoes(s, NoPass)
    /\ UNCHANGED <<indexVars, clock, mtime, acc, mem, batch, pins, policy, lost, hit, swept, faults>>

\* The generation of a pass takes the steps of RepoIndex; its error is the
\* error of the pass, and its end the end of the pass.
Generates(s) ==
    /\ pass[s].st = "reindex"
    /\ GenStep(s)
    /\ pass' = IF run'[s].phase # "idle" THEN pass
               ELSE IF run[s].phase = "done"
                    THEN [pass EXCEPT ![s].st = "ok", ![s].mine = IF run[s].alone THEN @ ELSE {}]
                    ELSE [pass EXCEPT ![s] = NoPass]
    /\ UNCHANGED <<clock, mtime, acc, mem, batch, pins, policy, lost, hit, swept, faults>>

GenFails(s) ==
    /\ pass[s].st = "reindex" /\ Fault
    /\ Aborts(s) \/ CommitFailsLate(s)
    /\ PassGoes(s, NoPass)
    /\ UNCHANGED <<clock, mtime, acc, mem, batch, pins, policy, lost, hit, swept>>

PassStep(s) == PassLists(s) \/ PassJudges(s) \/ deleteKey(s) \/ PassSwept(s) \/ PassReturns(s) \/ Generates(s)

RetCrash ==
    /\ Fault
    /\ \E s \in Passes : pass[s].st # "idle"
    /\ run' = [r \in Runners |-> Idle]
    /\ torn' = (torn \/ MarkerAhead(files))
    /\ pass' = [s \in Passes |-> NoPass]
    /\ mem' = NoMarks /\ batch' = NoMarks
    /\ lost' = lost \cup {p \in Pkgs : hit[p] # 0 /\ hit[p] \in {mem[p], batch[p]} \ {acc[p]}}
    /\ UNCHANGED <<eco, signed, pool, files, runs, edits, prev, clock, mtime, acc, pins, policy, hit, swept>>

Next ==
    \/ Tick \/ Flush \/ MergeAccess \/ MergeFails \/ RetCrash
    \/ \E p \in Pkgs : UserDeletes(p) \/ SetPin(p) \/ Unpin(p) \/ handleRepoFile(p) \/ \E c \in Revs : UserUploads(p, c)
    \/ \E pol \in Policies : SetPolicy(pol)
    \/ \E s \in Passes : PassBegins(s) \/ PassStep(s) \/ DeleteFails(s) \/ PassFails(s) \/ GenFails(s)

Spec == Init /\ [][Next]_vars /\ \A s \in Passes : WF_vars(PassBegins(s)) /\ WF_vars(PassStep(s))

-----------------------------------------------------------------------------
(* Properties                                                              *)

\* What a pass deletes is not one of the versions the policy keeps: it is not
\* pinned and has no fresh mark, unless the pin or the mark came after the pass
\* had read it; and the family keeps min versions, all of them uploaded later,
\* unless a user or another pass changed the family since the listing.
SparesProtected ==
    [][\A s \in Passes :
          pass[s].st = "delete" /\ pass'[s].mine # pass[s].mine =>
              LET p == pass[s].cand
                  fam == {q \in Pkgs : familyResolver(q) = familyResolver(p)}
              IN  /\ p \in pins => p \in pass[s].late
                  /\ pass[s].pol.age > 0 /\ acc[p] >= pass[s].now - pass[s].pol.age => p \in pass[s].late
                  /\ fam \cap pass[s].moved = {} =>
                        Cardinality({q \in Stored : q \in fam /\ Fresher(q, p)}) >= pass[s].pol.min]_vars

\* A download leaves its mark in the catalogue, in memory or in the batch under
\* way, unless the map was full, the merge failed, or the process died.
MarksKept == \A p \in Pkgs \ lost : hit[p] \in {0, acc[p], mem[p], batch[p]}

PassRecord ==
    [st : {"idle", "list", "judge", "delete", "reindex", "ok"}, pol : [min : Nat, age : Nat], pinned : SUBSET Pkgs,
     todo : Seq(Pkgs \X Nat), now : Nat, cand : Pkgs \cup {0}, mine : SUBSET Pkgs, moved : SUBSET Pkgs,
     late : SUBSET Pkgs]

StoreTypeOK ==
    /\ clock \in Nat /\ mtime \in [Pkgs -> Nat] /\ DOMAIN pool = Pkgs
    /\ acc \in [Pkgs -> Nat] /\ mem \in [Pkgs -> Nat] /\ batch \in [Pkgs -> Nat] /\ hit \in [Pkgs -> Nat]
    /\ pins \in SUBSET Pkgs /\ policy \in [min : Nat, age : Nat]

RetTypeOK == StoreTypeOK /\ pass \in [Passes -> PassRecord]

\* No mark is later than the last download.
MarksPast == \A p \in Pkgs : acc[p] <= hit[p] /\ mem[p] <= hit[p] /\ batch[p] <= hit[p] /\ hit[p] <= clock

\* The versions a pass has still to judge or to delete.
Queued(v) == {v.todo[n][1] : n \in 1 .. Len(v.todo)} \cup (IF v.st = "delete" THEN {v.cand} ELSE {})
Kin(p) == {q \in Pkgs : familyResolver(q) = familyResolver(p)}

\* The versions that keep p from being one of the min latest: they stay, since
\* the pass goes after none of them.
Ahead(v, p) ==
    \E W \in SUBSET (Stored \ Queued(v)) :
       /\ W \subseteq Kin(p) /\ \A q \in W : Fresher(q, p)
       /\ Cardinality(W) >= v.pol.min

PassKnows(v) ==
    /\ v.st # "idle" => pins \subseteq v.pinned \cup v.late
    /\ v.st \in {"judge", "delete"} => \A p \in Queued(v) : Kin(p) \cap v.moved = {} => Ahead(v, p)
    /\ v.st = "delete" =>
          /\ v.cand \in Pkgs \ v.pinned
          /\ v.pol.age > 0 /\ acc[v.cand] >= v.now - v.pol.age => v.cand \in v.late

RetInv == RetTypeOK /\ MarksPast /\ MarksKept /\ \A s \in Passes : PassKnows(pass[s])

IndexNames(p) == \E a \in {Arch[q] : q \in Pkgs} : \E g \in Index(a) : g[1] = p

\* A pass that ends well leaves indexes that name none of the versions it
\* deleted, unless another generation or a user came in between.
PassLeavesIndex ==
    \A s \in Passes : pass[s].st = "ok" =>
        \A p \in pass[s].mine \ pass[s].moved : ~IndexNames(p)

\* Why that is so: what a pass has deleted, and nobody has touched since, is not
\* stored, so no generation that begins later reads it; and once the generation
\* of the pass has replaced the index, alone, none in progress has read it.
DeletedStays(s) ==
    LET v == pass[s]  gone == v.mine \ v.moved IN
    /\ v.st # "reindex" => run[s].phase = "idle"
    /\ v.st = "list" => v.mine = {}
    /\ v.st # "idle" => eco # "nix" /\ \A p \in gone : pool[p] = Absent
    /\ v.st = "reindex" => \A x \in run[s].got : x[1] \notin gone
    /\ v.st = "ok" => \A p \in gone : /\ \A r \in Active : \A x \in run[r].got : x[1] # p
                                      /\ ~IndexNames(p)
SweepInv ==
    /\ GenInv /\ NeverWritten /\ eco \in Ecosystems
    /\ \A s \in Passes : DeletedStays(s)

\* The indexes do not go on naming what a pass has deleted.
\* The code does not keep this (README, Observations).
StaleIndexRepaired ==
    \A p \in Pkgs :
        (p \in swept /\ IndexNames(p)) ~> ~(p \in swept /\ IndexNames(p))
=============================================================================
