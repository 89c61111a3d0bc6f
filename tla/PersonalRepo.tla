---------------------------- MODULE PersonalRepo ----------------------------
(***************************************************************************)
(* Personal repositories: the publish engine                               *)
(* (internal/core/engine/publish/publish.go), the handlers that create,    *)
(* delete and fill repositories (internal/core/web/handlers_repos.go) and  *)
(* the repo/ half of the storage sweeper (storagegc/gc.go).                *)
(*                                                                         *)
(* The catalogue, the storage and the map of uploads in progress are three *)
(* separate pieces of state with no transaction over them: an upload reads *)
(* the row of its repository once and then works for minutes, a deletion   *)
(* removes the row first and the objects later, and the sweeper compares a *)
(* listing of the storage with an earlier listing of the catalogue.        *)
(*                                                                         *)
(* Abstractions: an object is its size and the incarnation of the          *)
(* repository its uploader meant (a ghost, the storage does not know it);  *)
(* a quota listing is one step; every repository has the same quota;       *)
(* permissions and the index generators are left out.                      *)
(***************************************************************************)
EXTENDS Integers, FiniteSets, FiniteSetsExt

CONSTANTS
    Paths,          \* object paths inside a repository
    Uploaders,      \* PUT requests in progress
    Sizes,          \* Content-Length values
    None,           \* no object
    MaxBytes,       \* Quota.MaxBytes, 0 = no limit
    MaxObjects,     \* Quota.MaxObjects, 0 = no limit
    MaxObjectSize,  \* publish.Config.MaxObjectSize, 0 = no limit
    ReuseIds,       \* the database hands the highest free id out again (sqlite)
    Sweeping,       \* storage.gc_interval > 0
    Faults,         \* "read" (Stat, List), "commit", "delete", "walk"
    MaxCreates, MaxDrops, MaxDeletes, MaxCrashes   \* bounds of the model

Ids == 1..MaxCreates
ObjectKeys == Ids \X Paths
Object == [size : Nat, by : Nat]
UploadPcs == {"idle", "acquire", "stat", "quota", "copy", "recheck", "commit"}
Upload == [pc : UploadPcs, id : Nat, by : Nat, path : Paths, size : Nat,
           force : BOOLEAN, exists : BOOLEAN, old : Nat]

\* The full pass is walker 0; the task gc|repo-<id> is walker <id>.
Walkers == {0} \cup Ids
Walk == [pc : {"idle", "ready", "list"}, doomed : SUBSET Ids,
         todo : SUBSET ObjectKeys, met : SUBSET ObjectKeys]

ASSUME RepoAssumption ==
    /\ Paths # {} /\ IsFiniteSet(Paths)
    /\ Uploaders # {} /\ IsFiniteSet(Uploaders)
    /\ Sizes \subseteq Nat
    /\ Sizes = {} \/ \E largest \in Sizes : \A s \in Sizes : s <= largest
    /\ MaxBytes \in Nat /\ MaxObjects \in Nat /\ MaxObjectSize \in Nat
    /\ ReuseIds \in BOOLEAN /\ Sweeping \in BOOLEAN
    /\ Faults \subseteq {"read", "commit", "delete", "walk"}
    /\ MaxCreates \in Nat /\ MaxDrops \in Nat /\ MaxDeletes \in Nat /\ MaxCrashes \in Nat
    /\ None \notin Object

VARIABLES
    repos,      \* repos[id]: the incarnation of the repository, 0 = no row
    lastId,     \* the highest id ever handed out
    born,       \* repositories created so far
    drops, deletes, crashes,   \* bounded events so far
    objects,    \* the storage under repo/
    inFlight,   \* e.inFlight
    up,         \* uploads in progress
    walk        \* passes of the sweeper and prefix tasks

vars == <<repos, lastId, born, drops, deletes, crashes, objects, inFlight, up, walk>>

-----------------------------------------------------------------------------
(* Helpers *)

IdleUpload == [pc |-> "idle", id |-> 0, by |-> 0, path |-> CHOOSE p \in Paths : TRUE,
               size |-> 0, force |-> FALSE, exists |-> FALSE, old |-> 0]

IdleWalk == [pc |-> "idle", doomed |-> {}, todo |-> {}, met |-> {}]

\* keyFor: repo/<id>/<eco>/<path>.
Key(u) == <<up[u].id, up[u].path>>

Live == {id \in Ids : repos[id] # 0}

\* Mutant of NewId: the database hands ids of deleted repositories out again.
NewIdReused == IF Live = {} THEN 1 ELSE Max(Live) + 1

\* The id an INSERT into repos gets: INTEGER PRIMARY KEY without
\* AUTOINCREMENT in sqlite, a sequence in the other databases.
NewId == IF ~ReuseIds THEN lastId + 1
         ELSE IF Live = {} THEN 1 ELSE Max(Live) + 1

Stored(id) == {k \in ObjectKeys : k[1] = id /\ objects[k] # None}

\* The bytes of the objects ks, one by one.
Bytes(ks) == UNION {{k} \X (1..objects[k].size) : k \in ks}

\* The bytes under repo/<id>/, as Storage.List shows them.
UsedBytes(id) == Cardinality(Bytes(Stored(id)))

\* Mutant of QuotaAllows: what is stored fits, the new object is not counted.
QuotaAllowsStored(u) ==
    /\ MaxBytes > 0 => UsedBytes(up[u].id) <= MaxBytes
    /\ MaxObjects > 0 => Cardinality(Stored(up[u].id)) <= MaxObjects

\* checkQuota: a replaced object does not count, with the size that Stat saw.
QuotaAllows(u) ==
    LET id == up[u].id
        byteDelta == IF up[u].exists THEN up[u].size - up[u].old ELSE up[u].size
        objDelta == IF up[u].exists THEN 0 ELSE 1
    IN /\ MaxBytes > 0 => UsedBytes(id) + byteDelta <= MaxBytes
       /\ MaxObjects > 0 => Cardinality(Stored(id)) + objDelta <= MaxObjects

\* Upload returns, releasing its key on the way.
Return(u) == up' = [up EXCEPT ![u] = IdleUpload] /\ inFlight' = inFlight \ {Key(u)}

Goto(u, pc) == up' = [up EXCEPT ![u].pc = pc] /\ UNCHANGED inFlight

-----------------------------------------------------------------------------
Init ==
    /\ repos = [id \in Ids |-> 0]
    /\ lastId = 0 /\ born = 0 /\ drops = 0 /\ deletes = 0 /\ crashes = 0
    /\ objects = [k \in ObjectKeys |-> None]
    /\ inFlight = {}
    /\ up = [u \in Uploaders |-> IdleUpload]
    /\ walk = [w \in Walkers |-> IdleWalk]

-----------------------------------------------------------------------------
(* Catalogue *)

CreateRepo ==
    /\ born < MaxCreates
    /\ born' = born + 1
    /\ repos' = [repos EXCEPT ![NewId] = born + 1]
    /\ lastId' = IF NewId > lastId THEN NewId ELSE lastId
    /\ UNCHANGED <<drops, deletes, crashes, objects, inFlight, up, walk>>

\* handleDeleteRepo: the row goes first; then the task gc|repo-<id> is started,
\* unless one is running or the registry refuses it.
DeleteRepo(id) ==
    /\ drops < MaxDrops
    /\ repos[id] # 0
    /\ drops' = drops + 1
    /\ repos' = [repos EXCEPT ![id] = 0]
    /\ \/ /\ walk[id].pc = "idle"
          /\ walk' = [walk EXCEPT ![id] = [pc |-> "ready", doomed |-> {id},
                                            todo |-> {}, met |-> {}]]
       \/ UNCHANGED walk
    /\ UNCHANGED <<lastId, born, deletes, crashes, objects, inFlight, up>>

-----------------------------------------------------------------------------
(* Upload *)

\* handlePutObject reads the row of the repository, once.
PutObject(u, id, path, size, force) ==
    /\ up[u].pc = "idle"
    /\ repos[id] # 0
    /\ MaxObjectSize = 0 \/ size <= MaxObjectSize
    /\ up' = [up EXCEPT ![u] =
                [pc |-> "acquire", id |-> id, by |-> repos[id], path |-> path,
                 size |-> size, force |-> force, exists |-> FALSE, old |-> 0]]
    /\ UNCHANGED <<repos, lastId, born, drops, deletes, crashes, objects, inFlight, walk>>

\* Mutant of Busy: uploads of one key are not serialised.
BusyNever(u) == FALSE

Busy(u) == Key(u) \in inFlight

\* acquireInFlight: the second upload of a key is refused (409).
Acquire(u) ==
    /\ up[u].pc = "acquire"
    /\ \/ Busy(u) /\ up' = [up EXCEPT ![u] = IdleUpload] /\ UNCHANGED inFlight
       \/ /\ ~Busy(u)
          /\ up' = [up EXCEPT ![u].pc = "stat"]
          /\ inFlight' = inFlight \cup {Key(u)}
    /\ UNCHANGED <<repos, lastId, born, drops, deletes, crashes, objects, walk>>

\* statExisting: an existing object is a conflict, unless the admin forces;
\* an error of the storage is not taken for a missing object.
Stat(u) ==
    LET old == objects[Key(u)] IN
    /\ up[u].pc = "stat"
    /\ \/ old # None /\ ~up[u].force /\ Return(u)
       \/ old = None /\ Goto(u, "quota")
       \/ /\ old # None /\ up[u].force
          /\ up' = [up EXCEPT ![u].pc = "quota", ![u].exists = TRUE, ![u].old = old.size]
          /\ UNCHANGED inFlight
       \/ "read" \in Faults /\ Return(u)
    /\ UNCHANGED <<repos, lastId, born, drops, deletes, crashes, objects, walk>>

\* The first quota check, on the announced size; it fails closed when the
\* listing does.
CheckQuota(u) ==
    /\ up[u].pc = "quota"
    /\ \/ QuotaAllows(u) /\ Goto(u, "copy")
       \/ (~QuotaAllows(u) \/ "read" \in Faults) /\ Return(u)
    /\ UNCHANGED <<repos, lastId, born, drops, deletes, crashes, objects, walk>>

\* copyBody: the announced number of bytes arrives, or the writer is aborted
\* (short, long or broken body).
CopyBody(u) ==
    /\ up[u].pc = "copy"
    /\ Goto(u, "recheck") \/ Return(u)
    /\ UNCHANGED <<repos, lastId, born, drops, deletes, crashes, objects, walk>>

\* The second quota check, before Commit.
RecheckQuota(u) ==
    /\ up[u].pc = "recheck"
    /\ \/ QuotaAllows(u) /\ Goto(u, "commit")
       \/ (~QuotaAllows(u) \/ "read" \in Faults) /\ Return(u)
    /\ UNCHANGED <<repos, lastId, born, drops, deletes, crashes, objects, walk>>

Uploaded(u) == [size |-> up[u].size, by |-> up[u].by]

\* Commit makes the object visible, or fails (a failure after the rename, which
\* the uploader takes for an error, leaves the same state as a success).
Commit(u) ==
    /\ up[u].pc = "commit"
    /\ Return(u)
    /\ \/ objects' = [objects EXCEPT ![Key(u)] = Uploaded(u)]
       \/ "commit" \in Faults /\ UNCHANGED objects
    /\ UNCHANGED <<repos, lastId, born, drops, deletes, crashes, walk>>

\* handleDeleteObject: takes no notice of uploads in progress.
DeleteObject(k) ==
    /\ deletes < MaxDeletes
    /\ repos[k[1]] # 0
    /\ objects[k] # None
    /\ deletes' = deletes + 1
    /\ objects' = [objects EXCEPT ![k] = None]
    /\ UNCHANGED <<repos, lastId, born, drops, crashes, inFlight, up, walk>>

-----------------------------------------------------------------------------
(* Sweeping *)

\* Mutant of Doomed: the repositories with a row are swept, not the others.
DoomedLive == Live

\* The ids a pass will not find in the catalogue.
Doomed == Ids \ Live

\* A full pass lists the catalogue (periodically, or on request).
SweepBegin ==
    /\ Sweeping
    /\ walk[0].pc = "idle"
    /\ walk' = [walk EXCEPT ![0] = [pc |-> "ready", doomed |-> Doomed,
                                     todo |-> {}, met |-> {}]]
    /\ UNCHANGED <<repos, lastId, born, drops, deletes, crashes, objects, inFlight, up>>

\* The listing of the storage begins: it will meet at least what is there now.
WalkBegin(w) ==
    /\ walk[w].pc = "ready"
    /\ walk' = [walk EXCEPT ![w].pc = "list", ![w].todo =
                   {k \in ObjectKeys : k[1] \in walk[w].doomed /\ objects[k] # None}]
    /\ UNCHANGED <<repos, lastId, born, drops, deletes, crashes, objects, inFlight, up>>

\* deleteKey of an object the listing meets, once; a failing Delete is counted
\* and the walk goes on.
WalkDelete(w, k) ==
    /\ walk[w].pc = "list"
    /\ k[1] \in walk[w].doomed
    /\ k \notin walk[w].met
    /\ objects[k] # None
    /\ walk' = [walk EXCEPT ![w].met = @ \cup {k}]
    /\ \/ objects' = [objects EXCEPT ![k] = None]
       \/ "delete" \in Faults /\ UNCHANGED objects
    /\ UNCHANGED <<repos, lastId, born, drops, deletes, crashes, inFlight, up>>

WalkEnd(w) ==
    /\ walk[w].pc = "list"
    /\ \A k \in walk[w].todo \ walk[w].met : objects[k] = None
    /\ walk' = [walk EXCEPT ![w] = IdleWalk]
    /\ UNCHANGED <<repos, lastId, born, drops, deletes, crashes, objects, inFlight, up>>

\* A listing fails or the service stops: the walk ends where it is.
WalkAborts(w) ==
    /\ "walk" \in Faults
    /\ walk[w].pc # "idle"
    /\ walk' = [walk EXCEPT ![w] = IdleWalk]
    /\ UNCHANGED <<repos, lastId, born, drops, deletes, crashes, objects, inFlight, up>>

\* The process dies: uploads, prefix tasks and passes are gone, the catalogue
\* and the committed objects stay.
Crash ==
    /\ crashes < MaxCrashes
    /\ crashes' = crashes + 1
    /\ inFlight' = {}
    /\ up' = [u \in Uploaders |-> IdleUpload]
    /\ walk' = [w \in Walkers |-> IdleWalk]
    /\ UNCHANGED <<repos, lastId, born, drops, deletes, objects>>

-----------------------------------------------------------------------------
UploadStep(u) ==
    \/ Acquire(u) \/ Stat(u) \/ CheckQuota(u) \/ CopyBody(u)
    \/ RecheckQuota(u) \/ Commit(u)

WalkStep(w) ==
    \/ WalkBegin(w) \/ WalkEnd(w)
    \/ \E k \in ObjectKeys : WalkDelete(w, k)

Next ==
    \/ CreateRepo
    \/ \E id \in Ids : DeleteRepo(id)
    \/ \E u \in Uploaders, id \in Ids, p \in Paths, s \in Sizes, f \in BOOLEAN :
          PutObject(u, id, p, s, f)
    \/ \E u \in Uploaders : UploadStep(u)
    \/ \E k \in ObjectKeys : DeleteObject(k)
    \/ SweepBegin
    \/ \E w \in Walkers : WalkStep(w) \/ WalkAborts(w)
    \/ Crash

Spec == Init /\ [][Next]_vars

\* Run ticks for ever and a walk that has begun goes on; passes may be cut
\* short and deletions fail, but not for ever at the same place.
FairSpec ==
    /\ Spec
    /\ WF_vars(SweepBegin)
    /\ \A w \in Walkers : WF_vars(WalkStep(w))
    /\ SF_vars(WalkBegin(0))
    /\ \A k \in ObjectKeys : SF_vars(WalkDelete(0, k) /\ objects'[k] = None)

-----------------------------------------------------------------------------
(* Properties *)

\* Every variable has the shape the code gives it.
TypeOK ==
    /\ repos \in [Ids -> Nat]
    /\ lastId \in Nat /\ born \in Nat /\ drops \in Nat /\ deletes \in Nat /\ crashes \in Nat
    /\ objects \in [ObjectKeys -> Object \cup {None}]
    /\ inFlight \subseteq ObjectKeys
    /\ up \in [Uploaders -> Upload]
    /\ walk \in [Walkers -> Walk]

\* An object that is there is never replaced by an upload that was not forced,
\* however two uploads, a deletion and a sweep interleave: the loser of a race
\* gets a conflict, never a silent overwrite.
NoSilentOverwrite ==
    [][\A k \in ObjectKeys :
          objects[k] # None /\ objects'[k] # objects[k] /\ objects'[k] # None =>
            \E u \in Uploaders : up[u].pc = "commit" /\ Key(u) = k /\ up[u].force]_vars

\* What an upload about to pass the second quota check adds to what is stored.
WithUpload(u) == Cardinality(Bytes(Stored(up[u].id) \ {Key(u)})) + up[u].size

\* The object the upload replaces was deleted after Stat had seen it.
ReplacedGone(u) == up[u].exists /\ objects[Key(u)] = None

\* The second quota check takes every object into account that was committed
\* before it: an upload it lets through fits into what is stored then, and only
\* the window between the check and Commit is left to a race.  The one
\* exception is a forced upload whose object was deleted during the transfer:
\* the check subtracts its size a second time.
CheckedUploadFits ==
    [][\A u \in Uploaders :
          /\ up[u].pc = "recheck" /\ up'[u].pc = "commit"
          /\ MaxBytes > 0
          => ReplacedGone(u) \/ WithUpload(u) <= MaxBytes]_vars

\* Nobody has taken an object of the repository from under an upload: the
\* service deletes nothing of a live repository and no user has asked it to.
Undisturbed(id) == deletes = 0 /\ ~Sweeping /\ ~ReuseIds /\ id \in Live

\* Uploads of different keys that race may break the quota, but by no more
\* than one object for each of the others that can be in its commit window, and
\* one more when a deletion met a forced upload, however many deletions,
\* sweeps, crashes and incarnations of the repository there are.
OvershootBounded ==
    MaxBytes > 0 /\ Sizes # {} =>
        \A id \in Ids :
            UsedBytes(id) <=
                MaxBytes + (Cardinality(Uploaders) - (IF Undisturbed(id) THEN 1 ELSE 0))
                           * Max(Sizes)

\* A repository shows only what was uploaded to it: a deleted repository whose
\* objects are still being swept, or into which an upload is still running,
\* leaves nothing to a later one.
OwnObjectsOnly ==
    \A k \in ObjectKeys :
        objects[k] # None /\ k[1] \in Live => objects[k].by = repos[k[1]]

\* What walker w may delete now belongs to no live repository.
SparesLive(w) ==
    walk[w].pc = "list" => \A id \in walk[w].doomed : Stored(id) # {} => id \notin Live

\* The task started by the deletion of a repository never deletes objects of a
\* live one.
PrefixTaskSparesLive == \A id \in Ids : SparesLive(id)

\* A full pass never deletes objects of a live repository.
\* The code does not keep this (README, Observations).
PassSparesLive == SparesLive(0)

\* The objects of a deleted repository are all gone in the end: when the task
\* is refused, fails or dies, and when an upload commits after the deletion.
DeadPrefixFreed ==
    \A id \in Ids : (Stored(id) # {} /\ id \notin Live) ~> Stored(id) = {}
-----------------------------------------------------------------------------
(* The inductive invariants behind NoSilentOverwrite, OwnObjectsOnly and
   PrefixTaskSparesLive *)

\* u is between acquireInFlight and its release.
Holding(u) == up[u].pc \in {"stat", "quota", "copy", "recheck", "commit"}

\* One upload at a time holds a key, and what it did not find stays absent
\* while it holds the key.
UploadsSerial ==
    /\ objects \in [ObjectKeys -> Object \cup {None}]
    /\ up \in [Uploaders -> Upload]
    /\ repos \in [Ids -> Nat] /\ born \in Nat
    /\ \A u \in Uploaders : up[u].pc # "idle" => up[u].id \in Ids
    /\ \A u \in Uploaders : Holding(u) => Key(u) \in inFlight
    /\ \A u, v \in Uploaders : Holding(u) /\ Holding(v) /\ Key(u) = Key(v) => u = v
    /\ \A u \in Uploaders :
          Holding(u) /\ up[u].pc # "stat" /\ ~up[u].force => objects[Key(u)] = None

\* Ids are handed out once, in order: the incarnation of a repository is its
\* id, and a prefix task works on an id whose repository is gone for good.
IdsOnce ==
    /\ lastId = born /\ born \in 0..MaxCreates
    /\ walk \in [Walkers -> Walk]
    /\ \A id \in Ids : repos[id] \in {0, id} /\ (id > lastId => repos[id] = 0)
    /\ \A k \in ObjectKeys : objects[k] # None => objects[k].by = k[1]
    /\ \A u \in Uploaders : up[u].pc # "idle" => up[u].by = up[u].id
    /\ \A id \in Ids : walk[id].pc # "idle" =>
          walk[id].doomed = {id} /\ repos[id] = 0 /\ id <= lastId

-----------------------------------------------------------------------------
(* The inductive invariants behind CheckedUploadFits and OvershootBounded *)

\* u has seen what its key held.
Seen(u) == up[u].pc \in {"quota", "copy", "recheck", "commit"}

\* What Stat saw is what is there, or the object has been deleted since.
StatStands ==
    /\ \A k \in ObjectKeys : objects[k] # None => objects[k].size \in Sizes
    /\ \A u \in Uploaders : up[u].pc # "idle" => up[u].size \in Sizes
    /\ \A u \in Uploaders : up[u].pc \in {"acquire", "stat"} => ~up[u].exists
    /\ \A u \in Uploaders : Seen(u) =>
          IF up[u].exists
          THEN /\ up[u].old \in Sizes
               /\ objects[Key(u)] # None => objects[Key(u)].size = up[u].old
          ELSE objects[Key(u)] = None

\* The bytes of the uploads of us that nothing but Commit is left of.
Claims(us, id) ==
    UNION {{Key(u)} \X (1..up[u].size) :
              u \in {v \in us : up[v].pc = "commit" /\ up[v].id = id}}

\* What is stored and what is about to be: a byte of a replaced object counts
\* once.
Held(id) == Bytes(Stored(id)) \cup Claims(Uploaders, id)

\* The most that can be stored when n uploads are in their commit window.
Ceiling(n) == MaxBytes + n * Max(Sizes)

HeldBounded == \A id \in Ids : Cardinality(Held(id)) <= Ceiling(Cardinality(Uploaders))

\* Without sweeps and with ids handed out once: an id that is still to come has
\* no objects and no uploads, and an object that a forced upload has seen stays
\* while nobody deletes anything.
Quiet ==
    /\ deletes \in Nat /\ walk[0].pc = "idle"
    /\ \A k \in ObjectKeys : objects[k] # None => k[1] <= lastId
    /\ \A u \in Uploaders : up[u].pc # "idle" => up[u].id <= lastId
    /\ \A u \in Uploaders :
          Seen(u) /\ up[u].exists /\ Undisturbed(up[u].id) => objects[Key(u)] # None
    /\ \A id \in Ids :
          Undisturbed(id) => Cardinality(Held(id)) <= Ceiling(Cardinality(Uploaders) - 1)
=============================================================================
