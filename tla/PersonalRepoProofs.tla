------------------------- MODULE PersonalRepoProofs -------------------------
(***************************************************************************)
(* Uploads, deletions and sweeps of personal repositories share no lock    *)
(* but the map of uploads in progress.  These proofs show, for any number  *)
(* of uploaders, paths and repositories, that this map is enough to rule   *)
(* out a silent overwrite, and that a deleted repository leaves nothing to *)
(* a later one as long as the database does not hand ids out again.        *)
(***************************************************************************)
EXTENDS PersonalRepo, FiniteSetTheorems, TLAPS

\* The upload of an idle slot.
LEMMA IdleUploadType == IdleUpload \in Upload /\ IdleUpload.pc = "idle"
  <1>1. (CHOOSE p \in Paths : TRUE) \in Paths
    BY RepoAssumption
  <1> QED
    BY <1>1 DEF IdleUpload, Upload, UploadPcs

\* The key of an upload in progress is one of the storage.
LEMMA KeyType ==
    ASSUME UploadsSerial, NEW u \in Uploaders, up[u].pc # "idle"
    PROVE  Key(u) \in ObjectKeys /\ Key(u)[1] = up[u].id
  BY DEF UploadsSerial, Key, ObjectKeys, Upload

\* An upload returns: it gives up its own key and nobody else's, and what it
\* may have stored is nobody else's key.
LEMMA UploadEnds ==
    ASSUME UploadsSerial, NEW u \in Uploaders, Holding(u), Return(u), repos' = repos,
           born' = born,
           \/ objects' = objects
           \/ objects' = [objects EXCEPT ![Key(u)] = Uploaded(u)]
    PROVE  UploadsSerial'
  <1>1. /\ up \in [Uploaders -> Upload] /\ objects \in [ObjectKeys -> Object \cup {None}]
        /\ up[u].pc # "idle"
    BY DEF UploadsSerial, Holding
  <1>2. /\ up' = [up EXCEPT ![u] = IdleUpload] /\ inFlight' = inFlight \ {Key(u)}
        /\ up'[u].pc = "idle"
    BY <1>1, IdleUploadType DEF Return
  <1>3. up' \in [Uploaders -> Upload]
    BY <1>1, <1>2, IdleUploadType
  <1>4. Uploaded(u) \in Object
    BY <1>1 DEF Uploaded, Object, Upload
  <1>5. objects' \in [ObjectKeys -> Object \cup {None}]
    BY <1>1, <1>4
  <1>6. ASSUME NEW v \in Uploaders, Holding(v)'
        PROVE  v # u /\ up'[v] = up[v] /\ Key(v)' = Key(v) /\ Holding(v) /\ Key(v) # Key(u)
    <2>1. v # u
      BY <1>2, <1>6 DEF Holding
    <2>2. up'[v] = up[v]
      BY <1>1, <1>2, <2>1
    <2>3. Key(v)' = Key(v) /\ Holding(v)
      BY <1>6, <2>2 DEF Key, Holding
    <2> QED
      BY <2>1, <2>2, <2>3 DEF UploadsSerial
  <1>7. ASSUME NEW v \in Uploaders, Holding(v)'
        PROVE  objects'[Key(v)] = objects[Key(v)]
    <2>1. Key(v) \in ObjectKeys /\ Key(v) # Key(u)
      BY <1>6, <1>7, KeyType DEF Holding
    <2> QED
      BY <1>1, <2>1
  <1>8. \A v \in Uploaders : up'[v].pc # "idle" => up'[v].id \in Ids
    BY <1>1, <1>2 DEF UploadsSerial
  <1>9. \A v \in Uploaders : Holding(v)' => Key(v)' \in inFlight'
    BY <1>2, <1>6 DEF UploadsSerial
  <1>10. \A v, w \in Uploaders : Holding(v)' /\ Holding(w)' /\ Key(v)' = Key(w)' => v = w
    BY <1>6 DEF UploadsSerial
  <1>11. \A v \in Uploaders : Holding(v)' /\ up'[v].pc # "stat" /\ ~up'[v].force =>
            objects'[Key(v)'] = None
    BY <1>6, <1>7 DEF UploadsSerial
  <1> QED
    BY <1>3, <1>5, <1>8, <1>9, <1>10, <1>11 DEF UploadsSerial

\* An upload goes on with the key it holds.
LEMMA UploadGoes ==
    ASSUME UploadsSerial, NEW u \in Uploaders, Holding(u),
           up' \in [Uploaders -> Upload],
           \A v \in Uploaders : v # u => up'[v] = up[v],
           up'[u].id = up[u].id, up'[u].path = up[u].path, up'[u].force = up[u].force,
           up'[u].pc \in {"quota", "copy", "recheck", "commit"},
           up[u].pc = "stat" => objects[Key(u)] = None \/ up[u].force,
           inFlight' = inFlight, objects' = objects, repos' = repos, born' = born
    PROVE  UploadsSerial'
  <1>1. \A v \in Uploaders : Key(v)' = Key(v) /\ (Holding(v)' => Holding(v))
    BY DEF Key, Holding
  <1>2. \A v \in Uploaders : up'[v].pc # "idle" => up'[v].id \in Ids
    BY DEF UploadsSerial, Holding
  <1>3. \A v \in Uploaders : Holding(v)' /\ up'[v].pc # "stat" /\ ~up'[v].force =>
            objects'[Key(v)'] = None
    <2> SUFFICES ASSUME NEW v \in Uploaders, Holding(v)', up'[v].pc # "stat", ~up'[v].force
                 PROVE  objects[Key(v)] = None
      BY <1>1
    <2>1. CASE v = u
      BY <2>1 DEF UploadsSerial
    <2>2. CASE v # u
      BY <1>1, <2>2 DEF UploadsSerial
    <2> QED
      BY <2>1, <2>2
  <1> QED
    BY <1>1, <1>2, <1>3 DEF UploadsSerial

\* The steps of an upload.
LEMMA UploadInv ==
    ASSUME UploadsSerial, NEW u \in Uploaders, UploadStep(u)
    PROVE  UploadsSerial'
  <1>1. /\ up \in [Uploaders -> Upload] /\ objects \in [ObjectKeys -> Object \cup {None}]
        /\ repos' = repos /\ born' = born
    BY DEF UploadsSerial, UploadStep, Acquire, Stat, CheckQuota, CopyBody, RecheckQuota, Commit
  <1>2. ASSUME NEW pc \in {"copy", "recheck", "commit", "quota"}, Goto(u, pc), objects' = objects,
               Holding(u), up[u].pc = "stat" => objects[Key(u)] = None
        PROVE  UploadsSerial'
    <2>1. up' = [up EXCEPT ![u].pc = pc] /\ inFlight' = inFlight
      BY <1>2 DEF Goto
    <2>2. /\ up' \in [Uploaders -> Upload]
          /\ \A v \in Uploaders : v # u => up'[v] = up[v]
          /\ up'[u].id = up[u].id /\ up'[u].path = up[u].path /\ up'[u].force = up[u].force
          /\ up'[u].pc = pc
      BY <1>1, <2>1 DEF Upload, UploadPcs
    <2> QED
      BY <1>1, <1>2, <2>1, <2>2, UploadGoes
  <1>3. CASE Acquire(u)
    <2>1. up[u].pc = "acquire" /\ objects' = objects
      BY <1>3 DEF Acquire
    <2>2. CASE up' = [up EXCEPT ![u] = IdleUpload] /\ inFlight' = inFlight
      <3>1. up' \in [Uploaders -> Upload] /\ up'[u].pc = "idle"
        BY <1>1, <2>2, IdleUploadType
      <3>2. \A v \in Uploaders : v # u => up'[v] = up[v]
        BY <1>1, <2>2
      <3>3. \A v \in Uploaders : Holding(v)' => v # u /\ Holding(v) /\ Key(v)' = Key(v)
        BY <3>1, <3>2 DEF Holding, Key
      <3>4. \A v \in Uploaders : up'[v].pc # "idle" => up'[v].id \in Ids
        BY <3>1, <3>2 DEF UploadsSerial
      <3> QED
        BY <1>1, <2>1, <2>2, <3>1, <3>2, <3>3, <3>4 DEF UploadsSerial
    <2>3. CASE /\ ~Busy(u) /\ up' = [up EXCEPT ![u].pc = "stat"]
               /\ inFlight' = inFlight \cup {Key(u)}
      <3>1. /\ up' \in [Uploaders -> Upload]
            /\ \A v \in Uploaders : v # u => up'[v] = up[v]
            /\ up'[u].id = up[u].id /\ up'[u].path = up[u].path /\ up'[u].pc = "stat"
        BY <1>1, <2>3 DEF Upload, UploadPcs
      <3>2. \A v \in Uploaders : Key(v)' = Key(v)
        BY <3>1 DEF Key
      <3>3. \A v \in Uploaders : Holding(v)' => v = u \/ Holding(v)
        BY <3>1 DEF Holding
      <3>4. \A v \in Uploaders : Holding(v) => Key(v) # Key(u)
        BY <2>3 DEF Busy, UploadsSerial
      <3>5. \A v \in Uploaders : up'[v].pc # "idle" => up'[v].id \in Ids
        BY <2>1, <3>1 DEF UploadsSerial
      <3>6. \A v \in Uploaders : Holding(v)' => Key(v)' \in inFlight'
        BY <2>3, <3>2, <3>3 DEF UploadsSerial
      <3>7. \A v, w \in Uploaders : Holding(v)' /\ Holding(w)' /\ Key(v)' = Key(w)' => v = w
        BY <3>2, <3>3, <3>4 DEF UploadsSerial
      <3>8. \A v \in Uploaders : Holding(v)' /\ up'[v].pc # "stat" /\ ~up'[v].force =>
              objects'[Key(v)'] = None
        BY <2>1, <3>1, <3>2, <3>3 DEF UploadsSerial
      <3> QED
        BY <1>1, <2>1, <3>1, <3>5, <3>6, <3>7, <3>8 DEF UploadsSerial
    <2> QED
      BY <1>3, <2>2, <2>3 DEF Acquire
  <1>4. CASE Stat(u)
    <2>1. Holding(u) /\ objects' = objects /\ up[u].pc # "idle"
      BY <1>4 DEF Stat, Holding
    <2>2. CASE Return(u)
      BY <1>1, <2>1, <2>2, UploadEnds
    <2>3. CASE objects[Key(u)] = None /\ Goto(u, "quota")
      BY <1>2, <2>1, <2>3
    <2>4. CASE /\ objects[Key(u)] # None /\ up[u].force /\ inFlight' = inFlight
               /\ up' = [up EXCEPT ![u].pc = "quota", ![u].exists = TRUE,
                                   ![u].old = objects[Key(u)].size]
      <3>1. objects[Key(u)].size \in Nat
        BY <1>1, <2>1, <2>4, KeyType DEF Object
      <3>2. /\ up' \in [Uploaders -> Upload]
            /\ \A v \in Uploaders : v # u => up'[v] = up[v]
            /\ up'[u].id = up[u].id /\ up'[u].path = up[u].path /\ up'[u].force = up[u].force
            /\ up'[u].pc = "quota"
        <4> DEFINE new == [up[u] EXCEPT !.pc = "quota", !.exists = TRUE,
                                        !.old = objects[Key(u)].size]
        <4>1. up[u] \in Upload
          BY <1>1
        <4>2. /\ new \in Upload /\ new.id = up[u].id /\ new.path = up[u].path
              /\ new.force = up[u].force /\ new.pc = "quota"
          BY <3>1, <4>1 DEF Upload, UploadPcs
        <4>3. up' = [up EXCEPT ![u] = new]
          BY <2>4
        <4> HIDE DEF new
        <4> QED
          BY <1>1, <4>2, <4>3
      <3> QED
        BY <1>1, <2>1, <2>4, <3>2, UploadGoes
    <2> QED
      BY <1>4, <2>2, <2>3, <2>4 DEF Stat
  <1>5. CASE CheckQuota(u) \/ CopyBody(u) \/ RecheckQuota(u)
    <2>1. Holding(u) /\ objects' = objects /\ up[u].pc # "stat"
      BY <1>5 DEF CheckQuota, CopyBody, RecheckQuota, Holding
    <2>2. Return(u) \/ Goto(u, "copy") \/ Goto(u, "recheck") \/ Goto(u, "commit")
      BY <1>5 DEF CheckQuota, CopyBody, RecheckQuota
    <2>3. CASE Return(u)
      BY <1>1, <2>1, <2>3, UploadEnds
    <2> QED
      BY <1>2, <2>1, <2>2, <2>3
  <1>6. CASE Commit(u)
    <2>1. /\ Holding(u) /\ Return(u)
          /\ objects' = objects \/ objects' = [objects EXCEPT ![Key(u)] = Uploaded(u)]
      BY <1>6 DEF Commit, Holding
    <2> QED
      BY <1>1, <2>1, UploadEnds
  <1> QED
    BY <1>3, <1>4, <1>5, <1>6 DEF UploadStep

\* A step that at most takes objects away disturbs no upload.
LEMMA OthersKeepUploads ==
    ASSUME UploadsSerial, up' = up, inFlight' = inFlight, repos' \in [Ids -> Nat],
           born' \in Nat,
           objects' = objects \/ \E k \in ObjectKeys : objects' = [objects EXCEPT ![k] = None]
    PROVE  UploadsSerial'
  <1>1. objects \in [ObjectKeys -> Object \cup {None}]
    BY DEF UploadsSerial
  <1>2. /\ objects' \in [ObjectKeys -> Object \cup {None}]
        /\ \A j \in ObjectKeys : objects[j] = None => objects'[j] = None
    BY <1>1
  <1>3. \A u \in Uploaders : Key(u)' = Key(u) /\ (Holding(u)' <=> Holding(u))
    BY DEF Key, Holding
  <1>4. \A u \in Uploaders : Holding(u) => Key(u) \in ObjectKeys
    BY KeyType DEF Holding
  <1> QED
    BY <1>2, <1>3, <1>4 DEF UploadsSerial

\* A new upload holds nothing yet.
LEMMA PutInv ==
    ASSUME UploadsSerial, NEW u \in Uploaders, NEW id \in Ids, NEW p \in Paths,
           NEW s \in Sizes, NEW f \in BOOLEAN, PutObject(u, id, p, s, f)
    PROVE  UploadsSerial'
  <1>1. /\ up \in [Uploaders -> Upload] /\ repos[id] \in Nat /\ s \in Nat /\ id \in Nat
        /\ inFlight' = inFlight /\ objects' = objects /\ repos' = repos /\ born' = born
    BY RepoAssumption DEF UploadsSerial, PutObject, Ids
  <1> DEFINE new == [pc |-> "acquire", id |-> id, by |-> repos[id], path |-> p,
                     size |-> s, force |-> f, exists |-> FALSE, old |-> 0]
  <1>2. up' = [up EXCEPT ![u] = new]
    BY DEF PutObject
  <1>3. new \in Upload
    BY <1>1 DEF Upload, UploadPcs
  <1>4. /\ up' \in [Uploaders -> Upload] /\ up'[u].pc = "acquire" /\ up'[u].id = id
        /\ \A v \in Uploaders : v # u => up'[v] = up[v]
    BY <1>1, <1>2, <1>3
  <1>5. \A v \in Uploaders : Holding(v)' => v # u /\ Holding(v) /\ Key(v)' = Key(v)
    BY <1>4 DEF Holding, Key
  <1>6. \A v \in Uploaders : up'[v].pc # "idle" => up'[v].id \in Ids
    BY <1>4 DEF UploadsSerial
  <1> QED
    BY <1>1, <1>4, <1>5, <1>6 DEF UploadsSerial

\* Every step keeps the uploads of a key apart.
LEMMA SerialStep == UploadsSerial /\ [Next]_vars => UploadsSerial'
  <1> SUFFICES ASSUME UploadsSerial, [Next]_vars PROVE UploadsSerial'
    OBVIOUS
  <1>1. repos \in [Ids -> Nat] /\ born \in Nat
    BY DEF UploadsSerial
  <1>2. CASE CreateRepo
    <2>1. /\ repos' = [repos EXCEPT ![NewId] = born'] /\ born' = born + 1
          /\ up' = up /\ inFlight' = inFlight /\ objects' = objects /\ born < MaxCreates
      BY <1>2 DEF CreateRepo
    <2> QED
      <3>1. born' \in Nat
        BY <1>1, <2>1
      <3>2. PICK i, n : repos' = [repos EXCEPT ![i] = n] /\ n \in Nat
        BY <2>1, <3>1
      <3>3. \A j \in Ids : repos'[j] \in Nat
        BY <1>1, <3>2
      <3>4. repos' \in [Ids -> Nat]
        BY <1>1, <3>2, <3>3
      <3> QED
        BY <2>1, <3>1, <3>4, OthersKeepUploads
  <1>3. ASSUME NEW id \in Ids, DeleteRepo(id) PROVE UploadsSerial'
    <2>1. /\ repos' = [repos EXCEPT ![id] = 0]
          /\ up' = up /\ inFlight' = inFlight /\ objects' = objects /\ born' = born
      BY <1>3 DEF DeleteRepo
    <2>2. repos' \in [Ids -> Nat] /\ born' \in Nat
      BY <1>1, <2>1
    <2> QED
      BY <2>1, <2>2, OthersKeepUploads
  <1>4. CASE \E u \in Uploaders, id \in Ids, p \in Paths, s \in Sizes, f \in BOOLEAN :
                PutObject(u, id, p, s, f)
    BY <1>4, PutInv
  <1>5. CASE \E u \in Uploaders : UploadStep(u)
    BY <1>5, UploadInv
  <1>6. CASE \/ \E k \in ObjectKeys : DeleteObject(k)
             \/ SweepBegin
             \/ \E w \in Walkers : WalkStep(w) \/ WalkAborts(w)
             \/ UNCHANGED vars
    <2>1. /\ up' = up /\ inFlight' = inFlight /\ repos' = repos /\ born' = born
          /\ objects' = objects \/ \E k \in ObjectKeys : objects' = [objects EXCEPT ![k] = None]
      BY <1>6 DEF DeleteObject, SweepBegin, WalkStep, WalkBegin, WalkEnd, WalkDelete, WalkAborts,
                  vars
    <2> QED
      BY <1>1, <2>1, OthersKeepUploads
  <1>7. CASE Crash
    <2>1. /\ up' = [u \in Uploaders |-> IdleUpload] /\ repos' = repos /\ objects' = objects
          /\ born' = born
      BY <1>7 DEF Crash
    <2>2. up' \in [Uploaders -> Upload] /\ \A u \in Uploaders : up'[u].pc = "idle"
      BY <2>1, IdleUploadType
    <2>3. \A u \in Uploaders : ~Holding(u)'
      BY <2>2 DEF Holding
    <2> QED
      BY <1>1, <2>1, <2>2, <2>3 DEF UploadsSerial
  <1> QED
    BY <1>2, <1>3, <1>4, <1>5, <1>6, <1>7 DEF Next

\* The storage begins empty, nobody uploads.
LEMMA SerialInit == Init => UploadsSerial
  <1> SUFFICES ASSUME Init PROVE UploadsSerial
    OBVIOUS
  <1>1. up \in [Uploaders -> Upload] /\ \A u \in Uploaders : up[u].pc = "idle"
    BY IdleUploadType DEF Init
  <1>2. \A u \in Uploaders : ~Holding(u)
    BY <1>1 DEF Holding
  <1>3. objects \in [ObjectKeys -> Object \cup {None}] /\ repos \in [Ids -> Nat] /\ born \in Nat
    BY DEF Init
  <1> QED
    BY <1>1, <1>2, <1>3 DEF UploadsSerial

\* acquireInFlight and one Stat rule out a silent overwrite: what is there is
\* replaced by a forced upload only.
THEOREM NoOverwrite == Spec => NoSilentOverwrite
  <1> DEFINE Forced == \A k \in ObjectKeys :
                objects[k] # None /\ objects'[k] # objects[k] /\ objects'[k] # None =>
                  \E u \in Uploaders : up[u].pc = "commit" /\ Key(u) = k /\ up[u].force
  <1>1. ASSUME UploadsSerial, [Next]_vars PROVE Forced
    <2> SUFFICES ASSUME NEW k \in ObjectKeys, objects[k] # None, objects'[k] # objects[k],
                        objects'[k] # None
                 PROVE  \E u \in Uploaders : up[u].pc = "commit" /\ Key(u) = k /\ up[u].force
      OBVIOUS
    <2>1. objects \in [ObjectKeys -> Object \cup {None}]
      BY <1>1 DEF UploadsSerial
    <2>2. \A j \in ObjectKeys : objects' # [objects EXCEPT ![j] = None]
      BY <2>1
    <2>3. PICK u \in Uploaders : Commit(u)
      BY <1>1, <2>2
         DEF Next, vars, CreateRepo, DeleteRepo, PutObject, UploadStep, Acquire, Stat, CheckQuota,
             CopyBody, RecheckQuota, DeleteObject, SweepBegin, WalkStep, WalkBegin, WalkEnd,
             WalkDelete, WalkAborts, Crash
    <2>4. up[u].pc = "commit" /\ objects' = [objects EXCEPT ![Key(u)] = Uploaded(u)]
      BY <2>3 DEF Commit
    <2>5. Key(u) = k
      BY <2>1, <2>4
    <2>6. up[u].force
      BY <1>1, <2>4, <2>5 DEF UploadsSerial, Holding
    <2> QED
      BY <2>4, <2>5, <2>6
  <1>2. UploadsSerial /\ [Next]_vars => [Forced]_vars
    BY <1>1
  <1> QED
    BY <1>2, SerialInit, SerialStep, PTL DEF Spec, NoSilentOverwrite

-----------------------------------------------------------------------------
(* Incarnations *)

\* A step that leaves the catalogue and the walks of prefix tasks as they are.
LEMMA IncarnationsStay ==
    ASSUME UploadsSerial, IdsOnce, repos' = repos, lastId' = lastId, born' = born,
           walk' \in [Walkers -> Walk],
           \A id \in Ids : walk'[id].pc # "idle" =>
              walk[id].pc # "idle" /\ walk'[id].doomed = walk[id].doomed,
           \A k \in ObjectKeys : objects'[k] # None => objects'[k].by = k[1],
           \A u \in Uploaders : up'[u].pc # "idle" => up'[u].by = up'[u].id
    PROVE  IdsOnce'
  BY DEF IdsOnce

\* The steps of an upload carry the incarnation it was meant for.
LEMMA UploadCarries ==
    ASSUME UploadsSerial, IdsOnce, NEW u \in Uploaders, UploadStep(u)
    PROVE  IdsOnce'
  <1>1. /\ up \in [Uploaders -> Upload] /\ objects \in [ObjectKeys -> Object \cup {None}]
        /\ up[u].pc # "idle" /\ repos' = repos /\ lastId' = lastId /\ born' = born
        /\ walk' = walk
    BY DEF UploadsSerial, UploadStep, Acquire, Stat, CheckQuota, CopyBody, RecheckQuota, Commit
  <1>2. \/ up' = [up EXCEPT ![u] = IdleUpload]
        \/ \E pc \in UploadPcs : up' = [up EXCEPT ![u].pc = pc]
        \/ \E old : up' = [up EXCEPT ![u].pc = "quota", ![u].exists = TRUE, ![u].old = old]
    BY DEF UploadStep, Acquire, Stat, CheckQuota, CopyBody, RecheckQuota, Commit, Goto, Return,
           UploadPcs
  <1>3. \A v \in Uploaders : up'[v].pc # "idle" =>
           /\ up[v].pc # "idle" /\ up'[v].by = up[v].by /\ up'[v].id = up[v].id
    BY <1>1, <1>2, IdleUploadType DEF Upload
  <1>4. \/ objects' = objects
        \/ objects' = [objects EXCEPT ![Key(u)] = Uploaded(u)]
    BY DEF UploadStep, Acquire, Stat, CheckQuota, CopyBody, RecheckQuota, Commit
  <1>5. Uploaded(u).by = Key(u)[1]
    BY <1>1, KeyType DEF Uploaded, IdsOnce
  <1>6. \A k \in ObjectKeys : objects'[k] # None => objects'[k].by = k[1]
    BY <1>1, <1>4, <1>5 DEF IdsOnce
  <1>7. \A v \in Uploaders : up'[v].pc # "idle" => up'[v].by = up'[v].id
    BY <1>3 DEF IdsOnce
  <1>8. walk' \in [Walkers -> Walk]
    BY <1>1 DEF IdsOnce
  <1> QED
    BY <1>1, <1>6, <1>7, <1>8, IncarnationsStay

\* Sweeps and deletions of objects.
LEMMA WalkCarries ==
    ASSUME UploadsSerial, IdsOnce,
           \/ \E k \in ObjectKeys : DeleteObject(k)
           \/ SweepBegin
           \/ \E w \in Walkers : WalkStep(w) \/ WalkAborts(w)
    PROVE  IdsOnce'
  <1>1. /\ repos' = repos /\ lastId' = lastId /\ born' = born /\ up' = up
        /\ objects' = objects \/ \E k \in ObjectKeys : objects' = [objects EXCEPT ![k] = None]
    BY DEF DeleteObject, SweepBegin, WalkStep, WalkBegin, WalkEnd, WalkDelete, WalkAborts
  <1>2. /\ objects \in [ObjectKeys -> Object \cup {None}] /\ walk \in [Walkers -> Walk]
        /\ \A w \in Walkers : walk[w] \in Walk
    BY DEF UploadsSerial, IdsOnce
  <1>3. \A k \in ObjectKeys : objects'[k] # None => objects'[k].by = k[1]
    BY <1>1, <1>2 DEF IdsOnce
  <1>4. \A u \in Uploaders : up'[u].pc # "idle" => up'[u].by = up'[u].id
    BY <1>1 DEF IdsOnce
  <1>5. IdleWalk \in Walk /\ IdleWalk.pc = "idle"
    BY DEF IdleWalk, Walk
  <1>6. ASSUME NEW w \in Walkers, NEW new \in Walk, walk' = [walk EXCEPT ![w] = new],
               new.pc = "idle" \/ w \notin Ids \/ (walk[w].pc # "idle" /\ new.doomed = walk[w].doomed)
        PROVE  IdsOnce'
    <2>1. Ids \subseteq Walkers
      BY DEF Walkers
    <2>2. walk' \in [Walkers -> Walk]
      BY <1>2, <1>6
    <2>3. \A id \in Ids : walk'[id].pc # "idle" =>
             walk[id].pc # "idle" /\ walk'[id].doomed = walk[id].doomed
      BY <1>2, <1>6, <2>1
    <2> QED
      BY <1>1, <1>3, <1>4, <2>2, <2>3, IncarnationsStay
  <1>7. CASE \E k \in ObjectKeys : DeleteObject(k)
    <2>1. walk' = walk
      BY <1>7 DEF DeleteObject
    <2> QED
      BY <1>1, <1>2, <1>3, <1>4, <2>1, IncarnationsStay
  <1>8. CASE SweepBegin
    <2> DEFINE new == [pc |-> "ready", doomed |-> Doomed, todo |-> {}, met |-> {}]
    <2>1. walk' = [walk EXCEPT ![0] = new]
      BY <1>8 DEF SweepBegin
    <2>2. new \in Walk /\ 0 \in Walkers /\ 0 \notin Ids
      BY DEF Walk, Doomed, Walkers, Ids
    <2> QED
      BY <1>6, <2>1, <2>2
  <1>9. ASSUME NEW w \in Walkers, WalkStep(w) \/ WalkAborts(w) PROVE IdsOnce'
    <2>1. CASE WalkEnd(w) \/ WalkAborts(w)
      <3>1. walk' = [walk EXCEPT ![w] = IdleWalk]
        BY <2>1 DEF WalkEnd, WalkAborts
      <3> QED
        BY <1>5, <1>6, <3>1
    <2>2. CASE WalkBegin(w)
      <3> DEFINE all == {k \in ObjectKeys : k[1] \in walk[w].doomed /\ objects[k] # None}
                 new == [walk[w] EXCEPT !.pc = "list", !.todo = all]
      <3>1. walk' = [walk EXCEPT ![w] = new] /\ walk[w].pc # "idle"
        BY <2>2 DEF WalkBegin
      <3>2. new \in Walk /\ new.doomed = walk[w].doomed
        BY <1>2 DEF Walk
      <3> QED
        BY <1>6, <3>1, <3>2
    <2>3. CASE \E k \in ObjectKeys : WalkDelete(w, k)
      <3>1. PICK k \in ObjectKeys : WalkDelete(w, k)
        BY <2>3
      <3> DEFINE new == [walk[w] EXCEPT !.met = walk[w].met \cup {k}]
      <3>2. walk' = [walk EXCEPT ![w] = new] /\ walk[w].pc # "idle"
        BY <3>1 DEF WalkDelete
      <3>3. new \in Walk /\ new.doomed = walk[w].doomed
        BY <1>2 DEF Walk
      <3> QED
        BY <1>6, <3>2, <3>3
    <2> QED
      BY <1>9, <2>1, <2>2, <2>3 DEF WalkStep
  <1> QED
    BY <1>7, <1>8, <1>9

\* Every step hands an id out at most once.
LEMMA IdsOnceStep ==
    ASSUME ~ReuseIds
    PROVE  UploadsSerial /\ IdsOnce /\ [Next]_vars => IdsOnce'
  <1> SUFFICES ASSUME UploadsSerial, IdsOnce, [Next]_vars PROVE IdsOnce'
    OBVIOUS
  <1>1. /\ repos \in [Ids -> Nat] /\ walk \in [Walkers -> Walk]
        /\ born \in Nat /\ born <= MaxCreates /\ lastId = born /\ MaxCreates \in Nat
        /\ Ids \subseteq Walkers /\ Ids = 1..MaxCreates
    BY RepoAssumption DEF UploadsSerial, IdsOnce, Walkers, Ids
  <1>2. CASE CreateRepo
    <2>1. NewId = lastId + 1
      BY DEF NewId
    <2>2. /\ born' = born + 1 /\ repos' = [repos EXCEPT ![born + 1] = born + 1]
          /\ objects' = objects /\ up' = up /\ walk' = walk /\ born < MaxCreates
      BY <1>1, <1>2, <2>1 DEF CreateRepo
    <2>3. lastId' = born + 1
      BY <1>1, <1>2, <2>1 DEF CreateRepo
    <2>4. born' \in 0..MaxCreates
      BY <1>1, <2>2
    <2>5. \A id \in Ids : /\ repos'[id] \in {0, id} /\ (id > lastId' => repos'[id] = 0)
                          /\ id # born + 1 => repos'[id] = repos[id]
      BY <1>1, <2>2, <2>3 DEF IdsOnce
    <2>6. \A id \in Ids : walk[id].pc # "idle" =>
             walk[id].doomed = {id} /\ repos'[id] = 0 /\ id <= lastId'
      BY <1>1, <2>3, <2>5 DEF IdsOnce
    <2> QED
      BY <2>2, <2>3, <2>4, <2>5, <2>6 DEF IdsOnce
  <1>3. ASSUME NEW id \in Ids, DeleteRepo(id) PROVE IdsOnce'
    <2>1. /\ repos' = [repos EXCEPT ![id] = 0] /\ repos[id] # 0
          /\ lastId' = lastId /\ born' = born /\ objects' = objects /\ up' = up
      BY <1>3 DEF DeleteRepo
    <2>2. id <= lastId
      BY <1>1, <2>1 DEF IdsOnce
    <2>3. \A j \in Ids : repos'[j] \in {0, j} /\ (j > lastId => repos'[j] = 0)
      BY <1>1, <2>1 DEF IdsOnce
    <2> DEFINE new == [pc |-> "ready", doomed |-> {id}, todo |-> {}, met |-> {}]
    <2>4. new \in Walk
      BY DEF Walk
    <2>5. walk' = walk \/ walk' = [walk EXCEPT ![id] = new]
      BY <1>3 DEF DeleteRepo
    <2>6. walk' \in [Walkers -> Walk]
      BY <1>1, <2>4, <2>5
    <2>7. \A j \in Ids : walk'[j].pc # "idle" =>
             walk'[j].doomed = {j} /\ repos'[j] = 0 /\ j <= lastId
      BY <1>1, <2>1, <2>2, <2>5 DEF IdsOnce
    <2> QED
      BY <2>1, <2>3, <2>6, <2>7 DEF IdsOnce
  <1>4. ASSUME NEW u \in Uploaders, NEW id \in Ids, NEW p \in Paths, NEW s \in Sizes,
               NEW f \in BOOLEAN, PutObject(u, id, p, s, f)
        PROVE  IdsOnce'
    <2>1. /\ repos[id] # 0 /\ repos' = repos /\ lastId' = lastId /\ born' = born
          /\ objects' = objects /\ walk' = walk
          /\ up' = [up EXCEPT ![u] =
                      [pc |-> "acquire", id |-> id, by |-> repos[id], path |-> p,
                       size |-> s, force |-> f, exists |-> FALSE, old |-> 0]]
      BY <1>4 DEF PutObject
    <2>2. repos[id] = id
      BY <2>1 DEF IdsOnce
    <2>3. up \in [Uploaders -> Upload]
      BY DEF UploadsSerial
    <2>4. \A v \in Uploaders : up'[v].pc # "idle" => up'[v].by = up'[v].id
      BY <2>1, <2>2, <2>3 DEF IdsOnce
    <2> QED
      BY <2>1, <2>4 DEF IdsOnce
  <1>5. CASE \E u \in Uploaders : UploadStep(u)
    BY <1>5, UploadCarries
  <1>6. CASE \/ \E k \in ObjectKeys : DeleteObject(k)
             \/ SweepBegin
             \/ \E w \in Walkers : WalkStep(w) \/ WalkAborts(w)
    BY <1>6, WalkCarries
  <1>7. CASE Crash
    <2>1. /\ repos' = repos /\ lastId' = lastId /\ born' = born /\ objects' = objects
          /\ up' = [u \in Uploaders |-> IdleUpload] /\ walk' = [w \in Walkers |-> IdleWalk]
      BY <1>7 DEF Crash
    <2>2. IdleWalk \in Walk /\ IdleWalk.pc = "idle"
      BY DEF IdleWalk, Walk
    <2>3. /\ walk' \in [Walkers -> Walk] /\ \A id \in Ids : walk'[id].pc = "idle"
          /\ \A u \in Uploaders : up'[u].pc = "idle"
      BY <1>1, <2>1, <2>2, IdleUploadType
    <2> QED
      BY <2>1, <2>3 DEF IdsOnce
  <1>8. CASE UNCHANGED vars
    BY <1>8 DEF vars, IdsOnce
  <1> QED
    BY <1>2, <1>3, <1>4, <1>5, <1>6, <1>7, <1>8 DEF Next

\* With ids that are never handed out twice both invariants hold for ever.
THEOREM Incarnations ==
    ASSUME ~ReuseIds
    PROVE  Spec => [](UploadsSerial /\ IdsOnce)
  <1>1. Init => IdsOnce
    <2> SUFFICES ASSUME Init PROVE IdsOnce
      OBVIOUS
    <2>1. IdleWalk \in Walk /\ IdleWalk.pc = "idle" /\ Ids \subseteq Walkers
      BY DEF IdleWalk, Walk, Walkers
    <2>2. walk \in [Walkers -> Walk] /\ \A id \in Ids : walk[id].pc = "idle"
      BY <2>1 DEF Init
    <2>3. \A u \in Uploaders : up[u].pc = "idle"
      BY IdleUploadType DEF Init
    <2>4. lastId = born /\ born \in 0..MaxCreates
      BY RepoAssumption DEF Init
    <2>5. /\ \A id \in Ids : repos[id] = 0
          /\ \A k \in ObjectKeys : objects[k] = None
      BY DEF Init
    <2> QED
      BY <2>2, <2>3, <2>4, <2>5 DEF IdsOnce
  <1>2. UploadsSerial /\ IdsOnce /\ [Next]_vars => UploadsSerial' /\ IdsOnce'
    BY SerialStep, IdsOnceStep
  <1> QED
    BY <1>1, <1>2, SerialInit, PTL DEF Spec

\* A repository shows only what was uploaded to it, although uploads and sweeps
\* of its predecessors may still be running.
THEOREM RepositoriesApart ==
    ASSUME ~ReuseIds
    PROVE  Spec => []OwnObjectsOnly
  <1>1. IdsOnce => OwnObjectsOnly
    <2> SUFFICES ASSUME IdsOnce, NEW k \in ObjectKeys, objects[k] # None, k[1] \in Live
                 PROVE  objects[k].by = repos[k[1]]
      BY DEF OwnObjectsOnly
    <2> QED
      BY DEF IdsOnce, Live
  <1> QED
    BY <1>1, Incarnations, PTL

\* The prefix task of a deleted repository deletes nothing of a live one.
THEOREM PrefixTasksSafe ==
    ASSUME ~ReuseIds
    PROVE  Spec => []PrefixTaskSparesLive
  <1>1. IdsOnce => PrefixTaskSparesLive
    BY DEF IdsOnce, PrefixTaskSparesLive, SparesLive, Live
  <1> QED
    BY <1>1, Incarnations, PTL

-----------------------------------------------------------------------------
(* The quota.  Bytes are counted one by one, so that what is stored and what *)
(* is about to be stored are sets, and the bounds are facts about finite    *)
(* sets.                                                                    *)

\* The largest announced size.
LEMMA LargestSize ==
    ASSUME Sizes # {}
    PROVE  Max(Sizes) \in Nat /\ \A s \in Sizes : s \in Nat /\ s <= Max(Sizes)
  <1>1. PICK m \in Sizes : \A s \in Sizes : s <= m
    BY RepoAssumption
  <1>2. Sizes \subseteq Nat
    BY RepoAssumption
  <1>3. \E x \in Sizes : \A y \in Sizes : x >= y
    BY <1>1, <1>2
  <1>4. Max(Sizes) \in Sizes /\ \A y \in Sizes : Max(Sizes) >= y
    BY <1>3 DEF Max
  <1> QED
    BY <1>2, <1>4

LEMMA BytesOf ==
    ASSUME NEW ks
    PROVE  \A b : b \in Bytes(ks) <=> \E k \in ks : \E i \in 1..objects[k].size : b = <<k, i>>
  BY DEF Bytes

LEMMA ClaimsOf ==
    ASSUME NEW us, NEW id
    PROVE  \A b : b \in Claims(us, id) <=>
              \E u \in us : up[u].pc = "commit" /\ up[u].id = id
                            /\ \E i \in 1..up[u].size : b = <<Key(u), i>>
  BY DEF Claims

\* A block of bytes of one key.
LEMMA BlockSize ==
    ASSUME NEW k, NEW n \in Nat
    PROVE  IsFiniteSet({k} \X (1..n)) /\ Cardinality({k} \X (1..n)) = n
  <1>1. IsFiniteSet({k}) /\ Cardinality({k}) = 1
    BY FS_Singleton
  <1>2. IsFiniteSet(1..n) /\ Cardinality(1..n) = n
    BY FS_Interval
  <1>3. IsFiniteSet({k} \X (1..n)) /\ Cardinality({k} \X (1..n)) = 1 * n
    <2> DEFINE A == {k}  B == 1..n
    <2>1. IsFiniteSet(A) /\ IsFiniteSet(B)
      BY <1>1, <1>2
    <2> HIDE DEF A, B
    <2>2. IsFiniteSet(A \X B) /\ Cardinality(A \X B) = Cardinality(A) * Cardinality(B)
      BY <2>1, FS_Product
    <2> QED
      BY <1>1, <1>2, <2>2 DEF A, B
  <1> QED
    BY <1>3

\* The bytes under one prefix are finitely many.
LEMMA StoredFinite ==
    ASSUME StatStands, Sizes # {}, NEW id, NEW ks \in SUBSET Stored(id)
    PROVE  IsFiniteSet(Bytes(ks)) /\ Cardinality(Bytes(ks)) \in Nat
  <1> DEFINE M == Max(Sizes)
             All == ({id} \X Paths) \X (1..M)
  <1>1. M \in Nat /\ \A s \in Sizes : s \in Nat /\ s <= M
    BY LargestSize
  <1>2. IsFiniteSet({id} \X Paths)
    BY FS_Singleton, FS_Product, RepoAssumption
  <1>3. IsFiniteSet(1..M)
    BY <1>1, FS_Interval
  <1>4. IsFiniteSet(All)
    BY <1>2, <1>3, FS_Product
  <1> HIDE DEF M
  <1>5. Bytes(ks) \subseteq All
    <2> SUFFICES ASSUME NEW k \in ks, NEW i \in 1..objects[k].size PROVE <<k, i>> \in All
      BY BytesOf
    <2>1. k \in ObjectKeys /\ k[1] = id /\ objects[k] # None
      BY DEF Stored
    <2>2. k \in {id} \X Paths
      BY <2>1 DEF ObjectKeys
    <2>3. objects[k].size \in Nat /\ objects[k].size <= M
      BY <1>1, <2>1 DEF StatStands
    <2>4. i \in 1..M
      BY <1>1, <2>3
    <2> QED
      BY <2>2, <2>4
  <1> QED
    BY <1>4, <1>5, FS_Subset, FS_CardinalityType

\* An uploader in its commit window claims no more than the largest object.
LEMMA ClaimsBounded ==
    ASSUME StatStands, Sizes # {}, NEW us \in SUBSET Uploaders, NEW id
    PROVE  /\ IsFiniteSet(Claims(us, id))
           /\ Cardinality(Claims(us, id)) \in Nat
           /\ Cardinality(Claims(us, id)) <= Cardinality(us) * Max(Sizes)
  <1> DEFINE M == Max(Sizes)
             S == us \X (1..M)
             f == [p \in S |-> <<Key(p[1]), p[2]>>]
             T == {f[p] : p \in S}
  <1>1. M \in Nat /\ \A s \in Sizes : s \in Nat /\ s <= M
    BY LargestSize
  <1>2. IsFiniteSet(us) /\ Cardinality(us) \in Nat
    BY RepoAssumption, FS_Subset, FS_CardinalityType
  <1>3. IsFiniteSet(1..M) /\ Cardinality(1..M) = M
    BY <1>1, FS_Interval
  <1>4. IsFiniteSet(S) /\ Cardinality(S) = Cardinality(us) * M
    BY <1>2, <1>3, FS_Product
  <1> HIDE DEF M
  <1>5. f \in Surjection(S, T)
    BY DEF Surjection
  <1>6. IsFiniteSet(T) /\ Cardinality(T) <= Cardinality(S)
    <2> HIDE DEF f, T, S
    <2> QED
      BY <1>4, <1>5, FS_Surjection
  <1>7. Claims(us, id) \subseteq T
    <2> SUFFICES ASSUME NEW u \in us, up[u].pc = "commit", NEW i \in 1..up[u].size
                 PROVE  <<Key(u), i>> \in T
      BY ClaimsOf
    <2>1. up[u].size \in Nat /\ up[u].size <= M
      BY <1>1 DEF StatStands
    <2>2. <<u, i>> \in S
      BY <1>1, <2>1
    <2>3. f[<<u, i>>] = <<Key(u), i>>
      BY <2>2
    <2> QED
      BY <2>2, <2>3
  <1>8. /\ IsFiniteSet(Claims(us, id)) /\ Cardinality(Claims(us, id)) \in Nat
        /\ Cardinality(Claims(us, id)) <= Cardinality(T)
    <2> HIDE DEF T
    <2> QED
      BY <1>6, <1>7, FS_Subset, FS_CardinalityType
  <1>9. Cardinality(T) \in Nat /\ Cardinality(S) \in Nat
    BY <1>4, <1>6, FS_CardinalityType
  <1> QED
    BY <1>4, <1>6, <1>8, <1>9 DEF M

\* The bytes of a prefix, those of one of its objects apart.
LEMMA BytesApart ==
    ASSUME StatStands, Sizes # {}, NEW id, NEW k \in Stored(id)
    PROVE  /\ Bytes(Stored(id)) = Bytes(Stored(id) \ {k}) \cup ({k} \X (1..objects[k].size))
           /\ UsedBytes(id) = Cardinality(Bytes(Stored(id) \ {k})) + objects[k].size
  <1> DEFINE A == Bytes(Stored(id) \ {k})
             B == {k} \X (1..objects[k].size)
  <1>1. objects[k].size \in Nat
    BY LargestSize DEF Stored, StatStands
  <1>2. IsFiniteSet(A) /\ Cardinality(A) \in Nat
    BY StoredFinite
  <1>3. IsFiniteSet(B) /\ Cardinality(B) = objects[k].size
    BY <1>1, BlockSize
  <1>4. Bytes(Stored(id)) = A \cup B
    BY BytesOf
  <1>5. A \cap B = {}
    BY BytesOf
  <1>6. Cardinality(A \cup B) = Cardinality(A) + Cardinality(B)
    <2> HIDE DEF A, B
    <2>1. Cardinality(A \cap B) = 0
      BY <1>5, FS_EmptySet
    <2>2. Cardinality(A \cup B) = Cardinality(A) + Cardinality(B) - Cardinality(A \cap B)
      BY <1>2, <1>3, FS_Union
    <2> QED
      BY <1>1, <1>2, <1>3, <2>1, <2>2
  <1> QED
    BY <1>3, <1>4, <1>6 DEF UsedBytes

\* Steps that leave the uploads alone, but for those that end, and add no object.
LEMMA StatKept ==
    ASSUME UploadsSerial, StatStands,
           \A u \in Uploaders : up'[u].pc # "idle" => up'[u] = up[u],
           \A k \in ObjectKeys : objects'[k] # None => objects'[k] = objects[k]
    PROVE  StatStands'
  <1>1. \A u \in Uploaders : up'[u].pc # "idle" => Key(u)' = Key(u)
    BY DEF Key
  <1>2. \A u \in Uploaders : up[u].pc # "idle" => Key(u) \in ObjectKeys
    BY KeyType
  <1>3. \A u \in Uploaders : Seen(u)' => up'[u].pc # "idle" /\ Seen(u)
    BY DEF Seen
  <1>4. \A u \in Uploaders : Seen(u)' =>
          IF up'[u].exists
          THEN /\ up'[u].old \in Sizes
               /\ objects'[Key(u)'] # None => objects'[Key(u)'].size = up'[u].old
          ELSE objects'[Key(u)'] = None
    <2> SUFFICES ASSUME NEW u \in Uploaders, Seen(u)'
                 PROVE  IF up'[u].exists
                        THEN /\ up'[u].old \in Sizes
                             /\ objects'[Key(u)'] # None => objects'[Key(u)'].size = up'[u].old
                        ELSE objects'[Key(u)'] = None
      OBVIOUS
    <2>1. up'[u] = up[u] /\ Key(u)' = Key(u) /\ Key(u) \in ObjectKeys /\ Seen(u)
      BY <1>1, <1>2, <1>3
    <2>2. objects'[Key(u)] = None \/ objects'[Key(u)] = objects[Key(u)]
      BY <2>1
    <2>3. IF up[u].exists
          THEN /\ up[u].old \in Sizes
               /\ objects[Key(u)] # None => objects[Key(u)].size = up[u].old
          ELSE objects[Key(u)] = None
      BY <2>1 DEF StatStands
    <2> QED
      BY <2>1, <2>2, <2>3
  <1>5. \A k \in ObjectKeys : objects'[k] # None => objects'[k].size \in Sizes
    BY DEF StatStands
  <1>6. \A u \in Uploaders : up'[u].pc # "idle" => up'[u].size \in Sizes
    BY DEF StatStands
  <1>7. \A u \in Uploaders : up'[u].pc \in {"acquire", "stat"} => ~up'[u].exists
    BY DEF StatStands
  <1> QED
    BY <1>4, <1>5, <1>6, <1>7 DEF StatStands

\* One upload moves on, by itself.
LEMMA StatMoves ==
    ASSUME UploadsSerial, StatStands, NEW u \in Uploaders, objects' = objects,
           \A v \in Uploaders : v # u => up'[v] = up[v],
           up'[u].size \in Sizes,
           up'[u].pc \in {"acquire", "stat"} => ~up'[u].exists,
           Seen(u)' => IF up'[u].exists
                       THEN /\ up'[u].old \in Sizes
                            /\ objects[Key(u)'] # None => objects[Key(u)'].size = up'[u].old
                       ELSE objects[Key(u)'] = None
    PROVE  StatStands'
  <1>1. \A v \in Uploaders : v # u => Key(v)' = Key(v) /\ (Seen(v)' <=> Seen(v))
    BY DEF Key, Seen
  <1>2. ASSUME NEW v \in Uploaders, Seen(v)'
        PROVE  IF up'[v].exists
               THEN /\ up'[v].old \in Sizes
                    /\ objects'[Key(v)'] # None => objects'[Key(v)'].size = up'[v].old
               ELSE objects'[Key(v)'] = None
    <2>1. CASE v = u
      BY <1>2, <2>1
    <2>2. CASE v # u
      <3>1. up'[v] = up[v] /\ Key(v)' = Key(v) /\ Seen(v)
        BY <1>1, <1>2, <2>2
      <3> QED
        BY <3>1 DEF StatStands
    <2> QED
      BY <2>1, <2>2
  <1>3. \A v \in Uploaders : up'[v].pc # "idle" => up'[v].size \in Sizes
    BY DEF StatStands
  <1>4. \A k \in ObjectKeys : objects'[k] # None => objects'[k].size \in Sizes
    BY DEF StatStands
  <1>5. \A v \in Uploaders : up'[v].pc \in {"acquire", "stat"} => ~up'[v].exists
    BY DEF StatStands
  <1> QED
    BY <1>2, <1>3, <1>4, <1>5 DEF StatStands

\* The steps of an upload.
LEMMA StatUpload ==
    ASSUME UploadsSerial, StatStands, NEW u \in Uploaders, UploadStep(u)
    PROVE  StatStands'
  <1>1. /\ up \in [Uploaders -> Upload] /\ objects \in [ObjectKeys -> Object \cup {None}]
        /\ up[u].pc # "idle"
    BY DEF UploadsSerial, UploadStep, Acquire, Stat, CheckQuota, CopyBody, RecheckQuota, Commit
  <1>2. Key(u) \in ObjectKeys /\ up[u].size \in Sizes
    BY <1>1, KeyType DEF StatStands
  <1>3. ASSUME up' = [up EXCEPT ![u] = IdleUpload], objects' = objects PROVE StatStands'
    <2>1. \A v \in Uploaders : up'[v].pc # "idle" => up'[v] = up[v]
      BY <1>1, <1>3, IdleUploadType
    <2> QED
      BY <1>3, <2>1, StatKept
  <1>4. ASSUME NEW pc, up' = [up EXCEPT ![u].pc = pc], objects' = objects,
               \/ up[u].pc = "acquire" /\ pc = "stat"
               \/ up[u].pc = "stat" /\ pc = "quota" /\ objects[Key(u)] = None
               \/ Seen(u) /\ pc \in {"copy", "recheck", "commit"}
        PROVE  StatStands'
    <2>1. /\ \A v \in Uploaders : v # u => up'[v] = up[v]
          /\ up'[u].size = up[u].size /\ up'[u].exists = up[u].exists
          /\ up'[u].old = up[u].old /\ up'[u].pc = pc /\ Key(u)' = Key(u)
      BY <1>1, <1>4 DEF Upload, Key
    <2>2. Seen(u)' => IF up'[u].exists
                      THEN /\ up'[u].old \in Sizes
                           /\ objects[Key(u)'] # None => objects[Key(u)'].size = up'[u].old
                      ELSE objects[Key(u)'] = None
      <3>1. CASE up[u].pc = "acquire" /\ pc = "stat"
        BY <2>1, <3>1 DEF Seen
      <3>2. CASE up[u].pc = "stat" /\ pc = "quota" /\ objects[Key(u)] = None
        BY <2>1, <3>2 DEF StatStands
      <3>3. CASE Seen(u) /\ pc \in {"copy", "recheck", "commit"}
        BY <2>1, <3>3 DEF StatStands
      <3> QED
        BY <1>4, <3>1, <3>2, <3>3
    <2>3. up'[u].pc \in {"acquire", "stat"} => ~up'[u].exists
      BY <1>4, <2>1 DEF StatStands
    <2> QED
      BY <1>2, <1>4, <2>1, <2>2, <2>3, StatMoves
  <1>5. CASE Acquire(u)
    BY <1>3, <1>4, <1>5 DEF Acquire
  <1>6. CASE Stat(u)
    <2>1. CASE up' = [up EXCEPT ![u].pc = "quota", ![u].exists = TRUE,
                                ![u].old = objects[Key(u)].size] /\ objects[Key(u)] # None
      <3>1. /\ \A v \in Uploaders : v # u => up'[v] = up[v]
            /\ up'[u].size = up[u].size /\ up'[u].exists
            /\ up'[u].old = objects[Key(u)].size /\ Key(u)' = Key(u)
            /\ up'[u].pc = "quota"
        BY <1>1, <2>1 DEF Upload, Key
      <3>2. objects[Key(u)].size \in Sizes /\ objects' = objects
        BY <1>2, <1>6, <2>1 DEF StatStands, Stat
      <3> QED
        BY <1>2, <3>1, <3>2, StatMoves
    <2>2. CASE objects[Key(u)] = None /\ Goto(u, "quota")
      <3>1. up[u].pc = "stat" /\ objects' = objects /\ up' = [up EXCEPT ![u].pc = "quota"]
        BY <1>6, <2>2 DEF Stat, Goto
      <3> QED
        BY <1>4, <2>2, <3>1
    <2>3. CASE Return(u)
      BY <1>3, <1>6, <2>3 DEF Return, Stat
    <2> QED
      BY <1>6, <2>1, <2>2, <2>3 DEF Stat
  <1>7. CASE CheckQuota(u) \/ CopyBody(u) \/ RecheckQuota(u)
    <2>1. Seen(u) /\ objects' = objects
      BY <1>7 DEF CheckQuota, CopyBody, RecheckQuota, Seen
    <2>2. CASE Return(u)
      BY <1>3, <2>1, <2>2 DEF Return
    <2>3. CASE \E pc \in {"copy", "recheck", "commit"} : Goto(u, pc)
      BY <1>4, <2>1, <2>3 DEF Goto
    <2> QED
      BY <1>7, <2>2, <2>3 DEF CheckQuota, CopyBody, RecheckQuota
  <1>8. CASE Commit(u)
    <2>1. up' = [up EXCEPT ![u] = IdleUpload] /\ Holding(u)
      BY <1>8 DEF Commit, Return, Holding
    <2>2. CASE objects' = objects
      BY <1>3, <2>1, <2>2
    <2>3. CASE objects' = [objects EXCEPT ![Key(u)] = Uploaded(u)]
      <3>1. \A v \in Uploaders : up'[v].pc # "idle" => v # u /\ up'[v] = up[v] /\ Key(v)' = Key(v)
        BY <1>1, <2>1, IdleUploadType DEF Key
      <3>2. \A k \in ObjectKeys : objects'[k] # None => objects'[k].size \in Sizes
        BY <1>1, <1>2, <2>3 DEF StatStands, Uploaded
      <3>3. ASSUME NEW v \in Uploaders, Seen(v)'
            PROVE  IF up'[v].exists
                   THEN /\ up'[v].old \in Sizes
                        /\ objects'[Key(v)'] # None => objects'[Key(v)'].size = up'[v].old
                   ELSE objects'[Key(v)'] = None
        <4>1. up'[v].pc # "idle"
          BY <3>3 DEF Seen
        <4>2. v # u /\ up'[v] = up[v] /\ Key(v)' = Key(v) /\ Seen(v) /\ Holding(v)
          BY <3>1, <3>3, <4>1 DEF Seen, Holding
        <4>3. Key(v) # Key(u) /\ Key(v) \in ObjectKeys
          BY <2>1, <4>1, <4>2, KeyType DEF UploadsSerial
        <4>4. objects'[Key(v)] = objects[Key(v)]
          BY <1>1, <2>3, <4>3
        <4> QED
          BY <4>2, <4>4 DEF StatStands
      <3>4. \A v \in Uploaders : up'[v].pc # "idle" => up'[v].size \in Sizes
        BY <3>1 DEF StatStands
      <3>5. \A v \in Uploaders : up'[v].pc \in {"acquire", "stat"} => ~up'[v].exists
        BY <3>1 DEF StatStands
      <3> QED
        BY <3>2, <3>3, <3>4, <3>5 DEF StatStands
    <2> QED
      BY <1>8, <2>2, <2>3 DEF Commit
  <1> QED
    BY <1>5, <1>6, <1>7, <1>8 DEF UploadStep

\* The actions that are not steps of an upload: uploads end in a crash or stay,
\* and objects stay or are deleted.
LEMMA OtherActions ==
    ASSUME UploadsSerial,
           \/ CreateRepo
           \/ \E id \in Ids : DeleteRepo(id)
           \/ \E k \in ObjectKeys : DeleteObject(k)
           \/ SweepBegin
           \/ \E w \in Walkers : WalkStep(w) \/ WalkAborts(w)
           \/ Crash
           \/ UNCHANGED vars
    PROVE  /\ \A u \in Uploaders : up'[u].pc # "idle" => up'[u] = up[u]
           /\ \A k \in ObjectKeys : objects'[k] # None => objects'[k] = objects[k]
  <1>1. objects \in [ObjectKeys -> Object \cup {None}] /\ up \in [Uploaders -> Upload]
    BY DEF UploadsSerial
  <1>2. CASE CreateRepo
    BY <1>2 DEF CreateRepo
  <1>3. CASE \E id \in Ids : DeleteRepo(id)
    BY <1>3 DEF DeleteRepo
  <1>4. CASE \E k \in ObjectKeys : DeleteObject(k)
    BY <1>1, <1>4 DEF DeleteObject
  <1>5. CASE SweepBegin
    BY <1>5 DEF SweepBegin
  <1>6. CASE \E w \in Walkers : WalkStep(w) \/ WalkAborts(w)
    <2>1. up' = up
      BY <1>6 DEF WalkStep, WalkAborts, WalkBegin, WalkEnd, WalkDelete
    <2>2. objects' = objects \/ \E k \in ObjectKeys : objects' = [objects EXCEPT ![k] = None]
      BY <1>6 DEF WalkStep, WalkAborts, WalkBegin, WalkEnd, WalkDelete
    <2> QED
      BY <1>1, <2>1, <2>2
  <1>7. CASE Crash
    BY <1>7, IdleUploadType DEF Crash
  <1>8. CASE UNCHANGED vars
    BY <1>8 DEF vars
  <1> QED
    BY <1>2, <1>3, <1>4, <1>5, <1>6, <1>7, <1>8

LEMMA StatPut ==
    ASSUME UploadsSerial, StatStands, NEW u \in Uploaders, NEW id \in Ids, NEW p \in Paths,
           NEW s \in Sizes, NEW f \in BOOLEAN, PutObject(u, id, p, s, f)
    PROVE  StatStands'
  <1>1. up \in [Uploaders -> Upload]
    BY DEF UploadsSerial
  <1>2. /\ \A v \in Uploaders : v # u => up'[v] = up[v]
        /\ up'[u].size = s /\ up'[u].pc = "acquire" /\ ~up'[u].exists /\ objects' = objects
    BY <1>1 DEF PutObject
  <1> QED
    BY <1>2, StatMoves DEF Seen

LEMMA StatStep == UploadsSerial /\ StatStands /\ [Next]_vars => StatStands'
  <1> SUFFICES ASSUME UploadsSerial, StatStands, [Next]_vars PROVE StatStands'
    OBVIOUS
  <1>1. CASE \E u \in Uploaders, id \in Ids, p \in Paths, s \in Sizes, f \in BOOLEAN :
                PutObject(u, id, p, s, f)
    BY <1>1, StatPut
  <1>2. CASE \E u \in Uploaders : UploadStep(u)
    BY <1>2, StatUpload
  <1>3. CASE \/ CreateRepo
             \/ \E id \in Ids : DeleteRepo(id)
             \/ \E k \in ObjectKeys : DeleteObject(k)
             \/ SweepBegin
             \/ \E w \in Walkers : WalkStep(w) \/ WalkAborts(w)
             \/ Crash
             \/ UNCHANGED vars
    BY <1>3, OtherActions, StatKept
  <1> QED
    BY <1>1, <1>2, <1>3 DEF Next

LEMMA StatInit == Init => StatStands
  <1> SUFFICES ASSUME Init PROVE StatStands
    OBVIOUS
  <1>1. \A u \in Uploaders : up[u].pc = "idle"
    BY IdleUploadType DEF Init
  <1>2. \A k \in ObjectKeys : objects[k] = None
    BY DEF Init
  <1> QED
    BY <1>1, <1>2 DEF StatStands, Seen

\* An upload that the quota check lets through: what is stored with its object
\* in place fits, unless the object it meant to replace is gone.
LEMMA AllowedFits ==
    ASSUME UploadsSerial, StatStands, NEW u \in Uploaders, Seen(u), QuotaAllows(u),
           MaxBytes > 0
    PROVE  IF ReplacedGone(u) THEN WithUpload(u) <= MaxBytes + up[u].old
                              ELSE WithUpload(u) <= MaxBytes
  <1> DEFINE id == up[u].id
             k == Key(u)
             rest == Cardinality(Bytes(Stored(id) \ {k}))
  <1>1. /\ up[u].pc # "idle" /\ up[u] \in Upload /\ MaxBytes \in Nat
        /\ up[u].size \in Sizes /\ up[u].size \in Nat /\ up[u].old \in Nat
    BY RepoAssumption DEF Seen, UploadsSerial, StatStands, Upload
  <1>2. k \in ObjectKeys /\ k[1] = id /\ Sizes # {}
    BY <1>1, KeyType
  <1>3. rest \in Nat
    BY <1>2, StoredFinite
  <1>4. UsedBytes(id) + (IF up[u].exists THEN up[u].size - up[u].old ELSE up[u].size) <= MaxBytes
    BY DEF QuotaAllows
  <1>5. CASE objects[k] = None
    <2>1. Stored(id) \ {k} = Stored(id)
      BY <1>5 DEF Stored
    <2>2. UsedBytes(id) = rest
      BY <2>1 DEF UsedBytes
    <2> HIDE DEF rest
    <2>3. WithUpload(u) = rest + up[u].size
      BY DEF WithUpload, rest
    <2> QED
      BY <1>1, <1>3, <1>4, <1>5, <2>2, <2>3 DEF ReplacedGone
  <1>6. CASE objects[k] # None
    <2>1. k \in Stored(id)
      BY <1>2, <1>6 DEF Stored
    <2>2. UsedBytes(id) = rest + objects[k].size
      BY <1>2, <2>1, BytesApart
    <2>3. up[u].exists /\ objects[k].size = up[u].old
      BY <1>6 DEF StatStands
    <2> HIDE DEF rest
    <2>4. WithUpload(u) = rest + up[u].size
      BY DEF WithUpload, rest
    <2> QED
      BY <1>1, <1>3, <1>4, <1>6, <2>2, <2>3, <2>4 DEF ReplacedGone
  <1> QED
    BY <1>5, <1>6

\* The only step into the commit window is the second quota check.
LEMMA IntoWindow ==
    ASSUME UploadsSerial, [Next]_vars, NEW u \in Uploaders, up'[u].pc = "commit"
    PROVE  \/ up'[u] = up[u]
           \/ RecheckQuota(u) /\ QuotaAllows(u) /\ Goto(u, "commit")
  <1>1. up \in [Uploaders -> Upload]
    BY DEF UploadsSerial
  <1>2. CASE \E v \in Uploaders, id \in Ids, p \in Paths, s \in Sizes, f \in BOOLEAN :
                PutObject(v, id, p, s, f)
    BY <1>1, <1>2 DEF PutObject
  <1>3. CASE \E v \in Uploaders : UploadStep(v)
    <2>1. PICK v \in Uploaders : UploadStep(v)
      BY <1>3
    <2>2. CASE v # u
      <3>1. up'[u] = up[u]
        BY <1>1, <2>1, <2>2 DEF UploadStep, Acquire, Stat, CheckQuota, CopyBody, RecheckQuota,
                                Commit, Return, Goto
      <3> QED
        BY <3>1
    <2>3. CASE v = u
      <3>1. CASE Return(u) \/ up' = [up EXCEPT ![u] = IdleUpload]
        BY <1>1, <3>1, IdleUploadType DEF Return
      <3>2. CASE \E pc \in {"copy", "recheck", "quota", "stat"} :
                    up'[u].pc = pc
        BY <3>2
      <3>3. CASE RecheckQuota(u) /\ QuotaAllows(u) /\ Goto(u, "commit")
        BY <3>3
      <3>4. CASE Acquire(u)
        <4>1. up' = [up EXCEPT ![u] = IdleUpload] \/ up' = [up EXCEPT ![u].pc = "stat"]
          BY <3>4 DEF Acquire
        <4> QED
          BY <1>1, <3>1, <3>2, <4>1 DEF Upload
      <3>5. CASE Stat(u)
        <4>1. \/ Return(u) \/ up' = [up EXCEPT ![u].pc = "quota"]
              \/ up' = [up EXCEPT ![u].pc = "quota", ![u].exists = TRUE,
                                  ![u].old = objects[Key(u)].size]
          BY <3>5 DEF Stat, Goto
        <4> QED
          BY <1>1, <3>1, <3>2, <4>1 DEF Upload
      <3>6. CASE CheckQuota(u) \/ CopyBody(u)
        <4>1. \/ Return(u) \/ up' = [up EXCEPT ![u].pc = "copy"]
              \/ up' = [up EXCEPT ![u].pc = "recheck"]
          BY <3>6 DEF CheckQuota, CopyBody, Goto
        <4> QED
          BY <1>1, <3>1, <3>2, <4>1 DEF Upload
      <3>7. CASE RecheckQuota(u) \/ Commit(u)
        BY <3>1, <3>3, <3>7 DEF RecheckQuota, Commit
      <3> QED
        BY <2>1, <2>3, <3>4, <3>5, <3>6, <3>7 DEF UploadStep
    <2> QED
      BY <2>2, <2>3
  <1>4. CASE \/ CreateRepo
             \/ \E id \in Ids : DeleteRepo(id)
             \/ \E k \in ObjectKeys : DeleteObject(k)
             \/ SweepBegin
             \/ \E w \in Walkers : WalkStep(w) \/ WalkAborts(w)
             \/ Crash
             \/ UNCHANGED vars
    BY <1>4, OtherActions
  <1> QED
    BY <1>2, <1>3, <1>4 DEF Next

\* An upload that the second quota check lets through fits into what is stored
\* at that moment, for any number of uploads, deletions and sweeps, unless the
\* object it replaces was deleted during the transfer.
THEOREM ChecksCount == Spec => CheckedUploadFits
  <1> DEFINE Fits == \A u \in Uploaders :
                /\ up[u].pc = "recheck" /\ up'[u].pc = "commit"
                /\ MaxBytes > 0
                => ReplacedGone(u) \/ WithUpload(u) <= MaxBytes
  <1>1. ASSUME UploadsSerial, StatStands, [Next]_vars PROVE Fits
    <2> SUFFICES ASSUME NEW u \in Uploaders, up[u].pc = "recheck", up'[u].pc = "commit",
                        MaxBytes > 0
                 PROVE  ReplacedGone(u) \/ WithUpload(u) <= MaxBytes
      OBVIOUS
    <2>1. QuotaAllows(u) /\ Seen(u)
      BY <1>1, IntoWindow DEF Seen
    <2> QED
      BY <1>1, <2>1, AllowedFits
  <1>2. UploadsSerial /\ StatStands /\ [Next]_vars => UploadsSerial' /\ StatStands'
    BY SerialStep, StatStep
  <1>3. UploadsSerial /\ StatStands /\ [Next]_vars => [Fits]_vars
    BY <1>1
  <1> HIDE DEF Fits
  <1>4. Spec => [][Fits]_vars
    BY <1>2, <1>3, SerialInit, StatInit, PTL DEF Spec
  <1> QED
    BY <1>4 DEF CheckedUploadFits, Fits

\* What can appear in the storage was in its commit window.
LEMMA StoredFromWindow ==
    ASSUME UploadsSerial, [Next]_vars, NEW k \in ObjectKeys, objects'[k] # None
    PROVE  \/ objects'[k] = objects[k]
           \/ \E u \in Uploaders :
                 up[u].pc = "commit" /\ Key(u) = k /\ objects'[k].size = up[u].size
  <1>1. objects \in [ObjectKeys -> Object \cup {None}]
    BY DEF UploadsSerial
  <1>2. CASE \E u \in Uploaders, id \in Ids, p \in Paths, s \in Sizes, f \in BOOLEAN :
                PutObject(u, id, p, s, f)
    BY <1>2 DEF PutObject
  <1>3. CASE \E u \in Uploaders : UploadStep(u)
    <2>1. PICK u \in Uploaders : UploadStep(u)
      BY <1>3
    <2>2. CASE objects' = objects
      BY <2>2
    <2>3. CASE Commit(u) /\ objects' # objects
      <3>1. up[u].pc = "commit" /\ objects' = [objects EXCEPT ![Key(u)] = Uploaded(u)]
        BY <2>3 DEF Commit
      <3> QED
        BY <1>1, <3>1 DEF Uploaded
    <2> QED
      BY <2>1, <2>2, <2>3 DEF UploadStep, Acquire, Stat, CheckQuota, CopyBody, RecheckQuota
  <1>4. CASE \/ CreateRepo
             \/ \E id \in Ids : DeleteRepo(id)
             \/ \E d \in ObjectKeys : DeleteObject(d)
             \/ SweepBegin
             \/ \E w \in Walkers : WalkStep(w) \/ WalkAborts(w)
             \/ Crash
             \/ UNCHANGED vars
    BY <1>4, OtherActions
  <1> QED
    BY <1>2, <1>3, <1>4 DEF Next

LEMMA HeldFinite ==
    ASSUME StatStands, Sizes # {}, NEW id
    PROVE  IsFiniteSet(Held(id)) /\ Cardinality(Held(id)) \in Nat
  <1>1. IsFiniteSet(Bytes(Stored(id)))
    BY StoredFinite
  <1>2. IsFiniteSet(Claims(Uploaders, id))
    BY ClaimsBounded
  <1> QED
    BY <1>1, <1>2, FS_Union, FS_CardinalityType DEF Held

\* What is stored is held.
LEMMA UsedIsHeld ==
    ASSUME StatStands, Sizes # {}, NEW id
    PROVE  UsedBytes(id) \in Nat /\ UsedBytes(id) <= Cardinality(Held(id))
  <1>1. Bytes(Stored(id)) \subseteq Held(id)
    BY DEF Held
  <1>2. IsFiniteSet(Bytes(Stored(id)))
    BY StoredFinite
  <1> QED
    BY <1>1, <1>2, HeldFinite, FS_Subset, FS_CardinalityType DEF UsedBytes

\* Without an upload that passes the second check nothing new is held.
LEMMA HeldShrinks ==
    ASSUME UploadsSerial, [Next]_vars, NEW id,
           \A u \in Uploaders : up'[u].pc = "commit" => up'[u] = up[u] \/ up[u].id # id
    PROVE  Held(id)' \subseteq Held(id)
  <1>0. \A u \in Uploaders : up'[u].pc = "commit" => up'[u].id = up[u].id /\ Key(u)' = Key(u)
    <2> SUFFICES ASSUME NEW u \in Uploaders, up'[u].pc = "commit"
                 PROVE  up'[u].id = up[u].id /\ Key(u)' = Key(u)
      OBVIOUS
    <2>1. CASE up'[u] = up[u]
      BY <2>1 DEF Key
    <2>2. CASE Goto(u, "commit")
      BY <2>2 DEF Goto, Key, UploadsSerial, Upload
    <2> QED
      BY <2>1, <2>2, IntoWindow
  <1>1. ASSUME NEW k \in Stored(id)', NEW i \in 1..objects'[k].size
        PROVE  <<k, i>> \in Held(id)
    <2>1. k \in ObjectKeys /\ k[1] = id /\ objects'[k] # None
      BY DEF Stored
    <2>2. CASE objects'[k] = objects[k]
      <3>1. k \in Stored(id)
        BY <2>1, <2>2 DEF Stored
      <3> QED
        BY <1>1, <2>2, <3>1, BytesOf DEF Held
    <2>3. CASE \E u \in Uploaders :
                 up[u].pc = "commit" /\ Key(u) = k /\ objects'[k].size = up[u].size
      <3>1. PICK u \in Uploaders : up[u].pc = "commit" /\ Key(u) = k /\ objects'[k].size = up[u].size
        BY <2>3
      <3>2. up[u].id = id
        BY <2>1, <3>1 DEF Key
      <3> QED
        BY <1>1, <3>1, <3>2, ClaimsOf DEF Held
    <2> QED
      BY <2>1, <2>2, <2>3, StoredFromWindow
  <1>2. ASSUME NEW u \in Uploaders, up'[u].pc = "commit", up'[u].id = id,
               NEW i \in 1..up'[u].size
        PROVE  <<Key(u)', i>> \in Held(id)
    <2>1. up'[u] = up[u] /\ Key(u)' = Key(u)
      BY <1>0, <1>2
    <2> QED
      BY <1>2, <2>1, ClaimsOf DEF Held
  <1>3. Bytes(Stored(id))' \subseteq Held(id)
    BY <1>1 DEF Bytes
  <1>4. Claims(Uploaders, id)' \subseteq Held(id)
    BY <1>2 DEF Claims
  <1> QED
    BY <1>3, <1>4 DEF Held

\* The upload that passes the second check brings its own object.
LEMMA HeldGrows ==
    ASSUME UploadsSerial, NEW u \in Uploaders, RecheckQuota(u), Goto(u, "commit"), NEW id
    PROVE  Held(id)' \subseteq Held(id) \cup ({Key(u)} \X (1..up[u].size))
  <1>1. /\ objects' = objects /\ up' = [up EXCEPT ![u].pc = "commit"]
        /\ up \in [Uploaders -> Upload]
    BY DEF RecheckQuota, Goto, UploadsSerial
  <1>2. \A v \in Uploaders : Key(v)' = Key(v) /\ up'[v].size = up[v].size
    BY <1>1 DEF Key, Upload
  <1>3. \A v \in Uploaders : v # u => up'[v] = up[v]
    BY <1>1
  <1>4. Bytes(Stored(id))' = Bytes(Stored(id))
    BY <1>1 DEF Bytes, Stored
  <1>5. ASSUME NEW v \in Uploaders, up'[v].pc = "commit", up'[v].id = id,
               NEW i \in 1..up'[v].size
        PROVE  <<Key(v)', i>> \in Claims(Uploaders, id) \cup ({Key(u)} \X (1..up[u].size))
    <2>1. CASE v = u
      BY <1>2, <1>5, <2>1
    <2>2. CASE v # u
      BY <1>2, <1>3, <1>5, <2>2, ClaimsOf
    <2> QED
      BY <2>1, <2>2
  <1>6. Claims(Uploaders, id)' \subseteq Claims(Uploaders, id) \cup ({Key(u)} \X (1..up[u].size))
    BY <1>5 DEF Claims
  <1> QED
    BY <1>4, <1>6 DEF Held

\* Two finite sets together.
LEMMA UnionBound ==
    ASSUME NEW A, NEW B, IsFiniteSet(A), IsFiniteSet(B)
    PROVE  /\ IsFiniteSet(A \cup B)
           /\ Cardinality(A) \in Nat /\ Cardinality(B) \in Nat /\ Cardinality(A \cup B) \in Nat
           /\ Cardinality(A \cup B) <= Cardinality(A) + Cardinality(B)
  <1>1. IsFiniteSet(A \cup B) /\ IsFiniteSet(A \cap B)
    BY FS_Union, FS_Intersection
  <1>2. /\ Cardinality(A) \in Nat /\ Cardinality(B) \in Nat
        /\ Cardinality(A \cup B) \in Nat /\ Cardinality(A \cap B) \in Nat
    BY <1>1, FS_CardinalityType
  <1>3. Cardinality(A \cup B) = Cardinality(A) + Cardinality(B) - Cardinality(A \cap B)
    BY FS_Union
  <1> QED
    BY <1>1, <1>2, <1>3

\* Of an upload that the second check lets through: what is held with its
\* object is bounded by the claims of the others, unless the object it replaces
\* is larger.
LEMMA CheckedHeld ==
    ASSUME UploadsSerial, StatStands, MaxBytes > 0, NEW u \in Uploaders,
           up[u].pc = "recheck", QuotaAllows(u)
    PROVE  LET all == Held(up[u].id) \cup ({Key(u)} \X (1..up[u].size))
               others == Cardinality(Uploaders) - 1
           IN  \/ all = Held(up[u].id)
               \/ /\ IsFiniteSet(all) /\ Cardinality(all) \in Nat
                  /\ Cardinality(all) <=
                        Ceiling(IF ReplacedGone(u) THEN others + 1 ELSE others)
  <1> DEFINE id == up[u].id
             k == Key(u)
             block == {k} \X (1..up[u].size)
             all == Held(id) \cup block
             M == Max(Sizes)
             n == Cardinality(Uploaders)
             A == Bytes(Stored(id) \ {k})
             C == Claims(Uploaders \ {u}, id)
  <1>1. up[u] \in Upload /\ up[u].size \in Sizes /\ up[u].size \in Nat /\ MaxBytes \in Nat
    BY RepoAssumption DEF UploadsSerial, StatStands
  <1>2. k \in ObjectKeys /\ k[1] = id /\ Sizes # {} /\ Seen(u)
    BY <1>1, KeyType DEF Seen
  <1>3. M \in Nat /\ \A s \in Sizes : s \in Nat /\ s <= M
    BY <1>2, LargestSize
  <1>4. n \in Nat /\ n >= 1 /\ Cardinality(Uploaders \ {u}) = n - 1
    <2>1. IsFiniteSet(Uploaders) /\ n \in Nat
      BY RepoAssumption, FS_CardinalityType
    <2>2. IsFiniteSet(Uploaders \ {u}) /\ Cardinality(Uploaders \ {u}) = n - 1
      BY <2>1, FS_RemoveElement
    <2>3. Cardinality(Uploaders \ {u}) \in Nat
      BY <2>2, FS_CardinalityType
    <2> QED
      BY <2>1, <2>2, <2>3
  <1>5. IsFiniteSet(block) /\ Cardinality(block) = up[u].size
    BY <1>1, BlockSize
  <1>6. IsFiniteSet(A) /\ Cardinality(A) \in Nat
    BY <1>2, StoredFinite
  <1>7. IsFiniteSet(C) /\ Cardinality(C) \in Nat /\ Cardinality(C) <= (n - 1) * M
    BY <1>2, <1>4, ClaimsBounded
  <1>8. Claims(Uploaders, id) = C
    <2>1. \A b : b \in Claims(Uploaders, id) <=> b \in C
      BY ClaimsOf
    <2> HIDE DEF C
    <2> QED
      BY <2>1
  <1> HIDE DEF M
  <1>9. CASE k \in Stored(id) /\ up[u].size <= objects[k].size
    <2>1. objects[k].size \in Nat
      <3>1. objects[k] # None
        BY <1>9 DEF Stored
      <3> QED
        BY <1>2, <1>3, <3>1 DEF StatStands
    <2>2. block \subseteq {k} \X (1..objects[k].size)
      <3>1. 1..up[u].size \subseteq 1..objects[k].size
        BY <1>1, <1>9, <2>1
      <3> QED
        BY <3>1
    <2>3. block \subseteq Bytes(Stored(id))
      <3> DEFINE P == {k} \X (1..objects[k].size)
      <3>1. Bytes(Stored(id)) = A \cup P
        BY <1>2, <1>9, BytesApart
      <3>2. block \subseteq P
        BY <2>2
      <3> HIDE DEF P, A, block
      <3> QED
        BY <3>1, <3>2
    <2> QED
      BY <2>3 DEF Held
  <1>10. CASE ~(k \in Stored(id) /\ up[u].size <= objects[k].size)
    <2>1. Bytes(Stored(id)) \subseteq A \cup block
      <3>1. CASE k \notin Stored(id)
        <4>1. Stored(id) \ {k} = Stored(id)
          BY <3>1
        <4> QED
          BY <4>1
      <3>2. CASE k \in Stored(id)
        <4>1. objects[k].size \in Nat /\ objects[k].size < up[u].size
          <5>1. objects[k] # None
            BY <3>2 DEF Stored
          <5>2. objects[k].size \in Nat
            BY <1>2, <1>3, <5>1 DEF StatStands
          <5> QED
            BY <1>1, <1>10, <3>2, <5>2
        <4>2. {k} \X (1..objects[k].size) \subseteq block
          <5>1. 1..objects[k].size \subseteq 1..up[u].size
            BY <1>1, <4>1
          <5> QED
            BY <5>1
        <4> QED
          <5> DEFINE P == {k} \X (1..objects[k].size)
          <5>1. Bytes(Stored(id)) = A \cup P
            BY <1>2, <3>2, BytesApart
          <5>2. P \subseteq block
            BY <4>2
          <5> HIDE DEF P, A, block
          <5> QED
            BY <5>1, <5>2
      <3> QED
        BY <3>1, <3>2
    <2>2. all \subseteq (A \cup block) \cup C
      BY <1>8, <2>1 DEF Held
    <2>3. WithUpload(u) = Cardinality(A) + up[u].size
      BY DEF WithUpload
    <2>4. IF ReplacedGone(u) THEN WithUpload(u) <= MaxBytes + up[u].old
                             ELSE WithUpload(u) <= MaxBytes
      BY <1>2, AllowedFits
    <2>5. ReplacedGone(u) => up[u].old \in Nat /\ up[u].old <= M
      BY <1>2, <1>3 DEF ReplacedGone, StatStands
    <2> HIDE DEF A, block, C, n
    <2>6. /\ IsFiniteSet(A \cup block) /\ Cardinality(A \cup block) \in Nat
          /\ Cardinality(A \cup block) <= WithUpload(u)
      BY <1>5, <1>6, <2>3, UnionBound
    <2>7. /\ IsFiniteSet((A \cup block) \cup C) /\ Cardinality((A \cup block) \cup C) \in Nat
          /\ Cardinality((A \cup block) \cup C) <= WithUpload(u) + (n - 1) * M
      <3>1. /\ IsFiniteSet((A \cup block) \cup C) /\ Cardinality((A \cup block) \cup C) \in Nat
            /\ Cardinality((A \cup block) \cup C) <= Cardinality(A \cup block) + Cardinality(C)
        BY <1>7, <2>6, UnionBound
      <3>2. (n - 1) * M \in Nat
        BY <1>3, <1>4
      <3> QED
        BY <1>1, <1>6, <1>7, <2>3, <2>6, <3>1, <3>2
    <2>8. IsFiniteSet(all) /\ Cardinality(all) \in Nat /\ Cardinality(all) <= WithUpload(u) + (n - 1) * M
      <3> DEFINE big == (A \cup block) \cup C
      <3>1. IsFiniteSet(big) /\ Cardinality(big) \in Nat /\ all \subseteq big
        BY <2>2, <2>7
      <3>2. Cardinality(big) <= WithUpload(u) + (n - 1) * M
        BY <2>7
      <3> HIDE DEF big, all
      <3>3. IsFiniteSet(all) /\ Cardinality(all) <= Cardinality(big)
        BY <3>1, FS_Subset
      <3>4. Cardinality(all) \in Nat
        BY <3>3, FS_CardinalityType
      <3>5. WithUpload(u) + (n - 1) * M \in Nat
        BY <1>1, <1>3, <1>4, <1>6, <2>3
      <3> QED
        BY <3>1, <3>2, <3>3, <3>4, <3>5
    <2> HIDE DEF all
    <2>9. CASE ReplacedGone(u)
      <3>1. (n - 1) * M + M = n * M
        BY <1>3, <1>4
      <3>2. WithUpload(u) + (n - 1) * M <= MaxBytes + n * M
        <4>1. (n - 1) * M \in Nat /\ n * M \in Nat /\ WithUpload(u) \in Nat
          BY <1>1, <1>3, <1>4, <1>6, <2>3
        <4> QED
          BY <1>1, <1>3, <2>4, <2>5, <2>9, <3>1, <4>1
      <3>3. Cardinality(all) <= Ceiling(n)
        <4>1. n * M \in Nat /\ WithUpload(u) + (n - 1) * M \in Nat
          BY <1>1, <1>3, <1>4, <1>6, <2>3
        <4> QED
          BY <1>1, <2>8, <3>2, <4>1 DEF Ceiling, M
      <3> QED
        BY <1>4, <2>8, <2>9, <3>3 DEF n, all, block
    <2>10. CASE ~ReplacedGone(u)
      <3>1. Cardinality(all) <= Ceiling(n - 1)
        <4>1. (n - 1) * M \in Nat /\ WithUpload(u) \in Nat
          BY <1>1, <1>3, <1>4, <1>6, <2>3
        <4> QED
          BY <1>1, <2>4, <2>8, <2>10, <4>1 DEF Ceiling, M
      <3> QED
        BY <1>4, <2>8, <2>10, <3>1 DEF n, all, block
    <2> QED
      BY <2>9, <2>10
  <1> QED
    BY <1>9, <1>10

\* Every step: what is held shrinks, or one upload passes the second check and
\* what is held afterwards is bounded.
LEMMA HeldNext ==
    ASSUME UploadsSerial, StatStands, [Next]_vars, MaxBytes > 0, Sizes # {}, NEW id
    PROVE  \/ Held(id)' \subseteq Held(id)
           \/ /\ Cardinality(Held(id)') \in Nat
              /\ \E u \in Uploaders :
                    /\ up[u].pc = "recheck" /\ up[u].id = id
                    /\ Cardinality(Held(id)') <=
                          Ceiling(IF ReplacedGone(u) THEN (Cardinality(Uploaders) - 1) + 1
                                                     ELSE Cardinality(Uploaders) - 1)
  <1>1. CASE \A u \in Uploaders : up'[u].pc = "commit" => up'[u] = up[u] \/ up[u].id # id
    BY <1>1, HeldShrinks
  <1>2. CASE \E u \in Uploaders : up'[u].pc = "commit" /\ up'[u] # up[u] /\ up[u].id = id
    <2>1. PICK u \in Uploaders : up'[u].pc = "commit" /\ up'[u] # up[u] /\ up[u].id = id
      BY <1>2
    <2>2. RecheckQuota(u) /\ QuotaAllows(u) /\ Goto(u, "commit")
      BY <2>1, IntoWindow
    <2>3. up[u].pc = "recheck"
      BY <2>2 DEF RecheckQuota
    <2> DEFINE all == Held(id) \cup ({Key(u)} \X (1..up[u].size))
    <2>4. Held(id)' \subseteq all
      BY <2>2, HeldGrows
    <2>5. \/ all = Held(id)
          \/ /\ IsFiniteSet(all) /\ Cardinality(all) \in Nat
             /\ Cardinality(all) <= Ceiling(IF ReplacedGone(u) THEN (Cardinality(Uploaders) - 1) + 1
                                                               ELSE Cardinality(Uploaders) - 1)
      BY <2>1, <2>2, <2>3, CheckedHeld
    <2> HIDE DEF all
    <2> DEFINE new == Held(id)'
               most == Ceiling(IF ReplacedGone(u) THEN (Cardinality(Uploaders) - 1) + 1
                                                  ELSE Cardinality(Uploaders) - 1)
    <2>6. most \in Int
      <3>1. Cardinality(Uploaders) \in Nat
        BY RepoAssumption, FS_CardinalityType
      <3>2. Max(Sizes) \in Nat /\ MaxBytes \in Nat
        BY LargestSize, RepoAssumption
      <3> QED
        BY <3>1, <3>2 DEF Ceiling
    <2>7. ASSUME IsFiniteSet(all), Cardinality(all) \in Nat, Cardinality(all) <= most
          PROVE  Cardinality(new) \in Nat /\ Cardinality(new) <= most
      <3>1. new \in SUBSET all
        BY <2>4
      <3> HIDE DEF new, most
      <3>2. IsFiniteSet(new) /\ Cardinality(new) <= Cardinality(all)
        BY <2>7, <3>1, FS_Subset
      <3>3. Cardinality(new) \in Nat
        BY <3>2, FS_CardinalityType
      <3> QED
        BY <2>6, <2>7, <3>2, <3>3
    <2>8. CASE all = Held(id)
      BY <2>4, <2>8
    <2>9. CASE Cardinality(new) \in Nat /\ Cardinality(new) <= most
      BY <2>1, <2>3, <2>9
    <2> QED
      BY <2>5, <2>7, <2>8, <2>9
  <1> QED
    BY <1>1, <1>2

\* The ceilings.
LEMMA Ceilings ==
    ASSUME Sizes # {}
    PROVE  LET n == Cardinality(Uploaders)
           IN  /\ n \in Nat /\ n >= 1 /\ (n - 1) + 1 = n
               /\ Ceiling(n) \in Nat /\ Ceiling(n - 1) \in Nat /\ Ceiling(n - 1) <= Ceiling(n)
  <1> DEFINE n == Cardinality(Uploaders)
             M == Max(Sizes)
  <1>1. n \in Nat /\ n # 0
    BY RepoAssumption, FS_CardinalityType, FS_EmptySet
  <1>2. M \in Nat /\ MaxBytes \in Nat
    BY LargestSize, RepoAssumption
  <1> HIDE DEF n, M
  <1>3. n * M \in Nat /\ (n - 1) * M \in Nat /\ (n - 1) * M <= n * M
    <2>1. (n - 1) * M + M = n * M
      BY <1>1, <1>2
    <2>2. (n - 1) * M \in Nat
      BY <1>1, <1>2
    <2> QED
      BY <1>2, <2>1, <2>2
  <1>4. Ceiling(n) = MaxBytes + n * M /\ Ceiling(n - 1) = MaxBytes + (n - 1) * M
    BY DEF Ceiling, M
  <1> QED
    BY <1>1, <1>2, <1>3, <1>4 DEF n

\* What is held in a finite set stays below any bound when the set shrinks.
LEMMA ShrinksBelow ==
    ASSUME StatStands, Sizes # {}, NEW id, Held(id)' \subseteq Held(id), NEW b \in Nat,
           Cardinality(Held(id)) <= b
    PROVE  Cardinality(Held(id)') <= b
  <1> DEFINE old == Held(id)  new == Held(id)'
  <1>1. IsFiniteSet(old) /\ Cardinality(old) \in Nat
    BY HeldFinite
  <1>2. new \in SUBSET old /\ Cardinality(old) <= b
    OBVIOUS
  <1> HIDE DEF old, new
  <1>3. IsFiniteSet(new) /\ Cardinality(new) <= Cardinality(old)
    BY <1>1, <1>2, FS_Subset
  <1>4. Cardinality(new) \in Nat
    BY <1>3, FS_CardinalityType
  <1>5. Cardinality(new) <= b
    BY <1>1, <1>2, <1>3, <1>4
  <1> QED
    BY <1>5 DEF new

LEMMA HeldStep ==
    ASSUME UploadsSerial, StatStands, [Next]_vars, MaxBytes > 0, Sizes # {}, HeldBounded
    PROVE  HeldBounded'
  <1> SUFFICES ASSUME NEW id \in Ids
               PROVE  Cardinality(Held(id)') <= Ceiling(Cardinality(Uploaders))
    BY DEF HeldBounded, Ids, Ceiling
  <1> DEFINE n == Cardinality(Uploaders)
  <1>1. /\ n \in Nat /\ (n - 1) + 1 = n /\ Ceiling(n) \in Nat /\ Ceiling(n - 1) \in Nat
        /\ Ceiling(n - 1) <= Ceiling(n)
    BY Ceilings
  <1>2. CASE Held(id)' \subseteq Held(id)
    <2>1. Cardinality(Held(id)) <= Ceiling(n)
      BY DEF HeldBounded
    <2> QED
      BY <1>1, <1>2, <2>1, ShrinksBelow
  <1>3. CASE /\ Cardinality(Held(id)') \in Nat
             /\ Cardinality(Held(id)') <= Ceiling((n - 1) + 1) \/ Cardinality(Held(id)') <= Ceiling(n - 1)
    <2> HIDE DEF n
    <2> DEFINE c == Cardinality(Held(id)')  a == Ceiling(n)  b == Ceiling(n - 1)
    <2>1. c \in Nat /\ (c <= a \/ c <= b) /\ a \in Nat /\ b \in Nat /\ b <= a
      BY <1>1, <1>3
    <2> HIDE DEF a, b, c
    <2>2. c <= a
      BY <2>1
    <2> QED
      BY <2>2 DEF a, c, n
  <1>4. \/ Held(id)' \subseteq Held(id)
        \/ /\ Cardinality(Held(id)') \in Nat
           /\ Cardinality(Held(id)') <= Ceiling((n - 1) + 1) \/ Cardinality(Held(id)') <= Ceiling(n - 1)
    BY HeldNext
  <1> QED
    BY <1>2, <1>3, <1>4

LEMMA NothingHeld ==
    ASSUME NEW id, Stored(id) = {}, \A u \in Uploaders : up[u].pc = "commit" => up[u].id # id
    PROVE  Held(id) = {} /\ Cardinality(Held(id)) = 0
  <1>1. Held(id) = {}
    BY BytesOf, ClaimsOf DEF Held
  <1> QED
    BY <1>1, FS_EmptySet

LEMMA HeldInit == Init /\ Sizes # {} => HeldBounded
  <1> SUFFICES ASSUME Init, Sizes # {}, NEW id \in Ids
               PROVE  Cardinality(Held(id)) <= Ceiling(Cardinality(Uploaders))
    BY DEF HeldBounded
  <1>1. Cardinality(Held(id)) = 0
    BY NothingHeld, IdleUploadType DEF Init, Stored
  <1> QED
    BY <1>1, Ceilings

\* An upload in progress keeps its key; what it says of an object it replaces
\* comes from Stat.
LEMMA UploadKeeps ==
    ASSUME UploadsSerial, StatStands, [Next]_vars, NEW u \in Uploaders, up'[u].pc # "idle"
    PROVE  \/ /\ up[u].pc # "idle" /\ up'[u].id = up[u].id /\ Key(u)' = Key(u)
              /\ Seen(u)' /\ up'[u].exists =>
                    \/ Seen(u) /\ up[u].exists
                    \/ objects[Key(u)] # None /\ objects' = objects
           \/ up'[u].id \in Ids /\ repos[up'[u].id] # 0 /\ repos' = repos /\ up'[u].pc = "acquire"
  <1>1. up \in [Uploaders -> Upload]
    BY DEF UploadsSerial
  <1>2. CASE up'[u] = up[u]
    BY <1>2 DEF Key, Seen
  <1>3. CASE \E v \in Uploaders, id \in Ids, p \in Paths, s \in Sizes, f \in BOOLEAN :
                PutObject(v, id, p, s, f)
    <2>1. PICK v \in Uploaders, id \in Ids, p \in Paths, s \in Sizes, f \in BOOLEAN :
                PutObject(v, id, p, s, f)
      BY <1>3
    <2>2. CASE v = u
      BY <1>1, <2>1, <2>2 DEF PutObject
    <2>3. CASE v # u
      BY <1>1, <1>2, <2>1, <2>3 DEF PutObject
    <2> QED
      BY <2>2, <2>3
  <1>4. CASE \E v \in Uploaders : UploadStep(v)
    <2>1. PICK v \in Uploaders : UploadStep(v)
      BY <1>4
    <2>2. CASE v # u
      <3>1. up'[u] = up[u]
        BY <1>1, <2>1, <2>2 DEF UploadStep, Acquire, Stat, CheckQuota, CopyBody, RecheckQuota,
                                Commit, Return, Goto
      <3> QED
        BY <1>2, <3>1
    <2>3. CASE v = u
      <3>1. up[u].pc # "idle"
        BY <2>1, <2>3 DEF UploadStep, Acquire, Stat, CheckQuota, CopyBody, RecheckQuota, Commit
      <3>2. CASE up' = [up EXCEPT ![u] = IdleUpload]
        BY <1>1, <3>2, IdleUploadType
      <3>3. ASSUME NEW pc, up' = [up EXCEPT ![u].pc = pc],
                   Seen(u) \/ up[u].pc \in {"acquire", "stat"}
            PROVE  /\ up'[u].id = up[u].id /\ Key(u)' = Key(u)
                   /\ Seen(u)' /\ up'[u].exists => Seen(u) /\ up[u].exists
        <4>1. up'[u].id = up[u].id /\ up'[u].exists = up[u].exists /\ Key(u)' = Key(u)
          BY <1>1, <3>3 DEF Upload, Key
        <4>2. up[u].pc \in {"acquire", "stat"} => ~up[u].exists
          BY DEF StatStands
        <4> QED
          BY <3>3, <4>1, <4>2
      <3>4. CASE Acquire(u)
        BY <3>1, <3>2, <3>3, <3>4 DEF Acquire
      <3>5. CASE Stat(u)
        <4>1. CASE up' = [up EXCEPT ![u].pc = "quota", ![u].exists = TRUE,
                                    ![u].old = objects[Key(u)].size] /\ objects[Key(u)] # None
          <5>1. up'[u].id = up[u].id /\ Key(u)' = Key(u) /\ objects' = objects
            BY <1>1, <3>5, <4>1 DEF Upload, Key, Stat
          <5> QED
            BY <3>1, <4>1, <5>1
        <4> QED
          BY <3>1, <3>2, <3>3, <3>5, <4>1 DEF Stat, Goto, Return
      <3>6. CASE CheckQuota(u) \/ CopyBody(u) \/ RecheckQuota(u)
        <4>1. Seen(u)
          BY <3>6 DEF CheckQuota, CopyBody, RecheckQuota, Seen
        <4> QED
          BY <3>1, <3>2, <3>3, <3>6, <4>1 DEF CheckQuota, CopyBody, RecheckQuota, Goto, Return
      <3>7. CASE Commit(u)
        BY <3>2, <3>7 DEF Commit, Return
      <3> QED
        BY <2>1, <2>3, <3>4, <3>5, <3>6, <3>7 DEF UploadStep
    <2> QED
      BY <2>2, <2>3
  <1>5. CASE \/ CreateRepo
             \/ \E id \in Ids : DeleteRepo(id)
             \/ \E k \in ObjectKeys : DeleteObject(k)
             \/ SweepBegin
             \/ \E w \in Walkers : WalkStep(w) \/ WalkAborts(w)
             \/ Crash
             \/ UNCHANGED vars
    BY <1>2, <1>5, OtherActions
  <1> QED
    BY <1>3, <1>4, <1>5 DEF Next

\* Without sweeps and with ids handed out once, what is stored of a repository
\* nobody deletes from stays.
LEMMA UndisturbedStays ==
    ASSUME ~ReuseIds, ~Sweeping, UploadsSerial, IdsOnce, deletes \in Nat, walk[0].pc = "idle",
           [Next]_vars
    PROVE  /\ deletes' \in Nat /\ walk'[0].pc = "idle"
           /\ lastId \in Nat /\ lastId' \in Nat /\ lastId <= lastId'
           /\ \A id \in Ids : Undisturbed(id)' =>
                 Undisturbed(id) \/ (id > lastId /\ up' = up /\ objects' = objects)
           /\ \A k \in ObjectKeys :
                 Undisturbed(k[1])' /\ objects[k] # None => objects'[k] # None
  <1>1. /\ objects \in [ObjectKeys -> Object \cup {None}] /\ repos \in [Ids -> Nat]
        /\ walk \in [Walkers -> Walk] /\ lastId \in Nat /\ born = lastId
    BY DEF UploadsSerial, IdsOnce
  <1>2. \A k \in ObjectKeys : k[1] \in Ids
    BY DEF ObjectKeys
  <1>3. CASE CreateRepo
    <2>1. NewId = lastId + 1
      BY DEF NewId
    <2>2. /\ repos' = [repos EXCEPT ![lastId + 1] = born + 1] /\ lastId' = lastId + 1
          /\ deletes' = deletes /\ walk' = walk /\ objects' = objects /\ up' = up
      BY <1>1, <1>3, <2>1 DEF CreateRepo
    <2>3. \A id \in Ids : id # lastId + 1 => repos'[id] = repos[id]
      BY <1>1, <2>2
    <2> QED
      BY <1>1, <2>2, <2>3 DEF Undisturbed, Live
  <1>4. CASE \E id \in Ids : DeleteRepo(id)
    <2>1. PICK id \in Ids : DeleteRepo(id)
      BY <1>4
    <2>2. /\ repos' = [repos EXCEPT ![id] = 0] /\ lastId' = lastId
          /\ deletes' = deletes /\ objects' = objects
          /\ walk' = walk \/ walk' = [walk EXCEPT ![id] = [pc |-> "ready", doomed |-> {id},
                                                            todo |-> {}, met |-> {}]]
      BY <2>1 DEF DeleteRepo
    <2>3. id # 0
      BY DEF Ids
    <2>4. walk'[0] = walk[0]
      BY <1>1, <2>2, <2>3 DEF Walkers
    <2>5. \A i \in Ids : repos'[i] # 0 => repos[i] # 0
      BY <1>1, <2>2
    <2> QED
      BY <1>1, <2>2, <2>4, <2>5 DEF Undisturbed, Live
  <1>5. CASE \E k \in ObjectKeys : DeleteObject(k)
    <2>1. deletes' = deletes + 1 /\ walk' = walk /\ lastId' = lastId
      BY <1>5 DEF DeleteObject
    <2>2. deletes' # 0
      BY <2>1
    <2> QED
      BY <1>1, <2>1, <2>2 DEF Undisturbed
  <1>6. CASE \E w \in Walkers : WalkStep(w) \/ WalkAborts(w)
    <2>1. PICK w \in Walkers : WalkStep(w) \/ WalkAborts(w)
      BY <1>6
    <2>2. walk[w].pc # "idle"
      BY <2>1 DEF WalkStep, WalkAborts, WalkBegin, WalkEnd, WalkDelete
    <2>3. w # 0 /\ w \in Ids
      BY <2>2 DEF Walkers
    <2>4. /\ repos' = repos /\ lastId' = lastId /\ deletes' = deletes
          /\ \A v \in Walkers : v # w => walk'[v] = walk[v]
      BY <1>1, <2>1 DEF WalkStep, WalkAborts, WalkBegin, WalkEnd, WalkDelete
    <2>5. walk'[0] = walk[0]
      BY <2>3, <2>4 DEF Walkers
    <2>6. walk[w].doomed = {w} /\ repos[w] = 0
      BY <2>2, <2>3 DEF IdsOnce
    <2>7. \A k \in ObjectKeys : objects[k] # None /\ objects'[k] = None => k[1] = w
      BY <1>1, <2>1, <2>6 DEF WalkStep, WalkAborts, WalkBegin, WalkEnd, WalkDelete
    <2> QED
      BY <1>1, <2>4, <2>5, <2>6, <2>7 DEF Undisturbed, Live
  <1>7. CASE SweepBegin
    BY <1>7 DEF SweepBegin
  <1>8. CASE Crash
    <2>1. IdleWalk.pc = "idle" /\ 0 \in Walkers
      BY DEF IdleWalk, Walkers
    <2> QED
      BY <1>1, <1>8, <2>1 DEF Crash, Undisturbed, Live
  <1>9. CASE \E u \in Uploaders, id \in Ids, p \in Paths, s \in Sizes, f \in BOOLEAN :
                PutObject(u, id, p, s, f)
    BY <1>1, <1>9 DEF PutObject, Undisturbed, Live
  <1>10. CASE \E u \in Uploaders : UploadStep(u)
    <2>1. PICK u \in Uploaders : UploadStep(u)
      BY <1>10
    <2>2. repos' = repos /\ lastId' = lastId /\ deletes' = deletes /\ walk' = walk
      BY <2>1 DEF UploadStep, Acquire, Stat, CheckQuota, CopyBody, RecheckQuota, Commit
    <2>3. objects' = objects \/ objects' = [objects EXCEPT ![Key(u)] = Uploaded(u)]
      BY <2>1 DEF UploadStep, Acquire, Stat, CheckQuota, CopyBody, RecheckQuota, Commit
    <2>4. Uploaded(u) # None
      <3>1. up[u] \in Upload
        BY DEF UploadsSerial
      <3>2. Uploaded(u) \in Object
        BY <3>1 DEF Uploaded, Object, Upload
      <3> QED
        BY <3>2, RepoAssumption
    <2>5. \A k \in ObjectKeys : objects[k] # None => objects'[k] # None
      BY <1>1, <2>3, <2>4
    <2> QED
      BY <1>1, <2>2, <2>5 DEF Undisturbed, Live
  <1>11. CASE UNCHANGED vars
    BY <1>1, <1>11 DEF vars, Undisturbed, Live
  <1> QED
    BY <1>3, <1>4, <1>5, <1>6, <1>7, <1>8, <1>9, <1>10, <1>11 DEF Next

LEMMA QuietStep ==
    ASSUME ~ReuseIds, ~Sweeping, MaxBytes > 0, Sizes # {}, UploadsSerial, IdsOnce, StatStands,
           Quiet, [Next]_vars
    PROVE  Quiet'
  <1>1. /\ deletes' \in Nat /\ walk'[0].pc = "idle"
        /\ lastId \in Nat /\ lastId' \in Nat /\ lastId <= lastId'
        /\ \A id \in Ids : Undisturbed(id)' =>
              Undisturbed(id) \/ (id > lastId /\ up' = up /\ objects' = objects)
        /\ \A k \in ObjectKeys : Undisturbed(k[1])' /\ objects[k] # None => objects'[k] # None
    BY UndisturbedStays DEF Quiet
  <1>2. \A k \in ObjectKeys : k[1] \in Ids /\ k[1] \in Nat
    BY DEF ObjectKeys, Ids
  <1>3. \A u \in Uploaders : up[u].pc # "idle" =>
           up[u].id \in Ids /\ up[u].id \in Nat /\ up[u].id <= lastId /\ Key(u) \in ObjectKeys
           /\ Key(u)[1] = up[u].id
    BY KeyType DEF Quiet, UploadsSerial, Ids
  <1>4. ASSUME NEW k \in ObjectKeys, objects'[k] # None PROVE k[1] <= lastId'
    <2>1. CASE objects'[k] = objects[k]
      <3>1. k[1] <= lastId
        BY <1>4, <2>1 DEF Quiet
      <3> QED
        BY <1>1, <1>2, <3>1
    <2>2. CASE \E u \in Uploaders : up[u].pc = "commit" /\ Key(u) = k
      BY <1>1, <1>2, <1>3, <2>2
    <2> QED
      BY <1>4, <2>1, <2>2, StoredFromWindow
  <1>5. ASSUME NEW u \in Uploaders, up'[u].pc # "idle" PROVE up'[u].id <= lastId'
    <2>1. CASE up[u].pc # "idle" /\ up'[u].id = up[u].id
      BY <1>1, <1>3, <2>1
    <2>2. CASE up'[u].id \in Ids /\ repos[up'[u].id] # 0
      <3>1. ~(up'[u].id > lastId) /\ up'[u].id \in Nat
        BY <2>2 DEF IdsOnce, Ids
      <3> QED
        BY <1>1, <3>1
    <2> QED
      BY <1>5, <2>1, <2>2, UploadKeeps
  <1>6. ASSUME NEW u \in Uploaders, Seen(u)', up'[u].exists, NEW id \in Ids, id = up'[u].id,
               Undisturbed(id)'
        PROVE  objects'[Key(u)'] # None
    <2>1. up'[u].pc # "idle" /\ up'[u].pc # "acquire"
      BY <1>6 DEF Seen
    <2>2. /\ up[u].pc # "idle" /\ up'[u].id = up[u].id /\ Key(u)' = Key(u)
          /\ \/ Seen(u) /\ up[u].exists
             \/ objects[Key(u)] # None /\ objects' = objects
      BY <1>6, <2>1, UploadKeeps
    <2>3. CASE objects[Key(u)] # None /\ objects' = objects
      BY <2>2, <2>3
    <2>4. CASE Seen(u) /\ up[u].exists
      <3>1. /\ id = up[u].id /\ id \in Nat /\ id <= lastId
            /\ Key(u) \in ObjectKeys /\ Key(u)[1] = id
        BY <1>3, <1>6, <2>2
      <3>2. Undisturbed(id)
        BY <1>1, <1>6, <3>1
      <3>3. Undisturbed(up[u].id)
        BY <3>1, <3>2
      <3>4. objects[Key(u)] # None
        BY <2>4, <3>3 DEF Quiet
      <3>5. \A k \in ObjectKeys : k[1] = id => Undisturbed(k[1])'
        BY <1>6
      <3>6. objects'[Key(u)] # None
        BY <1>1, <3>1, <3>4, <3>5
      <3> QED
        BY <2>2, <3>6
    <2> QED
      BY <2>2, <2>3, <2>4
  <1> DEFINE n == Cardinality(Uploaders)
  <1>7. n \in Nat /\ Ceiling(n - 1) \in Nat
    BY Ceilings
  <1>8. ASSUME NEW id \in Ids, Undisturbed(id)' PROVE Cardinality(Held(id)') <= Ceiling(n - 1)
    <2>1. CASE id > lastId /\ up' = up /\ objects' = objects
      <3>0. id \in Nat
        BY DEF Ids
      <3>1. Stored(id) = {}
        BY <1>1, <1>2, <2>1, <3>0 DEF Stored, Quiet
      <3>2. \A u \in Uploaders : up[u].pc = "commit" => up[u].id # id
        BY <1>1, <1>3, <2>1, <3>0
      <3>3. Cardinality(Held(id)) = 0
        BY <3>1, <3>2, NothingHeld
      <3>4. Held(id)' = Held(id)
        BY <2>1 DEF Held, Bytes, Stored, Claims, Key
      <3> QED
        BY <1>7, <3>3, <3>4
    <2>2. CASE Undisturbed(id)
      <3>1. Cardinality(Held(id)) <= Ceiling(n - 1)
        BY <2>2 DEF Quiet
      <3>2. CASE Held(id)' \subseteq Held(id)
        BY <1>7, <3>1, <3>2, ShrinksBelow
      <3>3. ASSUME NEW u \in Uploaders, up[u].pc = "recheck", up[u].id = id PROVE ~ReplacedGone(u)
        BY <2>2, <3>3 DEF Quiet, Seen, ReplacedGone
      <3> QED
        BY <3>2, <3>3, HeldNext
    <2> QED
      BY <1>1, <1>8, <2>1, <2>2
  <1>9. /\ \A k \in ObjectKeys : objects'[k] # None => k[1] <= lastId'
        /\ \A u \in Uploaders : up'[u].pc # "idle" => up'[u].id <= lastId'
    BY <1>4, <1>5
  <1>10. (\A u \in Uploaders :
            Seen(u) /\ up[u].exists /\ Undisturbed(up[u].id) => objects[Key(u)] # None)'
    <2> SUFFICES ASSUME NEW u \in Uploaders, Seen(u)', up'[u].exists, Undisturbed(up[u].id)'
                 PROVE  objects'[Key(u)'] # None
      OBVIOUS
    <2>1. /\ deletes' = 0 /\ ~Sweeping /\ ~ReuseIds
          /\ up'[u].id \in Ids /\ repos'[up'[u].id] # 0
      BY DEF Undisturbed, Live
    <2>2. PICK id \in Ids : id = up'[u].id
      BY <2>1
    <2>3. Undisturbed(id)'
      BY <2>1, <2>2 DEF Undisturbed, Live
    <2> QED
      BY <1>6, <2>2, <2>3
  <1>11. \A id \in Ids : Undisturbed(id)' => Cardinality(Held(id)') <= Ceiling(n - 1)'
    BY <1>8 DEF Ceiling
  <1> QED
    BY <1>1, <1>9, <1>10, <1>11 DEF Quiet

LEMMA QuietInit == Init /\ Sizes # {} => Quiet
  <1> SUFFICES ASSUME Init, Sizes # {} PROVE Quiet
    OBVIOUS
  <1>1. \A u \in Uploaders : up[u].pc = "idle"
    BY IdleUploadType DEF Init
  <1>2. \A k \in ObjectKeys : objects[k] = None
    BY DEF Init
  <1>3. walk[0].pc = "idle" /\ deletes \in Nat
    BY DEF Init, IdleWalk, Walkers
  <1>4. \A id \in Ids : Cardinality(Held(id)) = 0
    BY <1>1, <1>2, NothingHeld DEF Stored
  <1>5. Ceiling(Cardinality(Uploaders) - 1) \in Nat
    BY Ceilings
  <1> QED
    BY <1>1, <1>2, <1>3, <1>4, <1>5 DEF Quiet, Seen

\* The quota of a repository is exceeded by no more than one object for each
\* upload that can race, whatever is deleted, swept or reborn meanwhile, and by
\* one object less where nothing is taken from under an upload: for any number
\* of uploaders, paths, repositories and any sizes and limits.
THEOREM QuotaOvershoot == Spec => []OvershootBounded
  <1>1. CASE ~(MaxBytes > 0 /\ Sizes # {})
    <2>1. OvershootBounded
      BY <1>1 DEF OvershootBounded
    <2> QED
      BY <2>1, PTL
  <1>2. CASE MaxBytes > 0 /\ Sizes # {}
    <2> DEFINE Serial == UploadsSerial /\ StatStands /\ HeldBounded
    <2>1. Init => Serial
      BY <1>2, SerialInit, StatInit, HeldInit
    <2>2. Serial /\ [Next]_vars => Serial'
      BY <1>2, SerialStep, StatStep, HeldStep
    <2>3. Spec => []Serial
      BY <2>1, <2>2, PTL DEF Spec
    <2>4. CASE ~ReuseIds /\ ~Sweeping
      <3>1. Init => Quiet
        BY <1>2, QuietInit
      <3>2. Serial /\ IdsOnce /\ Quiet /\ [Next]_vars => Quiet'
        BY <1>2, <2>4, QuietStep
      <3>3. Spec => [](UploadsSerial /\ IdsOnce)
        BY <2>4, Incarnations
      <3>4. Spec => []Quiet
        BY <2>3, <3>1, <3>2, <3>3, PTL DEF Spec
      <3>5. Serial /\ Quiet => OvershootBounded
        <4> SUFFICES ASSUME Serial, Quiet, NEW id \in Ids
                     PROVE  UsedBytes(id) <= Ceiling(Cardinality(Uploaders)
                                                      - (IF Undisturbed(id) THEN 1 ELSE 0))
          BY DEF OvershootBounded, Ceiling
        <4>1. UsedBytes(id) \in Nat /\ UsedBytes(id) <= Cardinality(Held(id))
              /\ Cardinality(Held(id)) \in Nat
          BY <1>2, UsedIsHeld, HeldFinite
        <4>2. /\ Ceiling(Cardinality(Uploaders)) \in Nat
              /\ Ceiling(Cardinality(Uploaders) - 1) \in Nat
              /\ Cardinality(Uploaders) - 0 = Cardinality(Uploaders)
          BY <1>2, Ceilings
        <4>3. CASE Undisturbed(id)
          <5>1. Cardinality(Held(id)) <= Ceiling(Cardinality(Uploaders) - 1)
            BY <4>3 DEF Quiet
          <5> QED
            BY <4>1, <4>2, <4>3, <5>1
        <4>4. CASE ~Undisturbed(id)
          <5>1. Cardinality(Held(id)) <= Ceiling(Cardinality(Uploaders))
            BY DEF HeldBounded
          <5> QED
            BY <4>1, <4>2, <4>4, <5>1
        <4> QED
          BY <4>3, <4>4
      <3> HIDE DEF Serial
      <3> QED
        BY <2>3, <3>4, <3>5, PTL
    <2>5. CASE ReuseIds \/ Sweeping
      <3>1. Serial => OvershootBounded
        <4> SUFFICES ASSUME Serial, NEW id \in Ids
                     PROVE  UsedBytes(id) <= Ceiling(Cardinality(Uploaders))
          <5>1. \A i \in Ids : ~Undisturbed(i)
            BY <2>5 DEF Undisturbed
          <5>2. Cardinality(Uploaders) - 0 = Cardinality(Uploaders)
            BY <1>2, Ceilings
          <5> QED
            BY <5>1, <5>2 DEF OvershootBounded, Ceiling
        <4>1. UsedBytes(id) \in Nat /\ UsedBytes(id) <= Cardinality(Held(id))
              /\ Cardinality(Held(id)) \in Nat
          BY <1>2, UsedIsHeld, HeldFinite
        <4>2. Ceiling(Cardinality(Uploaders)) \in Nat
          BY <1>2, Ceilings
        <4>3. Cardinality(Held(id)) <= Ceiling(Cardinality(Uploaders))
          BY DEF HeldBounded
        <4> QED
          BY <4>1, <4>2, <4>3
      <3> HIDE DEF Serial
      <3> QED
        BY <2>3, <3>1, PTL
    <2> QED
      BY <2>4, <2>5
  <1> QED
    BY <1>1, <1>2
=============================================================================
