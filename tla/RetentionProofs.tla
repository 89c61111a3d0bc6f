---------------------------- MODULE RetentionProofs ----------------------------
(***************************************************************************)
(* What the retention keeps: the marks of downloads and the versions that  *)
(* a policy protects, for any packages, policies, passes and limits.       *)
(***************************************************************************)
EXTENDS Retention, RepoIndexProofs, FiniteSetTheorems, TLAPS

\* What a step of the generators leaves alone.
Preserves == eco' = eco /\ DOMAIN pool' = DOMAIN pool /\ \A p \in DOMAIN pool : pool[p] # Absent => pool'[p] # Absent

LEMMA GenStepPreserves ==
    ASSUME NEW r, GenStep(r) \/ Aborts(r) \/ CommitFailsLate(r) PROVE Preserves
<1>1. CASE writeAtomic(r)
  <2>1. PICK s : pool' = IF s.op = "sign" THEN [pool EXCEPT ![s.pkg] = [rev |-> s.rev, own |-> TRUE]] ELSE pool
    BY <1>1 DEF writeAtomic, Effect
  <2>2. DOMAIN pool' = DOMAIN pool /\ \A p \in DOMAIN pool : pool[p] # Absent => pool'[p] # Absent
    BY <2>1 DEF Absent
  <2> QED BY <1>1, <2>2 DEF Preserves, writeAtomic
<1>2. CASE ~writeAtomic(r)
  <2>1. UNCHANGED <<eco, pool>>
    BY <1>2 DEF GenStep, List, Read, Build, Finish, Leave, Aborts, CommitFailsLate, Fails
  <2> QED BY <2>1 DEF Preserves
<1> QED BY <1>1, <1>2

-----------------------------------------------------------------------------
\* The marks of downloads.
LEMMA MarksInit == Init => MarksPast /\ MarksKept
BY DEF Init, MarksPast, MarksKept, NoMarks

LEMMA MarksStep ==
    ASSUME RetTypeOK, MarksPast, MarksKept, [Next]_vars
    PROVE  MarksPast' /\ MarksKept'
<1>0. /\ clock \in Nat
      /\ \A p \in Pkgs : acc[p] \in Nat /\ mem[p] \in Nat /\ batch[p] \in Nat /\ hit[p] \in Nat
  BY DEF RetTypeOK, StoreTypeOK
<1>1. CASE Tick
  BY <1>0, <1>1 DEF Tick, MarksPast, MarksKept
<1>2. CASE Flush
  BY <1>0, <1>2 DEF Flush, Swap, MarksPast, MarksKept, NoMarks
<1>3. CASE MergeAccess
  <2>1. \A p \in Pkgs : acc'[p] = IF acc[p] < batch[p] THEN batch[p] ELSE acc[p]
    BY <1>3 DEF MergeAccess, Merge, Later, Max2
  <2>2. UNCHANGED <<mem, hit, lost, clock>> /\ \A p \in Pkgs : batch'[p] = 0
    BY <1>3 DEF MergeAccess, Merge, NoMarks
  <2> QED BY <1>0, <2>1, <2>2 DEF MarksPast, MarksKept
<1>4. CASE MergeFails
  <2>1. /\ UNCHANGED <<mem, acc, hit, clock>> /\ \A p \in Pkgs : batch'[p] = 0
        /\ lost' = lost \cup {p \in Pkgs : batch[p] = hit[p] /\ hit[p] # 0}
    BY <1>4 DEF MergeFails, NoMarks
  <2> QED BY <1>0, <2>1 DEF MarksPast, MarksKept
<1>5. CASE RetCrash
  <2>1. /\ UNCHANGED <<acc, hit, clock>> /\ \A p \in Pkgs : batch'[p] = 0 /\ mem'[p] = 0
        /\ lost' = lost \cup {p \in Pkgs : hit[p] # 0 /\ hit[p] \in {mem[p], batch[p]} \ {acc[p]}}
    BY <1>5 DEF RetCrash, NoMarks
  <2> QED BY <1>0, <2>1 DEF MarksPast, MarksKept
<1>6. ASSUME NEW p \in Pkgs, handleRepoFile(p) PROVE MarksPast' /\ MarksKept'
  <2>1. /\ UNCHANGED <<acc, batch, clock>> /\ hit' = [hit EXCEPT ![p] = clock]
        /\ IF Full(p) THEN mem' = mem /\ lost' = lost \cup {p}
           ELSE mem' = [mem EXCEPT ![p] = IF mem[p] < clock THEN clock ELSE mem[p]] /\ lost' = lost \ {p}
    BY <1>6 DEF handleRepoFile, Record, Max2
  <2>2. hit'[p] = clock /\ \A q \in Pkgs \ {p} : hit'[q] = hit[q]
    BY <2>1 DEF RetTypeOK, StoreTypeOK
  <2>3. MarksPast'
    BY <1>0, <2>1, <2>2 DEF MarksPast, RetTypeOK, StoreTypeOK
  <2>4. MarksKept'
    <3>1. CASE Full(p)
      BY <2>1, <2>2, <3>1 DEF MarksKept
    <3>2. CASE ~Full(p)
      <4>1. mem'[p] = clock /\ \A q \in Pkgs \ {p} : mem'[q] = mem[q]
        BY <1>0, <2>1, <3>2 DEF MarksPast, RetTypeOK, StoreTypeOK
      <4> QED BY <2>1, <2>2, <3>2, <4>1 DEF MarksKept
    <3> QED BY <3>1, <3>2
  <2> QED BY <2>3, <2>4
<1>7. CASE UNCHANGED <<clock, acc, mem, batch, lost, hit>>
  BY <1>7 DEF MarksPast, MarksKept
<1>8. ASSUME NEW p \in Pkgs, UserDeletes(p) \/ SetPin(p) \/ Unpin(p) \/ \E c \in Revs : UserUploads(p, c)
      PROVE  UNCHANGED <<clock, acc, mem, batch, lost, hit>>
  BY <1>8 DEF UserDeletes, SetPin, Unpin, UserUploads
<1>9. ASSUME NEW s \in Passes, PassBegins(s) \/ PassStep(s) \/ DeleteFails(s) \/ PassFails(s) \/ GenFails(s)
      PROVE  UNCHANGED <<clock, acc, mem, batch, lost, hit>>
  BY <1>9 DEF PassBegins, PassStep, PassLists, PassJudges, deleteKey, PassSwept, PassReturns, Generates,
              DeleteFails, PassFails, GenFails
<1>10. ASSUME NEW pol \in Policies, SetPolicy(pol) PROVE UNCHANGED <<clock, acc, mem, batch, lost, hit>>
  BY <1>10 DEF SetPolicy
<1>11. UNCHANGED vars => UNCHANGED <<clock, acc, mem, batch, lost, hit>>
  BY DEF vars, retVars
<1> QED BY <1>1, <1>2, <1>3, <1>4, <1>5, <1>6, <1>7, <1>8, <1>9, <1>10, <1>11 DEF Next

-----------------------------------------------------------------------------
\* A pass that others have not disturbed knows what it knew.
LEMMA KnowsKept ==
    ASSUME RetTypeOK, RetTypeOK', eco' = eco, NEW v \in PassRecord, NEW w \in PassRecord, PassKnows(v),
           w.st = v.st, w.pol = v.pol, w.pinned = v.pinned, w.todo = v.todo, w.now = v.now, w.cand = v.cand,
           v.moved \subseteq w.moved, v.late \subseteq w.late,
           v.st # "idle" =>
              /\ pins' \subseteq pins \cup w.late
              /\ \A p \in Pkgs : acc'[p] = acc[p] \/ p \in w.late
              /\ \A p \in Pkgs \ w.moved : mtime'[p] = mtime[p] /\ (p \in Stored => p \in Stored')
    PROVE  PassKnows(w)'
<1>1. Queued(w)' = Queued(v) /\ Queued(w) = Queued(v)
  BY DEF Queued
<1>2. \A p \in Pkgs : Kin(p)' = Kin(p) /\ p \in Kin(p) /\ Kin(p) \subseteq Pkgs
  BY DEF Kin, familyResolver
<1>3. w.st # "idle" => pins' \subseteq w.pinned \cup w.late
  BY DEF PassKnows
<1>4. w.st = "delete" =>
        /\ w.cand \in Pkgs \ w.pinned
        /\ w.pol.age > 0 /\ acc'[w.cand] >= w.now - w.pol.age => w.cand \in w.late
  BY DEF PassKnows
<1>5. Queued(v) \subseteq Pkgs \/ v.st \notin {"judge", "delete"}
  <2>1. v.todo \in Seq(Pkgs \X Nat)
    BY DEF PassRecord
  <2>2. \A n \in 1 .. Len(v.todo) : v.todo[n] \in Pkgs \X Nat
    BY <2>1
  <2>3. v.st = "delete" => v.cand \in Pkgs
    BY DEF PassKnows
  <2> QED BY <2>2, <2>3 DEF Queued
<1>6. ASSUME w.st \in {"judge", "delete"}, NEW p \in Queued(v), Kin(p) \cap w.moved = {}
      PROVE  Ahead(w, p)'
  <2>1. p \in Pkgs /\ Ahead(v, p)
    BY <1>5, <1>6 DEF PassKnows
  <2>2. PICK W \in SUBSET (Stored \ Queued(v)) :
           /\ W \subseteq Kin(p) /\ \A q \in W : Fresher(q, p)
           /\ Cardinality(W) >= v.pol.min
    BY <2>1 DEF Ahead
  <2>3. \A q \in W \cup {p} : q \in Pkgs /\ q \notin w.moved /\ mtime'[q] = mtime[q]
    BY <1>2, <1>6, <2>1, <2>2
  <2>4. W \in SUBSET (Stored' \ Queued(w)')
    BY <1>1, <1>6, <2>2, <2>3
  <2>5. \A q \in W : Fresher(q, p)'
    BY <2>2, <2>3 DEF Fresher
  <2> QED BY <1>2, <2>1, <2>2, <2>4, <2>5 DEF Ahead
<1>7. w.st \in {"judge", "delete"} => \A p \in Queued(w)' : Kin(p)' \cap w.moved = {} => Ahead(w, p)'
  BY <1>1, <1>2, <1>5, <1>6
<1> QED BY <1>3, <1>4, <1>7 DEF PassKnows

LEMMA SameKnows ==
    ASSUME RetTypeOK, RetTypeOK', Preserves, UNCHANGED <<mtime, acc>>, pins' \subseteq pins,
           NEW v \in PassRecord, PassKnows(v)
    PROVE  PassKnows(v)'
<1>1. \A p \in Pkgs : p \in Stored => p \in Stored'
  BY DEF Preserves, RetTypeOK, StoreTypeOK, Stored
<1> QED BY <1>1, KnowsKept DEF Preserves

LEMMA NoPassKnows == NoPass \in PassRecord /\ NoPass.st = "idle" /\ PassKnows(NoPass)'
<1>1. << >> \in Seq(Pkgs \X Nat)
  OBVIOUS
<1>2. NoPass \in PassRecord /\ NoPass.st = "idle"
  BY <1>1 DEF NoPass, PassRecord
<1> QED BY <1>2 DEF PassKnows

\* One pass moves; it disturbs no other.
LEMMA OnePassMoves ==
    ASSUME RetInv, RetTypeOK', Preserves, UNCHANGED <<mtime, acc>>, pins' \subseteq pins,
           NEW s \in Passes, NEW w \in PassRecord, pass' = [pass EXCEPT ![s] = w], PassKnows(w)'
    PROVE  \A x \in Passes : PassKnows(pass[x])'
<1> SUFFICES ASSUME NEW x \in Passes PROVE PassKnows(pass[x])'
  OBVIOUS
<1>1. CASE x = s
  BY <1>1 DEF RetInv, RetTypeOK, StoreTypeOK
<1>2. CASE x # s
  <2>1. pass'[x] = pass[x] /\ pass[x] \in PassRecord /\ PassKnows(pass[x])
    BY <1>2 DEF RetInv, RetTypeOK, StoreTypeOK
  <2>2. \A v \in PassRecord : PassKnows(v) => PassKnows(v)'
    BY SameKnows DEF RetInv
  <2> QED BY <2>1, <2>2
<1> QED BY <1>1, <1>2

-----------------------------------------------------------------------------
LEMMA StoreTyped == ASSUME RetTypeOK, [Next]_vars PROVE StoreTypeOK'
<1>0. /\ clock \in Nat /\ mtime \in [Pkgs -> Nat] /\ DOMAIN pool = Pkgs
      /\ acc \in [Pkgs -> Nat] /\ mem \in [Pkgs -> Nat] /\ batch \in [Pkgs -> Nat] /\ hit \in [Pkgs -> Nat]
      /\ pins \in SUBSET Pkgs /\ policy \in [min : Nat, age : Nat] /\ NoMarks \in [Pkgs -> Nat]
  BY DEF RetTypeOK, StoreTypeOK, NoMarks
<1>1. CASE Tick
  BY <1>0, <1>1 DEF Tick, StoreTypeOK, indexVars
<1>2. CASE Flush \/ MergeFails
  BY <1>0, <1>2 DEF Flush, Swap, MergeFails, StoreTypeOK, indexVars
<1>3. CASE MergeAccess
  <2>1. acc' \in [Pkgs -> Nat]
    BY <1>0, <1>3 DEF MergeAccess, Merge, Later, Max2
  <2> QED BY <1>0, <1>3, <2>1 DEF MergeAccess, Merge, StoreTypeOK, indexVars
<1>4. CASE RetCrash
  BY <1>0, <1>4 DEF RetCrash, StoreTypeOK
<1>5. ASSUME NEW p \in Pkgs, handleRepoFile(p) PROVE StoreTypeOK'
  BY <1>0, <1>5 DEF handleRepoFile, Edits, Record, Max2, StoreTypeOK
<1>6. ASSUME NEW p \in Pkgs, UserDeletes(p) \/ SetPin(p) \/ Unpin(p) PROVE StoreTypeOK'
  BY <1>0, <1>6 DEF UserDeletes, DeletePkg, SetPin, Unpin, Edits, StoreTypeOK
<1>7. ASSUME NEW p \in Pkgs, NEW c \in Revs, UserUploads(p, c) PROVE StoreTypeOK'
  BY <1>0, <1>7 DEF UserUploads, Upload, StoreTypeOK
<1>8. ASSUME NEW pol \in Policies, SetPolicy(pol) PROVE StoreTypeOK'
  <2>1. pol \in [min : Nat, age : Nat]
    BY <1>8, RetentionAssumption DEF SetPolicy, ValidateRetention, RetentionAssumption
  <2> QED BY <1>0, <1>8, <2>1 DEF SetPolicy, Edits, StoreTypeOK
<1>9. ASSUME NEW s \in Passes, PassBegins(s) \/ PassStep(s) \/ DeleteFails(s) \/ PassFails(s) \/ GenFails(s)
      PROVE  StoreTypeOK'
  <2>1. UNCHANGED <<clock, mtime, acc, mem, batch, hit, pins, policy>>
    BY <1>9 DEF PassBegins, PassStep, PassLists, PassJudges, deleteKey, PassSwept, PassReturns, Generates,
                DeleteFails, PassFails, GenFails
  <2>2. DOMAIN pool' = Pkgs
    <3>1. CASE deleteKey(s)
      BY <1>0, <3>1 DEF deleteKey
    <3>2. CASE Generates(s) \/ GenFails(s)
      BY <1>0, <3>2, GenStepPreserves DEF Generates, GenFails, Preserves
    <3>3. CASE PassSwept(s)
      BY <1>0, <3>3 DEF PassSwept, indexVars
    <3>4. CASE PassBegins(s) \/ PassLists(s) \/ PassJudges(s) \/ PassReturns(s) \/ DeleteFails(s) \/ PassFails(s)
      BY <1>0, <3>4 DEF PassBegins, PassLists, PassJudges, PassReturns, DeleteFails, PassFails, indexVars
    <3> QED BY <1>9, <3>1, <3>2, <3>3, <3>4 DEF PassStep
  <2> QED BY <1>0, <2>1, <2>2 DEF StoreTypeOK
<1>10. CASE UNCHANGED vars
  BY <1>0, <1>10 DEF vars, indexVars, retVars, StoreTypeOK
<1> QED BY <1>1, <1>2, <1>3, <1>4, <1>5, <1>6, <1>7, <1>8, <1>9, <1>10 DEF Next

\* What the lemmas on the passes are about.
PassesKnow == pass \in [Passes -> PassRecord] /\ \A x \in Passes : PassKnows(pass[x])

LEMMA NoneMoves ==
    ASSUME RetInv, StoreTypeOK', Preserves, UNCHANGED <<mtime, acc, pass>>, pins' \subseteq pins
    PROVE  PassesKnow'
<1>1. RetTypeOK'
  BY DEF RetInv, RetTypeOK
<1>2. \A v \in PassRecord : PassKnows(v) => PassKnows(v)'
  BY <1>1, SameKnows DEF RetInv
<1>3. \A x \in Passes : pass'[x] \in PassRecord /\ PassKnows(pass'[x])
  BY DEF RetInv, RetTypeOK
<1>4. \A x \in Passes : PassKnows(pass[x])'
  BY <1>2, <1>3
<1> QED BY <1>1, <1>4 DEF PassesKnow, RetTypeOK

LEMMA OnlyOneMoves ==
    ASSUME RetInv, StoreTypeOK', Preserves, UNCHANGED <<mtime, acc, pins>>,
           NEW s \in Passes, NEW w \in PassRecord, pass' = [pass EXCEPT ![s] = w], PassKnows(w)'
    PROVE  PassesKnow'
<1>1. RetTypeOK'
  BY DEF RetInv, RetTypeOK
<1> QED BY <1>1, OnePassMoves DEF PassesKnow, RetTypeOK

LEMMA QuietSteps ==
    ASSUME RetInv, StoreTypeOK',
           \/ Tick \/ Flush \/ MergeFails \/ UNCHANGED vars
           \/ \E p \in Pkgs : handleRepoFile(p) \/ Unpin(p)
           \/ \E pol \in Policies : SetPolicy(pol)
    PROVE  PassesKnow'
<1>1. UNCHANGED <<eco, pool, mtime, acc, pass>> /\ pins' \subseteq pins
  BY DEF Tick, Flush, MergeFails, vars, indexVars, retVars, handleRepoFile, Unpin, SetPolicy, Edits
<1> QED BY <1>1, NoneMoves DEF Preserves

LEMMA CrashStep == ASSUME RetInv, StoreTypeOK', RetCrash PROVE PassesKnow'
<1>1. pass' = [s \in Passes |-> NoPass]
  BY DEF RetCrash
<1> QED BY <1>1, NoPassKnows DEF PassesKnow

\* Others change the packages D, set pins or merge marks of the packages E:
\* every pass in progress is told.
Told(v, w, D, E) ==
    /\ w.st = v.st /\ w.pol = v.pol /\ w.pinned = v.pinned /\ w.todo = v.todo /\ w.now = v.now
    /\ w.cand = v.cand /\ v.moved \subseteq w.moved /\ v.late \subseteq w.late
    /\ v.st # "idle" => D \subseteq w.moved /\ E \subseteq w.late

LEMMA ToldMoved ==
    ASSUME NEW v \in PassRecord, NEW D \in SUBSET Pkgs
    PROVE  LET w == [v EXCEPT !.moved = @ \cup D] IN w \in PassRecord /\ Told(v, w, D, {})
<1>1. v.moved \cup D \in SUBSET Pkgs
  BY DEF PassRecord
<1> QED BY <1>1 DEF PassRecord, Told

LEMMA ToldLate ==
    ASSUME NEW v \in PassRecord, NEW E \in SUBSET Pkgs
    PROVE  LET w == [v EXCEPT !.late = @ \cup E] IN w \in PassRecord /\ Told(v, w, {}, E)
<1>1. v.late \cup E \in SUBSET Pkgs
  BY DEF PassRecord
<1> QED BY <1>1 DEF PassRecord, Told

LEMMA ToldIdle == ASSUME NEW v, v.st = "idle", NEW D, NEW E PROVE Told(v, v, D, E)
BY DEF Told

LEMMA ToldSteps ==
    ASSUME RetInv, StoreTypeOK', NEW D, NEW E, eco' = eco,
           pass' \in [Passes -> PassRecord], \A x \in Passes : Told(pass[x], pass'[x], D, E),
           pins' \subseteq pins \cup E, \A p \in Pkgs \ E : acc'[p] = acc[p],
           \A p \in Pkgs \ D : mtime'[p] = mtime[p] /\ (p \in Stored => p \in Stored')
    PROVE  PassesKnow'
<1>1. RetTypeOK'
  BY DEF RetTypeOK
<1>2. ASSUME NEW x \in Passes PROVE PassKnows(pass[x])'
  <2>1. PICK v \in PassRecord : v = pass[x] /\ PassKnows(v)
    BY DEF RetInv, RetTypeOK
  <2>2. PICK w \in PassRecord : w = pass'[x] /\ Told(v, w, D, E)
    BY <2>1
  <2>3. v.st # "idle" =>
              /\ pins' \subseteq pins \cup w.late
              /\ \A p \in Pkgs : acc'[p] = acc[p] \/ p \in w.late
              /\ \A p \in Pkgs \ w.moved : mtime'[p] = mtime[p] /\ (p \in Stored => p \in Stored')
    BY <2>2 DEF Told
  <2>4. PassKnows(w)'
    BY <1>1, <2>1, <2>2, <2>3, KnowsKept DEF RetInv, Told
  <2> QED BY <2>2, <2>4
<1> QED BY <1>2 DEF PassesKnow

LEMMA MergeStep == ASSUME RetInv, StoreTypeOK', MergeAccess PROVE PassesKnow'
<1>0. /\ acc \in [Pkgs -> Nat] /\ batch \in [Pkgs -> Nat]
      /\ \A x \in Passes : pass[x] \in PassRecord
  BY DEF RetInv, RetTypeOK, StoreTypeOK
<1> DEFINE E == {p \in Pkgs : batch[p] > acc[p]}
<1>1. pass' = [s \in Passes |-> IF pass[s].st = "idle" THEN pass[s] ELSE [pass[s] EXCEPT !.late = @ \cup E]]
  BY DEF MergeAccess
<1>2. \A p \in Pkgs \ E : acc'[p] = acc[p]
  BY <1>0 DEF MergeAccess, Merge, Later, Max2
<1>3. UNCHANGED <<eco, pool, mtime, pins>>
  BY DEF MergeAccess, Merge, indexVars
<1>4. E \in SUBSET Pkgs
  OBVIOUS
<1>5. \A p \in Pkgs \ {} : mtime'[p] = mtime[p] /\ (p \in Stored => p \in Stored')
  BY <1>3 DEF Stored
<1> HIDE DEF E
<1>6. \A x \in Passes : pass'[x] \in PassRecord /\ Told(pass[x], pass'[x], {}, E)
  BY <1>0, <1>1, <1>4, ToldLate, ToldIdle
<1>7. pass' \in [Passes -> PassRecord]
  BY <1>1, <1>6
<1> QED BY <1>2, <1>3, <1>5, <1>6, <1>7, ToldSteps

LEMMA UserStep ==
    ASSUME RetInv, StoreTypeOK', NEW p \in Pkgs, UserDeletes(p) \/ \E c \in Revs : UserUploads(p, c)
    PROVE  PassesKnow'
<1>0. /\ DOMAIN pool = Pkgs /\ mtime \in [Pkgs -> Nat] /\ {p} \in SUBSET Pkgs
      /\ \A x \in Passes : pass[x] \in PassRecord
  BY DEF RetInv, RetTypeOK, StoreTypeOK
<1>1. pass' = [s \in Passes |-> IF pass[s].st = "idle" THEN pass[s] ELSE [pass[s] EXCEPT !.moved = @ \cup {p}]]
  BY DEF UserDeletes, UserUploads, Moved
<1>2. UNCHANGED <<eco, pins, acc>>
  BY DEF UserDeletes, UserUploads, Upload, DeletePkg
<1>3. \A q \in Pkgs \ {p} : mtime'[q] = mtime[q] /\ pool'[q] = pool[q]
  BY <1>0 DEF UserDeletes, UserUploads, Upload, DeletePkg
<1>4. \A q \in Pkgs \ {p} : mtime'[q] = mtime[q] /\ (q \in Stored => q \in Stored')
  BY <1>3 DEF Stored
<1>5. \A x \in Passes : pass'[x] \in PassRecord /\ Told(pass[x], pass'[x], {p}, {})
  BY <1>0, <1>1, ToldMoved, ToldIdle
<1>6. pass' \in [Passes -> PassRecord]
  BY <1>1, <1>5
<1>7. pins' \subseteq pins \cup {} /\ \A q \in Pkgs \ {} : acc'[q] = acc[q]
  BY <1>2
<1> QED BY <1>2, <1>4, <1>5, <1>6, <1>7, ToldSteps

LEMMA PinStep == ASSUME RetInv, StoreTypeOK', NEW p \in Pkgs, SetPin(p) PROVE PassesKnow'
<1>0. {p} \in SUBSET Pkgs /\ \A x \in Passes : pass[x] \in PassRecord
  BY DEF RetInv, RetTypeOK
<1>1. pass' = [s \in Passes |-> IF pass[s].st = "idle" THEN pass[s] ELSE [pass[s] EXCEPT !.late = @ \cup {p}]]
  BY DEF SetPin
<1>2. UNCHANGED <<eco, pool, mtime, acc>> /\ pins' = pins \cup {p}
  BY DEF SetPin, Edits
<1>3. \A q \in Pkgs \ {} : mtime'[q] = mtime[q] /\ (q \in Stored => q \in Stored')
  BY <1>2 DEF Stored
<1>4. \A x \in Passes : pass'[x] \in PassRecord /\ Told(pass[x], pass'[x], {}, {p})
  BY <1>0, <1>1, ToldLate, ToldIdle
<1>5. pass' \in [Passes -> PassRecord]
  BY <1>1, <1>4
<1>6. pins' \subseteq pins \cup {p} /\ \A q \in Pkgs \ {p} : acc'[q] = acc[q]
  BY <1>2
<1> QED BY <1>2, <1>3, <1>4, <1>5, <1>6, ToldSteps

-----------------------------------------------------------------------------
\* The latest versions of the family of p that are ahead of it.
Before(p) == {q \in Stored : familyResolver(q) = familyResolver(p) /\ Fresher(q, p)}

\* A version that is not one of the min latest has min versions ahead of it
\* that are: of the versions beyond the minimum take the latest, what is ahead
\* of that one is within.
LEMMA ProtectedAhead ==
    ASSUME StoreTypeOK, NEW min \in Nat, NEW p \in Stored, Rank(p) >= min
    PROVE  \E W \in SUBSET {q \in Stored : ~(Rank(q) >= min)} :
              W \subseteq Kin(p) /\ (\A q \in W : Fresher(q, p)) /\ Cardinality(W) >= min
<1>0. IsFiniteSet(Pkgs) /\ Pkgs \subseteq Nat /\ Stored \subseteq Pkgs /\ mtime \in [Pkgs -> Nat]
  BY RepoAssumption DEF Stored, StoreTypeOK
<1>1. \A q \in Pkgs : Rank(q) = Cardinality(Before(q)) /\ Before(q) \in SUBSET Pkgs
  BY <1>0 DEF Rank, Before
<1>2. \A q \in Pkgs : IsFiniteSet(Before(q)) /\ Cardinality(Before(q)) \in Nat
  BY <1>0, <1>1, FS_Subset, FS_CardinalityType
<1>3. \A x, y, z \in Pkgs : Fresher(x, y) /\ Fresher(y, z) => Fresher(x, z)
  <2> SUFFICES ASSUME NEW x \in Pkgs, NEW y \in Pkgs, NEW z \in Pkgs, Fresher(x, y), Fresher(y, z)
               PROVE  Fresher(x, z)
    OBVIOUS
  <2>1. mtime[x] \in Nat /\ mtime[y] \in Nat /\ mtime[z] \in Nat /\ x \in Nat /\ y \in Nat /\ z \in Nat
    BY <1>0
  <2> QED BY <2>1 DEF Fresher
<1>4. \A x \in Pkgs : ~Fresher(x, x)
  <2> SUFFICES ASSUME NEW x \in Pkgs PROVE ~Fresher(x, x)
    OBVIOUS
  <2>1. mtime[x] \in Nat /\ x \in Nat
    BY <1>0
  <2> QED BY <2>1 DEF Fresher
<1> DEFINE Beyond == {q \in Stored : /\ familyResolver(q) = familyResolver(p) /\ Rank(q) >= min
                                     /\ q = p \/ Fresher(q, p)}
           T == {Before(q) : q \in Beyond}
<1>5. p \in Beyond /\ T \subseteq SUBSET Pkgs /\ T # {}
  BY <1>0, <1>1
<1>6. T \subseteq FiniteSubsetsOf(Pkgs)
  BY <1>0, <1>1, <1>2 DEF FiniteSubsetsOf
<1>7. PICK m \in T : \A n \in T : ~(<<n, m>> \in StrictSubsetOrdering(Pkgs))
  BY <1>5, <1>6, WFMin, FS_StrictSubsetOrderingWellFounded
<1>8. PICK q \in Beyond : m = Before(q)
  OBVIOUS
<1>9. q \in Pkgs /\ Before(q) \subseteq Stored /\ Before(q) \subseteq Kin(p)
  BY <1>0 DEF Before, Kin
<1>10. \A x \in Before(q) : Fresher(x, p)
  BY <1>0, <1>3, <1>9 DEF Before
<1>11. Cardinality(Before(q)) >= min
  BY <1>1, <1>9
<1>12. ASSUME NEW x \in Before(q), Rank(x) >= min PROVE FALSE
  <2>1. x \in Beyond
    BY <1>8, <1>9, <1>10, <1>12 DEF Kin
  <2>2. x \in Pkgs /\ Before(x) \subseteq Before(q) /\ x \notin Before(x)
    BY <1>0, <1>3, <1>4, <1>9 DEF Before
  <2>3. Before(x) \in T /\ Before(x) # Before(q)
    BY <2>1, <2>2
  <2>4. <<Before(x), Before(q)>> \in StrictSubsetOrdering(Pkgs)
    BY <1>1, <1>9, <2>2, <2>3 DEF StrictSubsetOrdering
  <2> QED BY <1>7, <1>8, <2>3, <2>4
<1> QED BY <1>9, <1>10, <1>11, <1>12

LEMMA BeginStep == ASSUME RetInv, StoreTypeOK', NEW s \in Passes, PassBegins(s) PROVE PassesKnow'
<1> DEFINE g == [NoPass EXCEPT !.st = "list", !.pol = policy, !.pinned = pins]
<1>1. UNCHANGED <<eco, pool, mtime, acc, pins>> /\ pass' = [pass EXCEPT ![s] = g]
  BY DEF PassBegins, PassGoes, indexVars
<1>2. policy \in [min : Nat, age : Nat] /\ pins \in SUBSET Pkgs
  BY DEF RetInv, RetTypeOK, StoreTypeOK
<1>3. g \in PassRecord /\ g.st = "list" /\ g.pinned = pins
  BY <1>2, NoPassKnows DEF PassRecord
<1> HIDE DEF g
<1>4. PICK w \in PassRecord : w = g
  BY <1>3
<1>5. PassKnows(w)'
  BY <1>1, <1>3, <1>4 DEF PassKnows
<1> QED BY <1>1, <1>4, <1>5, OnlyOneMoves DEF Preserves

LEMMA ListStep == ASSUME RetInv, StoreTypeOK', NEW s \in Passes, PassLists(s) PROVE PassesKnow'
<1>0. PICK v \in PassRecord : v = pass[s] /\ PassKnows(v) /\ v.st = "list"
  BY DEF RetInv, RetTypeOK, PassLists
<1>1. UNCHANGED <<eco, pool, mtime, acc, pins>> /\ clock \in Nat /\ mtime \in [Pkgs -> Nat]
  BY DEF PassLists, indexVars, RetInv, RetTypeOK, StoreTypeOK
<1> DEFINE S == sweepFamily(s)
           N == Cardinality(S)
<1>2. PICK keys \in [1 .. N -> S] :
         pass' = [pass EXCEPT ![s] = [v EXCEPT !.st = "judge", !.now = clock, !.moved = {},
                                               !.todo = [n \in 1 .. N |-> <<keys[n], mtime[keys[n]]>>]]]
  BY <1>0 DEF PassLists, Ordered, PassGoes
<1>3. S = {p \in Stored : Rank(p) >= v.pol.min} /\ S \subseteq Pkgs /\ v.pol.min \in Nat
  BY <1>0 DEF sweepFamily, Stored, PassRecord
<1>4. N \in Nat
  BY <1>3, RepoAssumption, FS_Subset, FS_CardinalityType
<1> HIDE DEF S, N
<1> DEFINE td == [n \in 1 .. N |-> <<keys[n], mtime[keys[n]]>>]
           g == [v EXCEPT !.st = "judge", !.now = clock, !.moved = {}, !.todo = td]
<1>5. td \in Seq(Pkgs \X Nat) /\ Len(td) = N /\ \A n \in 1 .. N : td[n][1] = keys[n]
  <2>1. \A n \in 1 .. N : keys[n] \in Pkgs /\ mtime[keys[n]] \in Nat
    BY <1>1, <1>3
  <2>2. td \in [1 .. N -> Pkgs \X Nat] /\ \A n \in 1 .. N : td[n][1] = keys[n]
    BY <2>1
  <2> HIDE DEF td
  <2> QED BY <1>4, <2>2
<1> HIDE DEF td
<1>6. PICK w \in PassRecord : /\ w = g /\ w.st = "judge" /\ w.todo = td /\ w.moved = {} /\ w.pol = v.pol
                             /\ w.pinned = v.pinned /\ w.late = v.late
  <2>1. /\ g \in PassRecord /\ g.st = "judge" /\ g.todo = td /\ g.moved = {} /\ g.pol = v.pol
        /\ g.pinned = v.pinned /\ g.late = v.late
    BY <1>1, <1>5 DEF PassRecord
  <2> HIDE DEF g
  <2> QED BY <2>1
<1>7. pass' = [pass EXCEPT ![s] = w]
  BY <1>2, <1>6 DEF td
<1> HIDE DEF g
<1>8. Queued(w) \subseteq S /\ Queued(w)' = Queued(w)
  <2>1. Queued(w) = {w.todo[n][1] : n \in 1 .. Len(w.todo)} /\ Queued(w)' = Queued(w)
    BY <1>6 DEF Queued
  <2>2. \A n \in 1 .. Len(w.todo) : w.todo[n][1] \in S
    BY <1>5, <1>6
  <2> QED BY <2>1, <2>2
<1>9. Stored' = Stored /\ \A p \in Pkgs : Kin(p)' = Kin(p)
  BY <1>1 DEF Stored, Kin, familyResolver
<1>10. ASSUME NEW p \in Queued(w) PROVE Ahead(w, p)'
  <2>1. p \in S /\ p \in Stored /\ p \in Pkgs /\ Rank(p) >= v.pol.min
    BY <1>3, <1>8
  <2>2. PICK W \in SUBSET {q \in Stored : ~(Rank(q) >= v.pol.min)} :
           W \subseteq Kin(p) /\ (\A q \in W : Fresher(q, p)) /\ Cardinality(W) >= v.pol.min
    BY <1>3, <2>1, ProtectedAhead DEF RetInv, RetTypeOK
  <2>3. W \in SUBSET (Stored' \ Queued(w)')
    BY <1>3, <1>8, <1>9, <2>2
  <2>4. \A q \in W : Fresher(q, p)'
    BY <1>1, <2>2 DEF Fresher
  <2> QED BY <1>6, <1>9, <2>1, <2>2, <2>3, <2>4 DEF Ahead
<1>11. pins' \subseteq w.pinned \cup w.late
  BY <1>0, <1>1, <1>6 DEF PassKnows
<1>12. PassKnows(w)'
  BY <1>6, <1>8, <1>10, <1>11 DEF PassKnows
<1> QED BY <1>1, <1>6, <1>7, <1>12, OnlyOneMoves DEF Preserves

\* A pass that goes on keeps what is ahead of the versions that are left.
LEMMA QueueShrinks ==
    ASSUME NEW v \in PassRecord, NEW w \in PassRecord, UNCHANGED <<eco, mtime>>,
           Queued(w) \subseteq Queued(v), w.pol = v.pol, w.moved = v.moved,
           \A p \in Stored : p \in Stored' \/ p \in Queued(v),
           \A p \in Queued(v) : Kin(p) \cap v.moved = {} => Ahead(v, p)
    PROVE  \A p \in Queued(w)' : Kin(p)' \cap w.moved = {} => Ahead(w, p)'
<1>0. Queued(w)' = Queued(w)
  BY DEF Queued
<1>1. ASSUME NEW p PROVE Kin(p)' = Kin(p)
  BY DEF Kin, familyResolver
<1>2. ASSUME NEW p \in Queued(w), Kin(p) \cap w.moved = {} PROVE Ahead(w, p)'
  <2>1. PICK W \in SUBSET (Stored \ Queued(v)) :
           /\ W \subseteq Kin(p) /\ \A q \in W : Fresher(q, p)
           /\ Cardinality(W) >= v.pol.min
    BY <1>2 DEF Ahead
  <2>2. W \in SUBSET (Stored' \ Queued(w)')
    BY <1>0, <2>1
  <2>3. \A q \in W : Fresher(q, p)'
    BY <2>1 DEF Fresher
  <2> QED BY <1>1, <2>1, <2>2, <2>3 DEF Ahead
<1> QED BY <1>0, <1>1, <1>2

LEMMA JudgeStep == ASSUME RetInv, StoreTypeOK', NEW s \in Passes, PassJudges(s) PROVE PassesKnow'
<1>0. PICK v \in PassRecord : v = pass[s] /\ PassKnows(v) /\ v.st = "judge" /\ v.todo # << >>
  BY DEF RetInv, RetTypeOK, PassJudges
<1>1. UNCHANGED <<eco, pool, mtime, acc, pins>>
  BY DEF PassJudges, indexVars
<1>2. PICK h \in Pkgs \X Nat : h = Head(v.todo)
  BY <1>0 DEF PassRecord
<1>3. PICK L \in SUBSET Pkgs : L = v.late \ (IF h[1] \in pins THEN {} ELSE {h[1]})
  BY DEF PassRecord
<1>4. PICK b \in BOOLEAN : b <=> Spared(s, h)
  OBVIOUS
<1> DEFINE c == IF b THEN 0 ELSE h[1]
           p == IF b THEN "judge" ELSE "delete"
           w == [v EXCEPT !.todo = Tail(v.todo), !.late = L, !.cand = c, !.st = p]
<1>5. pass' = [pass EXCEPT ![s] = w]
  BY <1>0, <1>2, <1>3, <1>4 DEF PassJudges, PassGoes
<1>6. c \in Pkgs \cup {0} /\ p \in {"judge", "delete"} /\ (p = "delete" => c = h[1] /\ c \in Pkgs /\ ~b)
  OBVIOUS
<1> HIDE DEF c, p
<1>7. Tail(v.todo) \in Seq(Pkgs \X Nat) /\ v.todo \in Seq(Pkgs \X Nat)
  BY <1>0 DEF PassRecord
<1>8. /\ w \in PassRecord /\ w.todo = Tail(v.todo) /\ w.late = L /\ w.cand = c /\ w.st = p /\ w.pol = v.pol
      /\ w.moved = v.moved /\ w.pinned = v.pinned /\ w.now = v.now
  BY <1>3, <1>6, <1>7 DEF PassRecord
<1> HIDE DEF w
<1>9. Queued(w) \subseteq Queued(v)
  <2>1. \A n \in 1 .. Len(Tail(v.todo)) : n + 1 \in 1 .. Len(v.todo) /\ Tail(v.todo)[n] = v.todo[n + 1]
    BY <1>0, <1>7
  <2>2. 1 \in 1 .. Len(v.todo) /\ h = v.todo[1]
    BY <1>0, <1>2, <1>7
  <2> QED BY <1>6, <1>8, <2>1, <2>2 DEF Queued
<1>10. pins' \subseteq w.pinned \cup w.late
  BY <1>0, <1>1, <1>3, <1>8 DEF PassKnows
<1>11. \A q \in Queued(w)' : Kin(q)' \cap w.moved = {} => Ahead(w, q)'
  <2>1. Stored' = Stored
    BY <1>1 DEF Stored
  <2>2. \A q \in Queued(v) : Kin(q) \cap v.moved = {} => Ahead(v, q)
    BY <1>0 DEF PassKnows
  <2> QED BY <1>1, <1>8, <1>9, <2>1, <2>2, QueueShrinks
<1>12. w.st = "delete" => /\ w.cand \in Pkgs \ w.pinned
                          /\ w.pol.age > 0 /\ acc'[w.cand] >= w.now - w.pol.age => w.cand \in w.late
  <2> SUFFICES ASSUME w.st = "delete"
               PROVE  h[1] \notin v.pinned /\ ~(v.pol.age > 0 /\ acc[h[1]] >= v.now - v.pol.age)
    BY <1>1, <1>6, <1>8
  <2>1. h[1] \notin v.pinned /\ ~Recent(s, h)
    BY <1>0, <1>4, <1>6, <1>8 DEF Spared
  <2>2. v.pol.age \in Nat /\ v.now \in Nat /\ acc[h[1]] \in Nat /\ h[2] \in Nat
    BY DEF PassRecord, RetInv, RetTypeOK, StoreTypeOK
  <2>3. v.pol.age > 0 => ~((IF acc[h[1]] # 0 THEN acc[h[1]] ELSE h[2]) >= v.now - v.pol.age)
    BY <1>0, <2>1 DEF Recent
  <2> QED BY <2>1, <2>2, <2>3
<1>13. PassKnows(w)'
  BY <1>10, <1>11, <1>12 DEF PassKnows
<1> QED BY <1>1, <1>5, <1>8, <1>13, OnlyOneMoves DEF Preserves

\* A pass leaves its candidate: it is deleted, or its deletion has failed.
LEMMA CandidateLeft ==
    ASSUME NEW v \in PassRecord, NEW w \in PassRecord, PassKnows(v), v.st = "delete", UNCHANGED <<eco, mtime, pins>>,
           w.st = "judge", w.todo = v.todo, w.pol = v.pol, w.pinned = v.pinned, w.late = v.late, w.moved = v.moved,
           \A p \in Stored : p \in Stored' \/ p = v.cand
    PROVE  PassKnows(w)'
<1>1. Queued(w) \subseteq Queued(v) /\ v.cand \in Queued(v)
  BY DEF Queued
<1>2. \A p \in Queued(w)' : Kin(p)' \cap w.moved = {} => Ahead(w, p)'
  <2>1. \A p \in Queued(v) : Kin(p) \cap v.moved = {} => Ahead(v, p)
    BY DEF PassKnows
  <2>2. \A p \in Stored : p \in Stored' \/ p \in Queued(v)
    BY <1>1
  <2> QED BY <1>1, <2>1, <2>2, QueueShrinks
<1> QED BY <1>2 DEF PassKnows

LEMMA DeleteKeyStep == ASSUME RetInv, StoreTypeOK', NEW s \in Passes, deleteKey(s) PROVE PassesKnow'
<1>0. PICK v \in PassRecord : v = pass[s] /\ PassKnows(v) /\ v.st = "delete"
  BY DEF RetInv, RetTypeOK, deleteKey
<1>1. PICK p \in Pkgs : p = v.cand
  BY <1>0 DEF PassKnows
<1>2. /\ UNCHANGED <<eco, mtime, acc, pins>> /\ pool' = [pool EXCEPT ![p] = Absent] /\ DOMAIN pool = Pkgs
      /\ {p} \in SUBSET Pkgs /\ \A x \in Passes : pass[x] \in PassRecord /\ PassKnows(pass[x])
  BY <1>0, <1>1 DEF deleteKey, RetInv, RetTypeOK, StoreTypeOK
<1>3. PICK M \in SUBSET Pkgs : M = IF p \in Stored THEN v.mine \cup {p} ELSE v.mine
  BY DEF PassRecord
<1> DEFINE w == [v EXCEPT !.st = "judge", !.cand = 0, !.mine = M]
           base == IF p \in Stored THEN Moved(p) ELSE pass
<1>4. pass' = [base EXCEPT ![s] = w]
  BY <1>0, <1>1, <1>3 DEF deleteKey
<1>5. /\ w \in PassRecord /\ w.st = "judge" /\ w.todo = v.todo /\ w.pol = v.pol /\ w.pinned = v.pinned
      /\ w.late = v.late /\ w.moved = v.moved
  BY DEF PassRecord
<1> HIDE DEF w
<1>6. \A q \in Pkgs : /\ q \in Stored /\ q # p => q \in Stored'
                      /\ p \notin Stored /\ q \in Stored => q \in Stored'
  BY <1>2 DEF Stored
<1>7. PassKnows(w)'
  <2>1. \A q \in Stored : q \in Stored' \/ q = v.cand
    BY <1>1, <1>6 DEF Stored
  <2> QED BY <1>0, <1>2, <1>5, <2>1, CandidateLeft
<1>8. DOMAIN base = Passes
  BY DEF Moved, RetInv, RetTypeOK
<1>9. /\ pass'[s] = w /\ \A x \in Passes \ {s} : pass'[x] = base[x]
  BY <1>4, <1>8
<1>10. ASSUME NEW x \in Passes, x # s
       PROVE  \E u \in PassRecord : /\ base[x] = u
                                    /\ Told(pass[x], u, IF p \in Stored THEN {p} ELSE {}, {})
  <2>1. pass[x] \in PassRecord
    BY <1>2
  <2>2. CASE p \in Stored
    <3>1. base[x] = IF pass[x].st = "idle" THEN pass[x] ELSE [pass[x] EXCEPT !.moved = @ \cup {p}]
      BY <2>2 DEF Moved
    <3> QED BY <1>2, <2>1, <2>2, <3>1, ToldMoved, ToldIdle
  <2>3. CASE p \notin Stored
    <3>1. Told(pass[x], pass[x], {}, {})
      BY DEF Told
    <3> QED BY <2>1, <2>3, <3>1
  <2> QED BY <2>2, <2>3
<1> HIDE DEF base
<1>11. pass' \in [Passes -> PassRecord]
  BY <1>4, <1>5, <1>8, <1>9, <1>10
<1>12. RetTypeOK'
  BY <1>11 DEF RetTypeOK
<1>13. ASSUME NEW x \in Passes PROVE PassKnows(pass[x])'
  <2>1. CASE x = s
    BY <1>7, <1>9, <2>1
  <2>2. CASE x # s
    <3>1. PICK o \in PassRecord : o = pass[x] /\ PassKnows(o)
      BY <1>2
    <3>2. PICK u \in PassRecord : pass'[x] = u /\ Told(o, u, IF p \in Stored THEN {p} ELSE {}, {})
      BY <1>9, <1>10, <2>2, <3>1
    <3>3. o.st # "idle" => \A q \in Pkgs \ u.moved : mtime'[q] = mtime[q] /\ (q \in Stored => q \in Stored')
      BY <1>2, <1>6, <3>2 DEF Told
    <3>4. PassKnows(u)'
      BY <1>2, <1>12, <3>1, <3>2, <3>3, KnowsKept DEF RetInv, Told
    <3> QED BY <3>2, <3>4
  <2> QED BY <2>1, <2>2
<1> QED BY <1>11, <1>13 DEF PassesKnow

\* The steps of a pass after its deletions, and the ones that fail.
LEMMA OnwardStep ==
    ASSUME RetInv, StoreTypeOK', Preserves, UNCHANGED <<mtime, acc, pins>>, NEW s \in Passes,
           pass[s].st # "idle", NEW q \in {"reindex", "ok"}, NEW M \in SUBSET Pkgs,
           pass' = [pass EXCEPT ![s] = [pass[s] EXCEPT !.st = q, !.mine = M]]
    PROVE  PassesKnow'
<1>1. PICK v \in PassRecord : v = pass[s] /\ PassKnows(v)
  BY DEF RetInv, RetTypeOK
<1> DEFINE w == [v EXCEPT !.st = q, !.mine = M]
<1>2. w \in PassRecord /\ w.st = q /\ w.pinned = v.pinned /\ w.late = v.late
  BY DEF PassRecord
<1>3. pass' = [pass EXCEPT ![s] = w]
  BY <1>1
<1> HIDE DEF w
<1>4. PassKnows(w)'
  BY <1>1, <1>2 DEF PassKnows
<1> QED BY <1>2, <1>3, <1>4, OnlyOneMoves

LEMMA EndStep ==
    ASSUME RetInv, StoreTypeOK', Preserves, UNCHANGED <<mtime, acc, pins>>, NEW s \in Passes,
           pass' = [pass EXCEPT ![s] = NoPass]
    PROVE  PassesKnow'
BY NoPassKnows, OnlyOneMoves

LEMMA LaterSteps ==
    ASSUME RetInv, StoreTypeOK', NEW s \in Passes,
           PassSwept(s) \/ PassReturns(s) \/ Generates(s) \/ DeleteFails(s) \/ PassFails(s) \/ GenFails(s)
    PROVE  PassesKnow'
<1>0. PICK v \in PassRecord : v = pass[s] /\ PassKnows(v) /\ v.mine \in SUBSET Pkgs
  BY DEF RetInv, RetTypeOK, PassRecord
<1>1. UNCHANGED <<mtime, acc, pins>>
  BY DEF PassSwept, PassReturns, Generates, DeleteFails, PassFails, GenFails
<1>2. Preserves
  <2>1. CASE Generates(s) \/ GenFails(s)
    BY <2>1, GenStepPreserves DEF Generates, GenFails
  <2>2. CASE PassSwept(s) \/ PassReturns(s) \/ DeleteFails(s) \/ PassFails(s)
    BY <2>2 DEF PassSwept, PassReturns, DeleteFails, PassFails, indexVars, Preserves
  <2> QED BY <2>1, <2>2
<1>3. \A q : [v EXCEPT !.st = q, !.mine = v.mine] = [v EXCEPT !.st = q]
  BY DEF PassRecord
<1>4. CASE PassSwept(s)
  <2>1. PICK q \in {"reindex", "ok"} : pass' = [pass EXCEPT ![s] = [v EXCEPT !.st = q]] /\ v.st = "judge"
    BY <1>0, <1>4 DEF PassSwept, PassGoes
  <2> QED BY <1>0, <1>1, <1>2, <1>3, <2>1, OnwardStep
<1>5. CASE PassReturns(s) \/ PassFails(s) \/ GenFails(s)
  BY <1>1, <1>2, <1>5, EndStep DEF PassReturns, PassFails, GenFails, PassGoes
<1>6. CASE Generates(s)
  <2>1. PICK M \in SUBSET Pkgs : M = IF run[s].alone THEN v.mine ELSE {}
    BY <1>0
  <2>2. [pass EXCEPT ![s].st = "ok", ![s].mine = IF run[s].alone THEN @ ELSE {}]
           = [pass EXCEPT ![s] = [v EXCEPT !.st = "ok", !.mine = M]]
    BY <1>0, <2>1 DEF RetInv, RetTypeOK, PassRecord
  <2>3. \/ pass' = pass
        \/ pass' = [pass EXCEPT ![s] = NoPass]
        \/ pass' = [pass EXCEPT ![s] = [v EXCEPT !.st = "ok", !.mine = M]] /\ v.st = "reindex"
    BY <1>0, <1>6, <2>2 DEF Generates
  <2>4. CASE pass' = pass
    BY <1>1, <1>2, <2>4, NoneMoves
  <2> QED BY <1>0, <1>1, <1>2, <2>3, <2>4, EndStep, OnwardStep
<1>7. CASE DeleteFails(s)
  <2> DEFINE w == [v EXCEPT !.st = "judge", !.cand = 0]
  <2>1. pass' = [pass EXCEPT ![s] = w] /\ v.st = "delete" /\ UNCHANGED <<eco, pool>>
    BY <1>0, <1>7 DEF DeleteFails, PassGoes, indexVars
  <2>2. /\ w \in PassRecord /\ w.st = "judge" /\ w.todo = v.todo /\ w.pol = v.pol /\ w.pinned = v.pinned
        /\ w.late = v.late /\ w.moved = v.moved
    BY DEF PassRecord
  <2> HIDE DEF w
  <2>3. Stored' = Stored
    BY <2>1 DEF Stored
  <2>4. PassKnows(w)'
    BY <1>0, <1>1, <2>1, <2>2, <2>3, CandidateLeft
  <2> QED BY <1>1, <1>2, <2>1, <2>2, <2>4, OnlyOneMoves
<1> QED BY <1>4, <1>5, <1>6, <1>7

-----------------------------------------------------------------------------
LEMMA RetentionInit == Init => RetInv
<1> SUFFICES ASSUME Init PROVE RetInv
  OBVIOUS
<1>1. /\ pool = [p \in Pkgs |-> IF p \in Pkgs THEN [rev |-> 1, own |-> FALSE] ELSE Absent]
      /\ clock = 2 /\ mtime = Uploaded /\ acc = NoMarks /\ mem = NoMarks /\ batch = NoMarks /\ hit = NoMarks
      /\ pins = {} /\ policy \in {pol \in Policies : ValidateRetention(pol)} /\ pass = [s \in Passes |-> NoPass]
  BY Zenon DEF Init, StartWith
<1>2. policy \in [min : Nat, age : Nat]
  BY <1>1, RetentionAssumption DEF ValidateRetention, RetentionAssumption
<1>3. StoreTypeOK
  BY <1>1, <1>2, RetentionAssumption DEF StoreTypeOK, NoMarks, RetentionAssumption
<1>4. NoPass \in PassRecord /\ PassKnows(NoPass)
  BY NoPassKnows DEF PassKnows
<1>5. MarksPast /\ MarksKept
  BY MarksInit
<1>6. RetTypeOK
  BY <1>1, <1>3, <1>4 DEF RetTypeOK
<1>7. \A s \in Passes : PassKnows(pass[s])
  BY <1>1, <1>4
<1> QED BY <1>5, <1>6, <1>7 DEF RetInv

LEMMA RetentionStep == RetInv /\ [Next]_vars => RetInv'
<1> SUFFICES ASSUME RetInv, [Next]_vars PROVE RetInv'
  OBVIOUS
<1>1. StoreTypeOK'
  BY StoreTyped DEF RetInv
<1>2. MarksPast' /\ MarksKept'
  BY MarksStep DEF RetInv
<1>3. ASSUME NEW s \in Passes, PassBegins(s) \/ PassStep(s) \/ DeleteFails(s) \/ PassFails(s) \/ GenFails(s)
      PROVE  PassesKnow'
  BY <1>1, <1>3, BeginStep, ListStep, JudgeStep, DeleteKeyStep, LaterSteps DEF PassStep
<1>4. PassesKnow'
  BY <1>1, <1>3, QuietSteps, CrashStep, MergeStep, UserStep, PinStep DEF Next
<1> QED BY <1>1, <1>2, <1>4 DEF RetInv, RetTypeOK, PassesKnow

\* What the passes and the keeper of the marks know, in every reachable state.
THEOREM RetentionInvariance == Spec => []RetInv
BY RetentionInit, RetentionStep, PTL DEF Spec

\* A download leaves its mark in the catalogue, in memory or in the batch under
\* way, whatever flushes and merges come between, unless the map was full, the
\* merge failed or the process died (accesskeeper: Record, Flush; MergeAccess).
THEOREM DownloadsMarked == Spec => []MarksKept
<1>1. RetInv => MarksKept
  BY DEF RetInv
<1> QED BY <1>1, RetentionInvariance, PTL

\* What a pass deletes is neither pinned nor marked as lately used, unless the
\* pin or the mark came after the pass had read it, and has the minimum of
\* versions ahead of it at that moment, unless its family was changed since the
\* listing (retention: ApplyAndReindex, sweepFamily, deleteKey).
THEOREM PassesSpareProtected == Spec => SparesProtected
<1>1. ASSUME RetInv, NEW s \in Passes, pass[s].st = "delete"
      PROVE  LET p == pass[s].cand
                 fam == {q \in Pkgs : familyResolver(q) = familyResolver(p)}
             IN  /\ p \in pins => p \in pass[s].late
                 /\ pass[s].pol.age > 0 /\ acc[p] >= pass[s].now - pass[s].pol.age => p \in pass[s].late
                 /\ fam \cap pass[s].moved = {} =>
                       Cardinality({q \in Stored : q \in fam /\ Fresher(q, p)}) >= pass[s].pol.min
  <2>1. PICK v \in PassRecord : v = pass[s] /\ PassKnows(v) /\ v.st = "delete"
    BY <1>1 DEF RetInv, RetTypeOK
  <2>2. PICK p \in Pkgs : p = v.cand /\ p \notin v.pinned /\ p \in Queued(v)
    BY <2>1 DEF PassKnows, Queued
  <2>3. p \in pins => p \in v.late
    BY <2>1, <2>2 DEF PassKnows
  <2>4. v.pol.age > 0 /\ acc[p] >= v.now - v.pol.age => p \in v.late
    BY <2>1, <2>2 DEF PassKnows
  <2>5. ASSUME Kin(p) \cap v.moved = {}
        PROVE  Cardinality({q \in Stored : q \in Kin(p) /\ Fresher(q, p)}) >= v.pol.min
    <3> DEFINE B == {q \in Stored : q \in Kin(p) /\ Fresher(q, p)}
    <3>1. PICK W \in SUBSET (Stored \ Queued(v)) :
             /\ W \subseteq Kin(p) /\ \A q \in W : Fresher(q, p)
             /\ Cardinality(W) >= v.pol.min
      BY <2>1, <2>2, <2>5 DEF PassKnows, Ahead
    <3>2. IsFiniteSet(Pkgs) /\ B \in SUBSET Pkgs /\ W \in SUBSET B
      BY <3>1, RepoAssumption DEF Kin
    <3> HIDE DEF B
    <3>3. IsFiniteSet(B)
      BY <3>2, FS_Subset
    <3>4. IsFiniteSet(W) /\ Cardinality(W) <= Cardinality(B)
      BY <3>2, <3>3, FS_Subset
    <3>5. Cardinality(W) \in Nat /\ Cardinality(B) \in Nat /\ v.pol.min \in Nat
      BY <3>3, <3>4, FS_CardinalityType DEF PassRecord
    <3>6. Cardinality(B) >= v.pol.min
      BY <3>1, <3>4, <3>5
    <3> QED BY <3>6 DEF B
  <2> QED BY <2>1, <2>2, <2>3, <2>4, <2>5 DEF Kin
<1>2. RetInv /\ [Next]_vars =>
        [\A s \in Passes :
            pass[s].st = "delete" /\ pass'[s].mine # pass[s].mine =>
              LET p == pass[s].cand
                  fam == {q \in Pkgs : familyResolver(q) = familyResolver(p)}
              IN  /\ p \in pins => p \in pass[s].late
                  /\ pass[s].pol.age > 0 /\ acc[p] >= pass[s].now - pass[s].pol.age => p \in pass[s].late
                  /\ fam \cap pass[s].moved = {} =>
                        Cardinality({q \in Stored : q \in fam /\ Fresher(q, p)}) >= pass[s].pol.min]_vars
  BY <1>1
<1> QED BY <1>2, RetentionInvariance, PTL DEF Spec, SparesProtected

-----------------------------------------------------------------------------
(* What a pass has deleted                                                 *)

\* The indexes of a repository that has one index for all architectures.
LEMMA IndexHas ==
    ASSUME NEW a, NEW x,
           /\ eco = "apt" => Apt!Packages \in DOMAIN files /\ x \in files[Apt!Packages] /\ a \in {"amd64", "all"}
           /\ eco = "rpm-md" => Rpm!Primary \in DOMAIN files /\ x \in files[Rpm!Primary]
           /\ eco = "pacman" => Pacman!Db \in DOMAIN files /\ x \in files[Pacman!Db],
           eco \in {"apt", "rpm-md", "pacman"}
    PROVE  x \in Index(a)
BY DEF Index, Apt!Index, Rpm!Index, Pacman!Index

\* The file of the index is written from what the generation has collected.
LEMMA IndexWritten ==
    ASSUME signed \in BOOLEAN, NEW got, NEW stamp, NEW s \in Range(Plan(got, stamp)), s.op = "put"
    PROVE  /\ eco = "apt" /\ s.key = Apt!Packages => s.val \subseteq got
           /\ eco = "rpm-md" /\ s.key = Rpm!Primary => s.val \subseteq got
           /\ eco = "pacman" /\ s.key = Pacman!Db => s.val \subseteq got
<1>0. \A k, w : WriteFile(k, w).key = k /\ WriteFile(k, w).val = w BY DEF WriteFile
<1>1. ASSUME eco = "apt", s.key = Apt!Packages PROVE s.val \subseteq got
  <2> DEFINE v == Apt!appendPackagesEntry(got)  rel == Apt!buildRelease(v, stamp)
  <2>1. Range(Plan(got, stamp)) = Range(Apt!GenerateIndexes(got, stamp, signed)) BY <1>1 DEF Plan
  <2>2. v \subseteq got BY DEF Apt!appendPackagesEntry
  <2>3. \/ s = CollectOld(v)
        \/ \E k \in {Apt!PackagesGz, Apt!ByHash("plain", v), Apt!ByHash("gz", v), Apt!Marker, Apt!Release, Apt!InRelease, Apt!ReleaseGpg} :
              \E w : s = WriteFile(k, w)
        \/ s = WriteFile(Apt!Packages, v)
    BY <2>1, AptPlan
  <2>4. CollectOld(v).op # "put" BY DEF CollectOld
  <2>5. Apt!Packages \notin {Apt!PackagesGz, Apt!ByHash("plain", v), Apt!ByHash("gz", v), Apt!Marker, Apt!Release, Apt!InRelease, Apt!ReleaseGpg}
    BY DEF Apt!Packages, Apt!PackagesGz, Apt!ByHash, Apt!Marker, Apt!Release, Apt!InRelease, Apt!ReleaseGpg
  <2> HIDE DEF v, rel
  <2> QED BY <1>0, <1>1, <2>2, <2>3, <2>4, <2>5
<1>2. ASSUME eco = "rpm-md", s.key = Rpm!Primary PROVE s.val \subseteq got
  <2>1. Range(Plan(got, stamp)) = Range(Rpm!GenerateIndexes(got, stamp, signed)) BY <1>2 DEF Plan
  <2>2. (\E k \in {Rpm!Repomd, Rpm!RepomdAsc} : \E w : s = WriteFile(k, w)) \/ s = WriteFile(Rpm!Primary, got)
    BY <2>1, RpmPlan
  <2>3. Rpm!Primary \notin {Rpm!Repomd, Rpm!RepomdAsc} BY DEF Rpm!Primary, Rpm!Repomd, Rpm!RepomdAsc
  <2> QED BY <1>0, <1>2, <2>2, <2>3
<1>3. ASSUME eco = "pacman", s.key = Pacman!Db PROVE s.val \subseteq got
  <2> DEFINE v == Pacman!dedupeDescs(got)
  <2>1. Range(Plan(got, stamp)) = Range(Pacman!GenerateIndexes(got, stamp, signed)) BY <1>3 DEF Plan
  <2>2. v \subseteq got BY DEF Pacman!dedupeDescs
  <2>3. s = WriteFile(Pacman!DbSig, Signature(v)) \/ s = WriteFile(Pacman!Db, v) BY <2>1, PacmanPlan
  <2>4. Pacman!Db # Pacman!DbSig BY DEF Pacman!Db, Pacman!DbSig
  <2> HIDE DEF v
  <2> QED BY <1>0, <1>3, <2>2, <2>3, <2>4
<1> QED BY <1>1, <1>2, <1>3

LEMMA IndexPut ==
    ASSUME GenInv, eco \in {"apt", "rpm-md", "pacman"}, NEW r \in Runners, run[r].plan # << >>,
           NEW s, s = Head(run[r].plan), s.op = "put", files' = Put(files, s.key, s.val), UNCHANGED eco,
           NEW a, NEW x \in Index(a)'
    PROVE  x \in Index(a) \/ x \in run[r].got
<1>1. /\ eco = "apt" /\ s.key = Apt!Packages => s.val \subseteq run[r].got
      /\ eco = "rpm-md" /\ s.key = Rpm!Primary => s.val \subseteq run[r].got
      /\ eco = "pacman" /\ s.key = Pacman!Db => s.val \subseteq run[r].got
  <2>1. s \in Range(Plan(run[r].got, run[r].stamp)) /\ signed \in BOOLEAN BY HeadPut
  <2>2. PICK got, stamp : got = run[r].got /\ stamp = run[r].stamp OBVIOUS
  <2>3. s \in Range(Plan(got, stamp)) BY <2>1, <2>2
  <2>4. /\ eco = "apt" /\ s.key = Apt!Packages => s.val \subseteq got
        /\ eco = "rpm-md" /\ s.key = Rpm!Primary => s.val \subseteq got
        /\ eco = "pacman" /\ s.key = Pacman!Db => s.val \subseteq got
    BY <2>1, <2>3, IndexWritten
  <2> QED BY <2>2, <2>4
<1>2. /\ eco = "apt" => Apt!Packages \in DOMAIN files' /\ x \in files'[Apt!Packages] /\ a \in {"amd64", "all"}
      /\ eco = "rpm-md" => Rpm!Primary \in DOMAIN files' /\ x \in files'[Rpm!Primary]
      /\ eco = "pacman" => Pacman!Db \in DOMAIN files' /\ x \in files'[Pacman!Db]
  BY DEF Index, Apt!Index, Rpm!Index, Pacman!Index
<1>3. \A k \in DOMAIN files' : IF k = s.key THEN files'[k] = s.val ELSE k \in DOMAIN files /\ files'[k] = files[k]
  BY DEF Put
<1>4. x \in run[r].got \/ ( /\ eco = "apt" => Apt!Packages \in DOMAIN files /\ x \in files[Apt!Packages] /\ a \in {"amd64", "all"}
                            /\ eco = "rpm-md" => Rpm!Primary \in DOMAIN files /\ x \in files[Rpm!Primary]
                            /\ eco = "pacman" => Pacman!Db \in DOMAIN files /\ x \in files[Pacman!Db] )
  BY <1>1, <1>2, <1>3
<1> QED BY <1>4, IndexHas
\* A step of a generation, and what it may bring into the indexes.
LEMMA GenMoves ==
    ASSUME GenInv, eco \in {"apt", "rpm-md", "pacman"}, NEW r \in Runners,
           GenStep(r) \/ Aborts(r) \/ CommitFailsLate(r)
    PROVE  /\ UNCHANGED <<eco, pool>>
           /\ \A q \in Runners \ {r} : run'[q] = run[q]
           /\ \A x \in run'[r].got : x \in run[r].got \/ pool[x[1]] # Absent
           /\ run[r].phase # "idle" /\ (r \in Active' => r \in Active)
           /\ \A a : \A x \in Index(a)' : x \in Index(a) \/ (r \in Active /\ x \in run[r].got)
<1>0. PICK g : g = run[r] OBVIOUS
<1>1. g \in GenRecord(Range(g.plan)) /\ DOMAIN run = Runners BY <1>0, RunnerFacts DEF GenInv, GenTypeOK
<1>2. ASSUME NEW h, Goes(r, h), \A x \in h.got : x \in g.got \/ pool[x[1]] # Absent,
             h.phase \in {"list", "read", "write"} => r \in Active, g.phase # "idle",
             UNCHANGED <<eco, pool>>,
             \A a : \A x \in Index(a)' : x \in Index(a) \/ (r \in Active /\ x \in run[r].got)
      PROVE  /\ \A q \in Runners \ {r} : run'[q] = run[q]
             /\ \A x \in run'[r].got : x \in run[r].got \/ pool[x[1]] # Absent
             /\ run[r].phase # "idle" /\ (r \in Active' => r \in Active)
  <2>1. run'[r] = h /\ \A q \in Runners \ {r} : run'[q] = run[q] BY <1>1, <1>2 DEF Goes
  <2> QED BY <1>0, <1>2, <2>1 DEF Active
<1>3. ASSUME UNCHANGED <<eco, files>> PROVE \A a : \A x \in Index(a)' : x \in Index(a)
  BY <1>3 DEF Index
<1>4. ASSUME NEW h, h = Idle PROVE h.got = {} /\ h.phase = "idle" BY <1>4 DEF Idle
<1>5. CASE List(r)
  <2>1. PICK h : h = [g EXCEPT !.phase = "read", !.todo = Stored] OBVIOUS
  <2>2. Goes(r, h) /\ UNCHANGED <<eco, pool, files>> /\ g.phase = "list" BY <1>0, <1>5, <2>1 DEF List, collect
  <2>3. h.got = g.got /\ r \in Active BY <1>0, <1>1, <2>1, <2>2 DEF GenRecord, Active
  <2> QED BY <1>2, <1>3, <2>2, <2>3
<1>6. CASE Read(r)
  <2>1. g.phase = "read" /\ g.todo # {} /\ r \in Active BY <1>0, <1>6 DEF Read, Active
  <2>2. PICK p : p = Next1(r) OBVIOUS
  <2>3. p \in Pkgs
    <3>1. g.todo \subseteq Pkgs BY <1>1 DEF GenRecord
    <3>2. p \in g.todo BY <1>0, <2>1, <2>2, <3>1, NextLeft
    <3> QED BY <3>1, <3>2
  <2>4. CASE ReadPackage(p) # {}
    <3>1. PICK h : h = [g EXCEPT !.todo = @ \ {p}, !.got = @ \cup ReadPackage(p),
                                 !.plan = IF eco = "nix" THEN Nix!resignNarinfo(p, pool[p]) ELSE << >>]
      OBVIOUS
    <3>2. Goes(r, h) /\ UNCHANGED <<eco, pool, files>> BY <1>0, <1>6, <2>2, <2>4, <3>1 DEF Read
    <3>3. h.got = g.got \cup ReadPackage(p) BY <1>1, <3>1 DEF GenRecord
    <3>4. pool[p] # Absent /\ ReadPackage(p) = {<<p, pool[p].rev>>} BY <2>3, <2>4, ReadGives DEF GenInv
    <3>5. \A x \in h.got : x \in g.got \/ pool[x[1]] # Absent BY <3>3, <3>4
    <3> QED BY <1>2, <1>3, <2>1, <3>2, <3>5
  <2>5. CASE ReadPackage(p) = {}
    <3>1. PICK h : h = Idle OBVIOUS
    <3>2. Goes(r, h) /\ UNCHANGED <<eco, pool, files>> BY <1>6, <2>2, <2>5, <3>1 DEF Read, Fails
    <3> QED BY <1>2, <1>3, <1>4, <2>1, <3>1, <3>2
  <2> QED BY <2>4, <2>5
<1>7. CASE Build(r)
  <2>1. PICK h : h = [g EXCEPT !.phase = "write", !.plan = Plan(g.got, g.stamp)] OBVIOUS
  <2>2. Goes(r, h) /\ UNCHANGED <<eco, pool, files>> /\ g.phase = "read" BY <1>0, <1>7, <2>1 DEF Build
  <2>3. h.got = g.got /\ r \in Active BY <1>0, <1>1, <2>1, <2>2 DEF GenRecord, Active
  <2> QED BY <1>2, <1>3, <2>2, <2>3
<1>8. CASE writeAtomic(r)
  <2>1. PICK s : s = Head(g.plan) OBVIOUS
  <2>2. PICK more : more = IF s.op = "gc" THEN Apt!gcByHash(files, s.val) ELSE << >> OBVIOUS
  <2>3. PICK h : h = [g EXCEPT !.plan = more \o Tail(@)] OBVIOUS
  <2>4. g.plan # << >> /\ Effect(s) /\ Goes(r, h) /\ UNCHANGED eco BY <1>0, <1>8, <2>1, <2>2, <2>3 DEF writeAtomic
  <2>5. h.got = g.got BY <1>1, <2>3 DEF GenRecord
  <2>6. r \in Active /\ g.phase # "idle" /\ s.op \in {"put", "gc", "del"} BY <1>0, <2>1, <2>4, WriteStep
  <2>7. UNCHANGED pool BY <2>4, <2>6 DEF Effect
  <2>8. ASSUME NEW a, NEW x \in Index(a)' PROVE x \in Index(a) \/ (r \in Active /\ x \in run[r].got)
    <3>1. CASE s.op = "put"
      <4>1. files' = Put(files, s.key, s.val) BY <2>4, <3>1 DEF Effect
      <4> QED BY <1>0, <2>1, <2>4, <2>6, <2>8, <3>1, <4>1, IndexPut
    <3>2. CASE s.op # "put"
      <4>1. \A k \in DOMAIN files' : k \in DOMAIN files /\ files'[k] = files[k] BY <2>4, <3>2 DEF Effect
      <4> QED BY <2>4, <2>8, <4>1 DEF Index, Apt!Index, Rpm!Index, Pacman!Index
    <3> QED BY <3>1, <3>2
  <2> QED BY <1>2, <2>4, <2>5, <2>6, <2>7, <2>8
<1>9. CASE Finish(r)
  <2>1. PICK h : h = [g EXCEPT !.phase = "done"] OBVIOUS
  <2>2. Goes(r, h) /\ UNCHANGED <<eco, pool, files>> /\ g.phase = "write" BY <1>0, <1>9, <2>1 DEF Finish
  <2>3. h.got = g.got /\ h.phase = "done" BY <1>1, <2>1 DEF GenRecord
  <2> QED BY <1>2, <1>3, <2>2, <2>3
<1>10. CASE Leave(r) \/ Aborts(r)
  <2>1. PICK h : h = Idle OBVIOUS
  <2>2. Goes(r, h) /\ UNCHANGED <<eco, pool, files>> /\ g.phase # "idle" BY <1>0, <1>10, <2>1 DEF Leave, Aborts, Fails, Active
  <2> QED BY <1>2, <1>3, <1>4, <2>1, <2>2
<1>11. CASE CommitFailsLate(r)
  <2>1. PICK s, h : s = Head(g.plan) /\ h = Idle OBVIOUS
  <2>2. /\ g.phase = "write" /\ g.plan # << >> /\ s.op = "put" /\ files' = Put(files, s.key, s.val)
        /\ Goes(r, h) /\ UNCHANGED <<eco, pool>>
    BY <1>0, <1>11, <2>1 DEF CommitFailsLate, Fails
  <2>3. r \in Active BY <1>0, <2>2 DEF Active
  <2>4. \A a : \A x \in Index(a)' : x \in Index(a) \/ (r \in Active /\ x \in run[r].got)
    BY <1>0, <2>1, <2>2, <2>3, IndexPut
  <2> QED BY <1>2, <1>4, <2>1, <2>2, <2>4
<1> QED BY <1>5, <1>6, <1>7, <1>8, <1>9, <1>10, <1>11 DEF GenStep
\* What must not come back: into a generation, or into an index.
NothingBack ==
    /\ eco' = eco
    /\ \A r \in Active' : \A x \in run'[r].got : (r \in Active /\ x \in run[r].got) \/ pool[x[1]] # Absent
    /\ \A a : \A x \in Index(a)' : x \in Index(a) \/ \E r \in Active : x \in run[r].got

\* ... and what a pass must not see, unless it is told.
Undisturbed(s) ==
    /\ run[s].phase = "idle" => run'[s].phase = "idle"
    /\ \A x \in run'[s].got : x \in run[s].got \/ pool[x[1]] # Absent
    /\ pass'[s].mine = pass[s].mine /\ pass[s].moved \subseteq pass'[s].moved
    /\ \A p \in pass[s].mine \ pass'[s].moved : pool[p] = Absent => pool'[p] = Absent

LEMMA StaysDeleted ==
    ASSUME NEW s \in Passes, DeletedStays(s), NothingBack, Undisturbed(s),
           \/ pass'[s].st = pass[s].st
           \/ pass[s].st \in {"judge", "delete"} /\ pass'[s].st \in {"judge", "delete"}
    PROVE  DeletedStays(s)'
<1>1. PICK v, w : v = pass[s] /\ w = pass'[s] OBVIOUS
<1>2. PICK A, B : A = v.mine \ v.moved /\ B = w.mine \ w.moved OBVIOUS
<1>3. w.mine = v.mine /\ B \subseteq A BY <1>1, <1>2 DEF Undisturbed
<1>4. /\ v.st # "reindex" => run[s].phase = "idle"
      /\ v.st = "list" => v.mine = {}
      /\ v.st # "idle" => eco # "nix" /\ \A p \in A : pool[p] = Absent
      /\ v.st = "reindex" => \A x \in run[s].got : x[1] \notin A
      /\ v.st = "ok" => \A p \in A : (\A r \in Active : \A x \in run[r].got : x[1] # p) /\ ~IndexNames(p)
  BY <1>1, <1>2 DEF DeletedStays
<1>5. w.st # "reindex" => run'[s].phase = "idle" BY <1>1, <1>4 DEF Undisturbed
<1>6. w.st = "list" => w.mine = {} BY <1>1, <1>3, <1>4
<1>7. w.st # "idle" => eco' # "nix" /\ \A p \in B : pool'[p] = Absent
  BY <1>1, <1>2, <1>3, <1>4 DEF NothingBack, Undisturbed
<1>8. w.st = "reindex" => \A x \in run'[s].got : x[1] \notin B
  BY <1>1, <1>3, <1>4 DEF Undisturbed
<1>9. ASSUME w.st = "ok", NEW p \in B
      PROVE  (\A r \in Active' : \A x \in run'[r].got : x[1] # p) /\ ~IndexNames(p)'
  <2>1. v.st = "ok" /\ p \in A /\ pool[p] = Absent BY <1>1, <1>3, <1>4, <1>9
  <2>2. (\A r \in Active : \A x \in run[r].got : x[1] # p) /\ ~IndexNames(p) BY <1>4, <2>1
  <2>3. \A r \in Active' : \A x \in run'[r].got : x[1] # p BY <2>1, <2>2 DEF NothingBack
  <2>4. ASSUME NEW a \in {Arch[q] : q \in Pkgs}, NEW x \in Index(a)', x[1] = p PROVE FALSE
    <3>1. x \in Index(a) \/ \E r \in Active : x \in run[r].got BY <2>4 DEF NothingBack
    <3>2. x \notin Index(a) BY <2>2, <2>4 DEF IndexNames
    <3> QED BY <2>2, <2>4, <3>1, <3>2
  <2>5. ~IndexNames(p)' BY <2>4 DEF IndexNames
  <2> QED BY <2>3, <2>5
<1> QED BY <1>1, <1>2, <1>5, <1>6, <1>7, <1>8, <1>9 DEF DeletedStays

\* Steps that do not touch the repository.
LEMMA RepoSame ==
    ASSUME UNCHANGED <<eco, pool, files, run>>
    PROVE  NothingBack
BY DEF NothingBack, Active, Index

\* An upload or a deletion: the generations have read what they have read.
LEMMA RepoEdited ==
    ASSUME GenInv, eco \in {"apt", "rpm-md", "pacman"}, NEW p, run' = Touch(p), UNCHANGED <<eco, files>>
    PROVE  /\ NothingBack
           /\ \A r \in Runners : run'[r].phase = run[r].phase /\ run'[r].got = run[r].got
<1>1. ASSUME NEW r \in Runners PROVE run'[r].phase = run[r].phase /\ run'[r].got = run[r].got
  <2>1. run[r] \in GenRecord(Range(run[r].plan)) BY DEF GenInv, GenTypeOK
  <2>2. run'[r] = run[r] \/ run'[r] = [run[r] EXCEPT !.touched = @ \cup {p}] BY DEF Touch
  <2> QED BY <2>1, <2>2 DEF GenRecord
<1>2. Active' = Active BY <1>1 DEF Active
<1>3. \A a : \A x \in Index(a)' : x \in Index(a) BY DEF Index
<1>4. \A r \in Active : r \in Runners BY DEF Active
<1> QED BY <1>1, <1>2, <1>3, <1>4 DEF NothingBack

\* A generation begins: the others have read what they have read.
LEMMA RepoBegun ==
    ASSUME GenInv, NEW s \in Runners, UNCHANGED <<eco, files, pool>>,
           run' = [x \in Runners |->
                      IF x = s THEN [Idle EXCEPT !.phase = "list", !.stamp = runs + 1, !.alone = (Active = {})]
                      ELSE IF run[x].phase # "idle" THEN [run[x] EXCEPT !.alone = FALSE] ELSE run[x]]
    PROVE  /\ NothingBack /\ run'[s].got = {}
           /\ \A r \in Runners \ {s} : run'[r].phase = run[r].phase /\ run'[r].got = run[r].got
<1>1. ASSUME NEW r \in Runners \ {s} PROVE run'[r].phase = run[r].phase /\ run'[r].got = run[r].got
  <2>1. run[r] \in GenRecord(Range(run[r].plan)) BY DEF GenInv, GenTypeOK
  <2>2. run'[r] = run[r] \/ run'[r] = [run[r] EXCEPT !.alone = FALSE] BY <1>1
  <2> QED BY <2>1, <2>2 DEF GenRecord
<1>2. run'[s].got = {}
  <2>1. run'[s] = [Idle EXCEPT !.phase = "list", !.stamp = runs + 1, !.alone = (Active = {})] OBVIOUS
  <2> QED BY <2>1 DEF Idle
<1>3. \A r \in Active' : r = s \/ (r \in Runners \ {s} /\ r \in Active) BY <1>1 DEF Active
<1>4. \A a : \A x \in Index(a)' : x \in Index(a) BY DEF Index
<1> QED BY <1>1, <1>2, <1>3, <1>4 DEF NothingBack

\* A step of a generation.
LEMMA RepoGenerated ==
    ASSUME GenInv, eco \in {"apt", "rpm-md", "pacman"}, NEW s \in Runners,
           GenStep(s) \/ Aborts(s) \/ CommitFailsLate(s)
    PROVE  /\ NothingBack /\ pool' = pool
           /\ \A r \in Runners \ {s} : run'[r] = run[r]
           /\ run[s].phase # "idle" /\ \A x \in run'[s].got : x \in run[s].got \/ pool[x[1]] # Absent
<1>1. /\ UNCHANGED <<eco, pool>>
      /\ \A q \in Runners \ {s} : run'[q] = run[q]
      /\ \A x \in run'[s].got : x \in run[s].got \/ pool[x[1]] # Absent
      /\ run[s].phase # "idle" /\ (s \in Active' => s \in Active)
      /\ \A a : \A x \in Index(a)' : x \in Index(a) \/ (s \in Active /\ x \in run[s].got)
  BY GenMoves
<1>2. \A r \in Active' : r \in Runners /\ r \in Active BY <1>1 DEF Active
<1> QED BY <1>1, <1>2 DEF NothingBack
LEMMA IdleStays ==
    ASSUME NEW s \in Passes, pass'[s].st = "idle", run'[s].phase = "idle" PROVE DeletedStays(s)'
BY DEF DeletedStays

\* Requests of users, the keeper of the marks and the clock.
LEMMA OthersStay ==
    ASSUME RetInv, SweepInv, NEW s \in Passes, eco \in {"apt", "rpm-md", "pacman"} \/ pass[s].st = "idle",
           \/ UNCHANGED <<eco, pool, files, run>>
              /\ (pass' = pass \/ \E E : pass'[s] = [pass[s] EXCEPT !.late = @ \cup E])
           \/ \E p \in Pkgs : /\ run' = Touch(p) /\ UNCHANGED <<eco, files>>
                              /\ \A q \in Pkgs \ {p} : pool'[q] = pool[q]
                              /\ \/ pass'[s] = pass[s] /\ (pass[s].st = "idle" \/ pool' = pool)
                                 \/ pass'[s] = [pass[s] EXCEPT !.moved = @ \cup {p}]
    PROVE  DeletedStays(s)'
<1>1. pass[s] \in PassRecord /\ s \in Runners
  BY RetentionAssumption DEF RetInv, RetTypeOK
<1>2. DeletedStays(s) /\ GenInv BY DEF SweepInv
<1>3. ASSUME UNCHANGED <<eco, pool, files, run>>, pass' = pass \/ \E E : pass'[s] = [pass[s] EXCEPT !.late = @ \cup E]
      PROVE  DeletedStays(s)'
  <2>1. pass'[s].st = pass[s].st /\ pass'[s].mine = pass[s].mine /\ pass'[s].moved = pass[s].moved
    BY <1>1, <1>3 DEF PassRecord
  <2>2. NothingBack BY <1>3, RepoSame
  <2>3. Undisturbed(s) BY <1>3, <2>1 DEF Undisturbed
  <2> QED BY <1>2, <2>1, <2>2, <2>3, StaysDeleted
<1>4. ASSUME NEW p \in Pkgs, run' = Touch(p), UNCHANGED <<eco, files>>, \A q \in Pkgs \ {p} : pool'[q] = pool[q],
             \/ pass'[s] = pass[s] /\ (pass[s].st = "idle" \/ pool' = pool)
             \/ pass'[s] = [pass[s] EXCEPT !.moved = @ \cup {p}]
      PROVE  DeletedStays(s)'
  <2>1. /\ pass'[s].st = pass[s].st /\ pass'[s].mine = pass[s].mine /\ pass[s].moved \subseteq pass'[s].moved
        /\ pass[s].mine \subseteq Pkgs
        /\ pass'[s] = pass[s] \/ p \in pass'[s].moved
    BY <1>1, <1>4 DEF PassRecord
  <2>2. CASE pass[s].st = "idle"
    <3>1. run[s].phase = "idle" BY <1>2, <2>2 DEF DeletedStays
    <3>2. run'[s] = run[s] BY <1>1, <1>4, <3>1 DEF Touch
    <3> QED BY <2>1, <2>2, <3>1, <3>2, IdleStays
  <2>3. CASE pass[s].st # "idle"
    <3>1. NothingBack /\ run'[s].phase = run[s].phase /\ run'[s].got = run[s].got BY <1>1, <1>2, <1>4, <2>3, RepoEdited
    <3>2. ASSUME NEW q \in pass[s].mine \ pass'[s].moved PROVE pool'[q] = pool[q]
      <4>1. CASE pool' = pool BY <4>1
      <4>2. CASE pool' # pool
        <5>1. pass'[s] = [pass[s] EXCEPT !.moved = @ \cup {p}] BY <1>4, <2>3, <4>2
        <5>2. p \in pass'[s].moved BY <1>1, <5>1 DEF PassRecord
        <5>3. q \in Pkgs \ {p} BY <2>1, <3>2, <5>2
        <5> QED BY <1>4, <5>3
      <4> QED BY <4>1, <4>2
    <3>3. Undisturbed(s) BY <2>1, <3>1, <3>2 DEF Undisturbed
    <3> QED BY <1>2, <2>1, <3>1, <3>3, StaysDeleted
  <2> QED BY <2>2, <2>3
<1> QED BY <1>3, <1>4

\* The passes that do not take the step, while one of them does.
LEMMA BesidesStay ==
    ASSUME RetInv, SweepInv, NothingBack, NEW s \in Passes, pass'[s] = pass[s], pool' = pool,
           run'[s].phase = run[s].phase, run'[s].got = run[s].got
    PROVE  DeletedStays(s)'
<1>1. DeletedStays(s) BY DEF SweepInv
<1>2. Undisturbed(s) BY DEF Undisturbed
<1> QED BY <1>1, <1>2, StaysDeleted

\* A step of pass s that leaves the repository alone.
LEMMA PassOnly ==
    ASSUME RetInv, SweepInv, NEW s \in Passes, NEW w, PassGoes(s, w), UNCHANGED <<eco, pool, files, run>>,
           NEW x \in Passes, x = s => DeletedStays(s)'
    PROVE  DeletedStays(x)'
<1>1. NothingBack BY RepoSame
<1>2. pass \in [Passes -> PassRecord] BY DEF RetInv, RetTypeOK
<1>3. CASE x # s
  <2>1. pass'[x] = pass[x] BY <1>2, <1>3 DEF PassGoes
  <2> QED BY <1>1, <2>1, BesidesStay
<1> QED BY <1>3

LEMMA SweepsStay ==
    ASSUME RetInv, SweepInv, NEW s \in Passes, NEW x \in Passes,
           PassBegins(s) \/ PassLists(s) \/ PassJudges(s) \/ PassReturns(s) \/ DeleteFails(s) \/ PassFails(s)
    PROVE  DeletedStays(x)'
<1>0. PICK v : v = pass[s] OBVIOUS
<1>1. v \in PassRecord /\ pass \in [Passes -> PassRecord] BY <1>0 DEF RetInv, RetTypeOK
<1>2. DeletedStays(s) BY DEF SweepInv
<1>3. UNCHANGED <<eco, pool, files, run>>
  BY DEF PassBegins, PassLists, PassJudges, PassReturns, DeleteFails, PassFails, indexVars
<1>4. NothingBack BY <1>3, RepoSame
<1>5. ASSUME NEW w, PassGoes(s, w) PROVE pass'[s] = w BY <1>1, <1>5 DEF PassGoes
<1>6. NoPass.st = "idle" BY DEF NoPass
<1>7. CASE PassBegins(s)
  <2>1. PICK w : w = [NoPass EXCEPT !.st = "list", !.pol = policy, !.pinned = pins] OBVIOUS
  <2>2. PassGoes(s, w) /\ run[s].phase = "idle" /\ eco # "nix" BY <1>7, <2>1 DEF PassBegins
  <2>3. w.st = "list" /\ w.mine = {} BY <2>1 DEF NoPass
  <2>4. pass'[s] = w BY <1>5, <2>2
  <2>5. DeletedStays(s)' BY <1>3, <2>2, <2>3, <2>4 DEF DeletedStays
  <2> QED BY <1>3, <2>2, <2>5, PassOnly
<1>8. CASE PassLists(s)
  <2>1. PICK keys : PassGoes(s, [v EXCEPT !.st = "judge", !.now = clock, !.moved = {},
                           !.todo = [n \in 1 .. Cardinality(sweepFamily(s)) |-> <<keys[n], mtime[keys[n]]>>]])
    BY <1>0, <1>8 DEF PassLists
  <2>7. PICK w : w = [v EXCEPT !.st = "judge", !.now = clock, !.moved = {},
                           !.todo = [n \in 1 .. Cardinality(sweepFamily(s)) |-> <<keys[n], mtime[keys[n]]>>]]
    OBVIOUS
  <2>2. PassGoes(s, w) /\ w.st = "judge" /\ w.mine = v.mine BY <1>1, <2>1, <2>7 DEF PassRecord
  <2>3. v.st = "list" BY <1>0, <1>8 DEF PassLists
  <2>4. v.mine = {} /\ run[s].phase = "idle" /\ eco # "nix" BY <1>0, <1>2, <2>3 DEF DeletedStays
  <2>5. pass'[s] = w BY <1>5, <2>2
  <2>6. DeletedStays(s)' BY <1>3, <2>2, <2>4, <2>5 DEF DeletedStays
  <2> QED BY <1>3, <2>2, <2>6, PassOnly
<1>9. CASE PassJudges(s) \/ DeleteFails(s)
  <2>1. CASE PassJudges(s)
    <3>1. PICK z : z = Head(v.todo) OBVIOUS
    <3>2. PICK w : w = [v EXCEPT !.todo = Tail(@), !.late = @ \ (IF z[1] \in pins THEN {} ELSE {z[1]}),
                           !.cand = IF Spared(s, z) THEN 0 ELSE z[1],
                           !.st = IF Spared(s, z) THEN "judge" ELSE "delete"]
      OBVIOUS
    <3>3. PassGoes(s, w) BY <1>0, <2>1, <3>1, <3>2 DEF PassJudges
    <3>4. w.st \in {"judge", "delete"} /\ w.mine = v.mine /\ w.moved = v.moved BY <1>1, <3>2 DEF PassRecord
    <3>5. pass'[s] = w BY <1>5, <3>3
    <3>6. Undisturbed(s) BY <1>0, <1>3, <3>4, <3>5 DEF Undisturbed
    <3>7. v.st = "judge" BY <1>0, <2>1 DEF PassJudges
    <3>8. DeletedStays(s)' BY <1>0, <1>2, <1>4, <3>4, <3>5, <3>6, <3>7, StaysDeleted
    <3> QED BY <1>3, <3>3, <3>8, PassOnly
  <2>2. CASE DeleteFails(s)
    <3>2. PICK w : w = [v EXCEPT !.st = "judge", !.cand = 0] OBVIOUS
    <3>3. PassGoes(s, w) BY <1>0, <2>2, <3>2 DEF DeleteFails
    <3>4. w.st = "judge" /\ w.mine = v.mine /\ w.moved = v.moved BY <1>1, <3>2 DEF PassRecord
    <3>5. pass'[s] = w BY <1>5, <3>3
    <3>6. Undisturbed(s) BY <1>0, <1>3, <3>4, <3>5 DEF Undisturbed
    <3>7. v.st = "delete" BY <1>0, <2>2 DEF DeleteFails
    <3>8. DeletedStays(s)' BY <1>0, <1>2, <1>4, <3>4, <3>5, <3>6, <3>7, StaysDeleted
    <3> QED BY <1>3, <3>3, <3>8, PassOnly
  <2> QED BY <1>9, <2>1, <2>2
<1>10. CASE PassReturns(s) \/ PassFails(s)
  <2>1. PassGoes(s, NoPass) /\ v.st \in {"ok", "list", "judge"} BY <1>0, <1>10 DEF PassReturns, PassFails
  <2>2. pass'[s].st = "idle" BY <1>5, <1>6, <2>1
  <2>3. run'[s].phase = "idle" BY <1>0, <1>2, <1>3, <2>1 DEF DeletedStays
  <2>4. DeletedStays(s)' BY <2>2, <2>3, IdleStays
  <2> QED BY <1>3, <2>1, <2>4, PassOnly
<1> QED BY <1>7, <1>8, <1>9, <1>10

\* A deletion: the pass that makes it has the version to its account, the
\* others are told.
LEMMA DeletionStays ==
    ASSUME RetInv, SweepInv, NEW s \in Passes, deleteKey(s), eco \in {"apt", "rpm-md", "pacman"}, NEW x \in Passes
    PROVE  DeletedStays(x)'
<1>0. PICK v, p : v = pass[s] /\ p = v.cand OBVIOUS
<1>1. v \in PassRecord /\ pass \in [Passes -> PassRecord] /\ DOMAIN pool = Pkgs
  BY <1>0 DEF RetInv, RetTypeOK, StoreTypeOK
<1>2. /\ v.st = "delete" /\ pool' = [pool EXCEPT ![p] = Absent] /\ run' = Touch(p) /\ UNCHANGED <<eco, files>>
      /\ pass' = [(IF p \in Stored THEN Moved(p) ELSE pass) EXCEPT
                    ![s] = [v EXCEPT !.st = "judge", !.cand = 0, !.mine = IF p \in Stored THEN @ \cup {p} ELSE @]]
  BY <1>0 DEF deleteKey
<1>3. p \in Pkgs BY <1>0, <1>2 DEF RetInv, PassKnows
<1>4. pool'[p] = Absent /\ \A q \in Pkgs \ {p} : pool'[q] = pool[q] BY <1>1, <1>2, <1>3
<1>5. CASE x = s
  <2>1. PICK w : w = [v EXCEPT !.st = "judge", !.cand = 0, !.mine = IF p \in Stored THEN @ \cup {p} ELSE @] OBVIOUS
  <2>2. pass'[s] = w BY <1>1, <1>2, <2>1 DEF Moved
  <2>3. w.st = "judge" /\ w.mine \subseteq v.mine \cup {p} /\ w.moved = v.moved /\ v.mine \subseteq Pkgs
    BY <1>1, <2>1 DEF PassRecord
  <2>4. eco # "nix" /\ run[s].phase = "idle" /\ \A q \in v.mine \ v.moved : pool[q] = Absent
    BY <1>0, <1>2 DEF SweepInv, DeletedStays
  <2>5. s \in Runners BY RetentionAssumption
  <2>6. run'[s].phase = "idle" BY <1>2, <2>4, <2>5 DEF Touch
  <2>7. \A q \in w.mine \ w.moved : pool'[q] = Absent BY <1>4, <2>3, <2>4
  <2> QED BY <1>2, <1>5, <2>2, <2>3, <2>4, <2>6, <2>7 DEF DeletedStays
<1>6. CASE x # s
  <2>1. pass'[x] = IF p \in Stored THEN Moved(p)[x] ELSE pass[x] BY <1>1, <1>2, <1>6 DEF Moved
  <2>2. p \notin Stored => pool' = pool
    <3>1. pool \in [Pkgs -> Object \cup {Absent}] BY DEF SweepInv, GenInv, GenTypeOK
    <3>2. p \notin Stored => pool[p] = Absent BY <1>3 DEF Stored
    <3> QED BY <1>2, <1>3, <3>1, <3>2
  <2>3. \/ pass'[x] = pass[x] /\ (pass[x].st = "idle" \/ pool' = pool)
        \/ pass'[x] = [pass[x] EXCEPT !.moved = @ \cup {p}]
    BY <2>1, <2>2 DEF Moved
  <2> QED BY <1>2, <1>3, <1>4, <2>3, OthersStay
<1> QED BY <1>5, <1>6

\* The generation of a pass begins; it has read nothing.
LEMMA SweptStays ==
    ASSUME RetInv, SweepInv, NEW s \in Passes, PassSwept(s), NEW x \in Passes
    PROVE  DeletedStays(x)'
<1>0. PICK v : v = pass[s] OBVIOUS
<1>1. v \in PassRecord /\ pass \in [Passes -> PassRecord] /\ s \in Runners /\ x \in Runners
  BY <1>0, RetentionAssumption DEF RetInv, RetTypeOK
<1>2. GenInv /\ DeletedStays(s) BY DEF SweepInv
<1>3. v.st = "judge" BY <1>0 DEF PassSwept
<1>4. eco # "nix" /\ run[s].phase = "idle" /\ \A q \in v.mine \ v.moved : pool[q] = Absent
  BY <1>0, <1>2, <1>3 DEF DeletedStays
<1>5. CASE Reindexes(s)
  <2>1. PICK w : w = [v EXCEPT !.st = "reindex"] OBVIOUS
  <2>2. /\ PassGoes(s, w) /\ UNCHANGED <<eco, pool, files>>
        /\ run' = [y \in Runners |->
                      IF y = s THEN [Idle EXCEPT !.phase = "list", !.stamp = runs + 1, !.alone = (Active = {})]
                      ELSE IF run[y].phase # "idle" THEN [run[y] EXCEPT !.alone = FALSE] ELSE run[y]]
    BY <1>0, <1>5, <2>1, Zenon DEF PassSwept
  <2>3. /\ NothingBack /\ run'[s].got = {}
        /\ \A r \in Runners \ {s} : run'[r].phase = run[r].phase /\ run'[r].got = run[r].got
    BY <1>1, <1>2, <2>2, RepoBegun
  <2>4. w.st = "reindex" /\ w.mine = v.mine /\ w.moved = v.moved BY <1>1, <2>1 DEF PassRecord
  <2>5. pass'[s] = w /\ (x # s => pass'[x] = pass[x]) BY <1>1, <2>2 DEF PassGoes
  <2>6. CASE x = s BY <1>4, <2>2, <2>3, <2>4, <2>5, <2>6 DEF DeletedStays
  <2>7. CASE x # s BY <1>1, <2>2, <2>3, <2>5, <2>7, BesidesStay
  <2> QED BY <2>6, <2>7
<1>6. CASE ~Reindexes(s)
  <2>1. PICK w : w = [v EXCEPT !.st = "ok"] OBVIOUS
  <2>2. PassGoes(s, w) /\ UNCHANGED <<eco, pool, files, run>> BY <1>0, <1>6, <2>1 DEF PassSwept, indexVars
  <2>3. w.st = "ok" /\ w.mine = {} BY <1>0, <1>1, <1>6, <2>1 DEF PassRecord, Reindexes
  <2>4. pass'[s] = w BY <1>1, <2>2 DEF PassGoes
  <2>5. DeletedStays(s)' BY <1>4, <2>2, <2>3, <2>4 DEF DeletedStays
  <2> QED BY <2>2, <2>5, PassOnly
<1> QED BY <1>5, <1>6

\* The generation of a pass that is done, and was alone: the index names what
\* it has collected.
LEMMA DoneNames ==
    ASSUME GenInv, NeverWritten, eco \in {"apt", "rpm-md", "pacman"}, NEW s \in Runners, Done(s),
           NEW p, \A x \in run[s].got : x[1] # p
    PROVE  ~IndexNames(p)
<1> SUFFICES ASSUME NEW a \in {Arch[q] : q \in Pkgs}, NEW x \in Index(a), x[1] = p PROVE FALSE
  BY DEF IndexNames
<1>1. a \in Rebuilt(run[s].got) BY DEF Rebuilt
<1>2. Index(a) \subseteq run[s].got BY <1>1, IndexFromRecords
<1> QED BY <1>2

LEMMA GenerationStays ==
    ASSUME RetInv, SweepInv, NEW s \in Passes, Generates(s) \/ GenFails(s),
           eco \in {"apt", "rpm-md", "pacman"}, NEW x \in Passes
    PROVE  DeletedStays(x)'
<1>0. PICK v : v = pass[s] OBVIOUS
<1>1. v \in PassRecord /\ pass \in [Passes -> PassRecord] /\ s \in Runners /\ x \in Runners
  BY <1>0, RetentionAssumption DEF RetInv, RetTypeOK
<1>2. GenInv /\ NeverWritten /\ DeletedStays(s) BY DEF SweepInv
<1>3. v.st = "reindex" /\ (GenStep(s) \/ Aborts(s) \/ CommitFailsLate(s)) BY <1>0 DEF Generates, GenFails
<1>4. /\ NothingBack /\ pool' = pool
      /\ \A r \in Runners \ {s} : run'[r] = run[r]
      /\ run[s].phase # "idle" /\ \A y \in run'[s].got : y \in run[s].got \/ pool[y[1]] # Absent
  BY <1>1, <1>2, <1>3, RepoGenerated
<1>5. eco' = eco /\ eco # "nix" BY <1>4 DEF NothingBack
<1>6. /\ \A q \in v.mine \ v.moved : pool[q] = Absent
      /\ \A y \in run[s].got : y[1] \notin v.mine \ v.moved
  BY <1>0, <1>2, <1>3 DEF DeletedStays
<1>7. CASE x # s
  <2>1. pass'[x] = pass[x] BY <1>1, <1>7 DEF Generates, GenFails, PassGoes
  <2> QED BY <1>1, <1>4, <1>7, <2>1, BesidesStay
<1>8. ASSUME pass'[s] = v PROVE DeletedStays(s)'
  <2>1. Undisturbed(s) BY <1>0, <1>4, <1>8 DEF Undisturbed
  <2> QED BY <1>0, <1>2, <1>4, <1>8, <2>1, StaysDeleted
<1>9. ASSUME pass'[s] = NoPass, run'[s].phase = "idle" PROVE DeletedStays(s)'
  BY <1>9, IdleStays DEF NoPass
<1>10. CASE GenFails(s)
  <2>1. pass'[s] = NoPass BY <1>1, <1>10 DEF GenFails, PassGoes
  <2>2. Goes(s, Idle) BY <1>10 DEF GenFails, Aborts, CommitFailsLate, Fails
  <2>3. run'[s] = Idle BY <1>1, <1>2, <2>2 DEF Goes, GenInv, GenTypeOK
  <2>4. run'[s].phase = "idle" BY <2>3 DEF Idle
  <2> QED BY <1>7, <1>9, <2>1, <2>4
<1>11. CASE Generates(s)
  <2>1. CASE run'[s].phase # "idle"
    <3>1. pass'[s] = v BY <1>0, <1>11, <2>1 DEF Generates
    <3> QED BY <1>7, <1>8, <3>1
  <2>2. CASE run'[s].phase = "idle" /\ run[s].phase # "done"
    <3>1. pass'[s] = NoPass BY <1>1, <1>11, <2>2 DEF Generates
    <3> QED BY <1>7, <1>9, <2>2, <3>1
  <2>3. CASE run'[s].phase = "idle" /\ run[s].phase = "done"
    <3>1. pass' = [pass EXCEPT ![s].st = "ok", ![s].mine = IF run[s].alone THEN @ ELSE {}] BY <1>11, <2>3 DEF Generates
    <3>2. PICK w : w = pass'[s] OBVIOUS
    <3>3. w.st = "ok" /\ w.moved = v.moved /\ w.mine = IF run[s].alone THEN v.mine ELSE {}
      BY <1>0, <1>1, <3>1, <3>2 DEF PassRecord
    <3>4. CASE ~run[s].alone
      <4>1. w.mine = {} BY <3>3, <3>4
      <4>2. DeletedStays(s)' BY <1>5, <2>3, <3>2, <3>3, <4>1 DEF DeletedStays
      <4> QED BY <1>7, <4>2
    <3>5. CASE run[s].alone
      <4>1. w.mine = v.mine BY <3>3, <3>5
      <4>2. Done(s) BY <2>3, <3>5 DEF Done
      <4>3. \A p \in v.mine \ v.moved : ~IndexNames(p) BY <1>1, <1>2, <1>6, <4>2, DoneNames
      <4>4. Active = {} BY <1>1, <1>2, <2>3, <3>5 DEF GenInv, Solo, Active
      <4>5. Active' = {} BY <1>4, <2>3, <4>4 DEF Active
      <4>6. \A a : \A y \in Index(a)' : y \in Index(a) BY <1>4, <4>4 DEF NothingBack
      <4>7. \A p \in v.mine \ v.moved : ~IndexNames(p)' BY <4>3, <4>6 DEF IndexNames
      <4>8. DeletedStays(s)' BY <1>4, <1>5, <1>6, <2>3, <3>2, <3>3, <4>1, <4>5, <4>7 DEF DeletedStays
      <4> QED BY <1>7, <4>8
    <3> QED BY <3>4, <3>5
  <2> QED BY <2>1, <2>2, <2>3
<1> QED BY <1>10, <1>11
\* The files and the generations, whatever the passes and the users do.
LEMMA SweepGenStep == ASSUME RetInv, SweepInv, [Next]_vars PROVE GenInv' /\ NeverWritten' /\ eco' = eco
<1>1. GenInv /\ NeverWritten /\ Passes = Runners /\ runs \in Nat BY RetentionAssumption DEF SweepInv, GenInv, GenTypeOK
<1>2. ASSUME [IndexNext]_indexVars, eco' = eco PROVE GenInv' /\ NeverWritten' /\ eco' = eco
  BY <1>1, <1>2, GenNextKeeps, NeverWrittenStep
<1>3. UNCHANGED <<eco, signed, files>> => NeverWritten' BY <1>1 DEF NeverWritten
<1>4. ASSUME UNCHANGED indexVars PROVE GenInv' /\ NeverWritten' /\ eco' = eco
  BY <1>2, <1>4 DEF indexVars
<1>5. ASSUME NEW p \in Pkgs, UserDeletes(p) \/ \E c \in Revs : UserUploads(p, c)
      PROVE  GenInv' /\ NeverWritten' /\ eco' = eco
  <2>1. DeletePkg(p) \/ \E c \in Revs : Upload(p, c) BY <1>5 DEF UserDeletes, UserUploads
  <2>2. IndexNext BY <2>1 DEF IndexNext
  <2>3. eco' = eco BY <2>1 DEF DeletePkg, Upload
  <2> QED BY <1>2, <2>2, <2>3
<1>6. ASSUME Edits PROVE GenInv' /\ NeverWritten' /\ eco' = eco
  <2>1. UNCHANGED <<eco, signed, pool, files, run, runs>> BY <1>6 DEF Edits
  <2>2. GenTypeOK' /\ Solo' BY <1>1, <2>1 DEF GenInv, GenTypeOK, Solo, Active
  <2>3. ASSUME NEW x \in Runners
        PROVE  Planned(run[x])' /\ (run[x].alone => Collected(run[x]) /\ Written(run[x]))'
    <3>1. PICK h : h = run[x] OBVIOUS
    <3>2. Planned(h) /\ (h.alone => Collected(h) /\ Written(h)) BY <1>1, <3>1 DEF GenInv
    <3>3. Planned(h)' BY <2>1, <3>2, PlanSame
    <3>4. h.alone => Collected(h)' BY <2>1, <3>2 DEF Collected, Stored
    <3>5. h.alone => Written(h)' BY <2>1, <3>2, PlanSame DEF Written, Holds
    <3> QED BY <2>1, <3>1, <3>3, <3>4, <3>5
  <2>4. GenInv' BY <2>2, <2>3 DEF GenInv
  <2> QED BY <1>3, <2>1, <2>4
<1>7. ASSUME NEW s \in Passes, Generates(s) \/ GenFails(s) PROVE GenInv' /\ NeverWritten' /\ eco' = eco
  <2>1. GenStep(s) \/ Aborts(s) \/ CommitFailsLate(s) BY <1>7 DEF Generates, GenFails
  <2>2. IndexNext BY <1>1, <2>1 DEF IndexNext
  <2>3. eco' = eco BY <2>1, GenStepPreserves DEF Preserves
  <2> QED BY <1>2, <2>2, <2>3
<1>8. ASSUME NEW s \in Passes, deleteKey(s) PROVE GenInv' /\ NeverWritten' /\ eco' = eco
  <2>1. PICK p : p = pass[s].cand OBVIOUS
  <2>2. p \in Pkgs BY <1>8, <2>1 DEF RetInv, PassKnows, deleteKey
  <2>3. pool' = [pool EXCEPT ![p] = Absent] /\ run' = Touch(p) /\ UNCHANGED <<eco, signed, files, runs>>
    BY <1>8, <2>1 DEF deleteKey
  <2>4. GenInv' BY <1>1, <2>2, <2>3, EditKeeps
  <2> QED BY <1>3, <2>3, <2>4
<1>9. ASSUME NEW s \in Passes, PassSwept(s) PROVE GenInv' /\ NeverWritten' /\ eco' = eco
  <2>1. CASE Reindexes(s)
    <3>1. PICK ph \in {"idle", "list"} : ph = "list" OBVIOUS
    <3>2. /\ runs' = runs + 1 /\ UNCHANGED <<eco, signed, pool, files>>
          /\ run' = [x \in Runners |->
                        IF x = s THEN [Idle EXCEPT !.phase = ph, !.stamp = runs + 1, !.alone = (Active = {})]
                        ELSE IF run[x].phase # "idle" THEN [run[x] EXCEPT !.alone = FALSE] ELSE run[x]]
      BY <1>9, <2>1, <3>1, Zenon DEF PassSwept
    <3>3. GenInv' BY <1>1, <3>2, BeginKeeps
    <3> QED BY <1>3, <3>2, <3>3
  <2>2. CASE ~Reindexes(s) BY <1>4, <1>9, <2>2 DEF PassSwept
  <2> QED BY <2>1, <2>2
<1>10. CASE RetCrash
  <2>1. run' = [r \in Runners |-> Idle] /\ UNCHANGED <<eco, signed, pool, files, runs>> BY <1>10 DEF RetCrash
  <2> QED BY <1>1, <1>3, <2>1, CrashKeeps
<1>11. ASSUME Tick \/ Flush \/ MergeAccess \/ MergeFails \/ UNCHANGED vars PROVE UNCHANGED indexVars
  BY <1>11 DEF Tick, Flush, MergeAccess, MergeFails, vars
<1>12. ASSUME NEW s \in Passes,
              PassBegins(s) \/ PassLists(s) \/ PassJudges(s) \/ PassReturns(s) \/ DeleteFails(s) \/ PassFails(s)
       PROVE  UNCHANGED indexVars
  BY <1>12 DEF PassBegins, PassLists, PassJudges, PassReturns, DeleteFails, PassFails
<1>13. ASSUME \/ \E p \in Pkgs : SetPin(p) \/ Unpin(p) \/ handleRepoFile(p)
              \/ \E pol \in Policies : SetPolicy(pol)
       PROVE  Edits
  BY <1>13 DEF SetPin, Unpin, handleRepoFile, SetPolicy
<1> QED BY <1>4, <1>5, <1>6, <1>7, <1>8, <1>9, <1>10, <1>11, <1>12, <1>13 DEF Next, PassStep

LEMMA SweepStep ==
    ASSUME RetInv, SweepInv, [Next]_vars, Ecosystems \cap {"apk", "xbps"} = {}
    PROVE  SweepInv'
<1>0. Passes = Runners BY RetentionAssumption
<1>1. eco \in {"apt", "rpm-md", "pacman", "nix"} /\ pass \in [Passes -> PassRecord]
  BY DEF SweepInv, GenInv, GenTypeOK, RetInv, RetTypeOK
<1>2. GenInv' /\ NeverWritten' /\ eco' \in Ecosystems BY SweepGenStep DEF SweepInv
<1>3. \A s \in Passes : eco \in {"apt", "rpm-md", "pacman"} \/ pass[s].st = "idle"
  BY <1>1 DEF SweepInv, DeletedStays
<1> SUFFICES ASSUME NEW x \in Passes PROVE DeletedStays(x)' BY <1>2 DEF SweepInv
<1>4. ASSUME NEW p \in Pkgs, UserDeletes(p) \/ \E c \in Revs : UserUploads(p, c) PROVE DeletedStays(x)'
  <2>1. pass' = Moved(p) /\ run' = Touch(p) /\ UNCHANGED <<eco, files>> /\ \E o : pool' = [pool EXCEPT ![p] = o]
    BY <1>4 DEF UserDeletes, UserUploads, DeletePkg, Upload
  <2>2. DOMAIN pool = Pkgs BY DEF RetInv, RetTypeOK, StoreTypeOK
  <2>3. \A q \in Pkgs \ {p} : pool'[q] = pool[q] BY <2>1, <2>2
  <2>4. \/ pass'[x] = pass[x] /\ (pass[x].st = "idle" \/ pool' = pool)
        \/ pass'[x] = [pass[x] EXCEPT !.moved = @ \cup {p}]
    BY <2>1 DEF Moved
  <2> QED BY <1>3, <2>1, <2>3, <2>4, OthersStay
<1>5. ASSUME NEW p \in Pkgs, SetPin(p) PROVE DeletedStays(x)'
  <2>1. UNCHANGED <<eco, pool, files, run>> BY <1>5 DEF SetPin, Edits
  <2>2. pass'[x] = pass[x] \/ pass'[x] = [pass[x] EXCEPT !.late = @ \cup {p}] BY <1>5 DEF SetPin
  <2>3. NothingBack BY <2>1, RepoSame
  <2>4. CASE pass'[x] = pass[x] BY <2>1, <2>3, <2>4, BesidesStay
  <2>5. CASE pass'[x] = [pass[x] EXCEPT !.late = @ \cup {p}] BY <1>3, <2>1, <2>5, OthersStay
  <2> QED BY <2>2, <2>4, <2>5
<1>6. ASSUME MergeAccess PROVE DeletedStays(x)'
  <2>1. UNCHANGED <<eco, pool, files, run>> BY <1>6 DEF MergeAccess, indexVars
  <2>2. PICK E : pass'[x] = pass[x] \/ pass'[x] = [pass[x] EXCEPT !.late = @ \cup E] BY <1>6 DEF MergeAccess
  <2>3. NothingBack BY <2>1, RepoSame
  <2>4. CASE pass'[x] = pass[x] BY <2>1, <2>3, <2>4, BesidesStay
  <2>5. CASE pass'[x] = [pass[x] EXCEPT !.late = @ \cup E] BY <1>3, <2>1, <2>5, OthersStay
  <2> QED BY <2>2, <2>4, <2>5
<1>7. ASSUME Tick \/ Flush \/ MergeFails \/ UNCHANGED vars \/ (\E p \in Pkgs : Unpin(p) \/ handleRepoFile(p))
             \/ (\E pol \in Policies : SetPolicy(pol))
      PROVE  DeletedStays(x)'
  <2>1. UNCHANGED <<eco, pool, files, run, pass>>
    BY <1>7 DEF Tick, Flush, MergeFails, vars, retVars, indexVars, Unpin, handleRepoFile, SetPolicy, Edits
  <2>2. NothingBack BY <2>1, RepoSame
  <2> QED BY <2>1, <2>2, BesidesStay
<1>8. CASE RetCrash
  <2>1. run'[x].phase = "idle" /\ pass'[x].st = "idle" BY <1>0, <1>8 DEF RetCrash, Idle, NoPass
  <2> QED BY <2>1, IdleStays
<1>9. ASSUME NEW s \in Passes, PassBegins(s) \/ PassStep(s) \/ DeleteFails(s) \/ PassFails(s) \/ GenFails(s)
      PROVE  DeletedStays(x)'
  <2>1. CASE PassBegins(s) \/ PassLists(s) \/ PassJudges(s) \/ PassReturns(s) \/ DeleteFails(s) \/ PassFails(s)
    BY <2>1, SweepsStay
  <2>2. CASE deleteKey(s)
    <3>1. eco \in {"apt", "rpm-md", "pacman"} BY <1>3, <2>2 DEF deleteKey
    <3> QED BY <2>2, <3>1, DeletionStays
  <2>3. CASE PassSwept(s) BY <2>3, SweptStays
  <2>4. CASE Generates(s) \/ GenFails(s)
    <3>1. eco \in {"apt", "rpm-md", "pacman"} BY <1>3, <2>4 DEF Generates, GenFails
    <3> QED BY <2>4, <3>1, GenerationStays
  <2> QED BY <1>9, <2>1, <2>2, <2>3, <2>4 DEF PassStep
<1> QED BY <1>4, <1>5, <1>6, <1>7, <1>8, <1>9 DEF Next

LEMMA SweepStart == Init => SweepInv
<1> SUFFICES ASSUME Init PROVE SweepInv OBVIOUS
<1>1. StartWith(Pkgs) /\ pass = [s \in Passes |-> NoPass] /\ Passes = Runners /\ 1 \in Revs
  BY RetentionAssumption DEF Init
<1>2. GenInv BY <1>1, StartsSound
<1>3. eco \in Ecosystems /\ signed \in BOOLEAN /\ \A s \in Passes : run[s].phase = "idle" /\ pass[s].st = "idle"
  BY <1>1, IndexAssumption DEF StartWith, Idle, NoPass
<1>4. NeverWritten
  <2>1. PICK got : got = {<<p, 1>> : p \in Pkgs} OBVIOUS
  <2>2. Collection(got) BY <1>1, <2>1 DEF Collection
  <2>3. files = NoFiles \/ files = AllPut(Range(Plan(got, 0))) BY <1>1, <2>1 DEF StartWith
  <2>4. ASSUME NEW k \in DOMAIN files
        PROVE  (eco = "xbps" => k # Xbps!Repodata("all")) /\ (eco = "apt" /\ ~signed => k # Apt!InRelease)
    <3>1. files # NoFiles BY <2>4 DEF NoFiles
    <3>2. PICK s \in Range(Plan(got, 0)) : s.op = "put" /\ s.key = k BY <2>3, <2>4, <3>1 DEF AllPut
    <3> QED BY <1>3, <2>2, <3>2, PlanKeys
  <2> QED BY <2>4 DEF NeverWritten
<1>5. \A s \in Passes : DeletedStays(s) BY <1>3 DEF DeletedStays
<1> QED BY <1>2, <1>3, <1>4, <1>5 DEF SweepInv

\* A pass that ends well leaves indexes that name none of the versions it has
\* deleted, whatever users, other passes, failures and crashes do meanwhile
\* (ApplyAndReindex).  Where every architecture has an index of its own (apk,
\* xbps) the code does not keep this: the index of an architecture that has
\* lost its last package stays as it is.
THEOREM PassesLeaveIndexes ==
    ASSUME Ecosystems \cap {"apk", "xbps"} = {} PROVE Spec => []PassLeavesIndex
<1>1. RetInv /\ SweepInv /\ [Next]_vars => SweepInv' BY SweepStep
<1>2. SweepInv => PassLeavesIndex BY DEF SweepInv, DeletedStays, PassLeavesIndex
<1> QED BY <1>1, <1>2, SweepStart, RetentionInvariance, PTL DEF Spec
=============================================================================
