-------------------------- MODULE SchedulerProofs ---------------------------
(***************************************************************************)
(* Proofs about the task registry and the scheduler that uses it.          *)
(*                                                                         *)
(* The registry, for every set of keys and claimers and every number of    *)
(* workers: the key of a task has one holder, the slots of the semaphore   *)
(* are never exceeded, and WaitAll waits for everybody when no handler     *)
(* outlives the HTTP shutdown.                                             *)
(*                                                                         *)
(* The scheduler uses the registry as it is meant to be used, starts no    *)
(* second runner beside a live one, and lets two syncs of a remote overlap *)
(* only after a rename: for any number of remotes, edits, deaths and       *)
(* manual syncs.                                                           *)
(***************************************************************************)
EXTENDS MirrorScheduler, FiniteSetTheorems, FunctionTheorems, TLAPS

\* The sets that the semaphore and the WaitGroup count are finite.
LEMMA CountedFinite == IsFiniteSet(Slots) /\ IsFiniteSet(Launched)
  <1>1. IsFiniteSet(Ids)
    BY FS_Interval, RegistryAssumption DEF Ids
  <1>2. Slots \in SUBSET Ids /\ Launched \in SUBSET Ids
    BY DEF Slots, Launched
  <1> QED
    BY <1>1, <1>2, FS_Subset

\* The registry starts empty.
LEMMA RegInitInv == RegInit => RegInv
  <1> SUFFICES ASSUME RegInit PROVE RegInv
    OBVIOUS
  <1> USE RegistryAssumption DEF RegInit
  <1>1. RegTypeOK
    BY DEF RegTypeOK, Task, Pcs
  <1>2. \A i \in Ids : task[i].pc = "none"
    OBVIOUS
  <1>3. OneHolder
    BY <1>2 DEF OneHolder, Holds
  <1>4. ActiveExact
    BY <1>2 DEF ActiveExact, Holds
  <1>5. Slots = {} /\ Launched = {}
    BY <1>2 DEF Slots, Launched
  <1>6. Counted
    BY <1>5, FS_EmptySet DEF Counted
  <1>7. Started /\ Quiet
    BY <1>2 DEF Started, Quiet, Running, WaitAllComplete
  <1> QED
    BY <1>1, <1>3, <1>4, <1>6, <1>7 DEF RegInv

\* The id that Start hands out is new.
LEMMA NewTask ==
    ASSUME RegInv, NEW k \in TaskKeys, Start(k)
    PROVE  LET n == started + 1 IN
           /\ n \in Ids /\ task[n].pc = "none"
           /\ task' \in [Ids -> Task]
           /\ task'[n].pc = "registered" /\ task'[n].key = k
           /\ \A j \in Ids \ {n} : task'[j] = task[j]
  <1> DEFINE n == started + 1
  <1>1. n \in Ids /\ n > started
    BY RegistryAssumption DEF RegInv, RegTypeOK, Start, Ids
  <1>2. task[n].pc = "none"
    BY <1>1 DEF RegInv, Started
  <1>3. task' = [task EXCEPT ![n] = [pc |-> "registered", key |-> k]]
    BY DEF Start
  <1>4. [pc |-> "registered", key |-> k] \in Task
    BY DEF Task, Pcs
  <1>5. task \in [Ids -> Task]
    BY DEF RegInv, RegTypeOK
  <1> QED
    BY <1>1, <1>2, <1>3, <1>4, <1>5

\* A task that is started takes a free key and a free slot.
LEMMA StartInv ==
    ASSUME RegInv, NEW k \in TaskKeys, Start(k)
    PROVE  RegInv'
  <1> DEFINE n == started + 1
  <1>1. /\ n \in Ids /\ task[n].pc = "none"
        /\ task' \in [Ids -> Task]
        /\ task'[n].pc = "registered" /\ task'[n].key = k
        /\ \A j \in Ids \ {n} : task'[j] = task[j]
    BY NewTask
  <1>2. /\ started' = n /\ sem' = sem + 1 /\ sem < Workers
        /\ active' = [active EXCEPT ![k] = n] /\ claims' = claims \cup {k}
        /\ active[k] = 0 /\ k \notin claims
        /\ tasks' = (tasks \cup {n}) \ Evicted(tasks \cup {n})
        /\ wg' = wg /\ held' = held /\ waiting' = waiting
        /\ waiting = "no" \/ LateStarts
    BY DEF Start, KeyFree, SlotFree
  <1> HIDE DEF n
  <1>3. RegTypeOK'
    <2>1. n \in 0..MaxTasks
      BY <1>1, RegistryAssumption DEF Ids
    <2>2. sem' \in 0..Workers
      BY <1>2, RegistryAssumption DEF RegInv, RegTypeOK
    <2> QED
      BY <1>1, <1>2, <2>1, <2>2 DEF RegInv, RegTypeOK
  <1>4. \A j \in Ids : Holds(j)' <=> Holds(j) \/ j = n
    BY <1>1 DEF Holds
  <1>5. \A j \in Ids : Holds(j) => j # n /\ task'[j] = task[j] /\ task[j].key # k
    BY <1>1, <1>2 DEF Holds, RegInv, OneHolder, RegTypeOK, Task
  <1>6. \A c \in Claimers : held[c] # k
    BY <1>2 DEF RegInv, OneHolder
  <1>7. OneHolder'
    <2>1. \A i, j \in Ids : Holds(i)' /\ Holds(j)' /\ task'[i].key = task'[j].key => i = j
      BY <1>1, <1>4, <1>5 DEF RegInv, OneHolder
    <2>2. \A c, d \in Claimers : held'[c] # NoKey /\ held'[c] = held'[d] => c = d
      BY <1>2 DEF RegInv, OneHolder
    <2>3. \A i \in Ids, c \in Claimers : Holds(i)' => held'[c] # task'[i].key
      BY <1>1, <1>2, <1>4, <1>5, <1>6 DEF RegInv, OneHolder
    <2>4. \A h \in TaskKeys :
            h \in claims' <=> \/ \E i \in Ids : Holds(i)' /\ task'[i].key = h
                              \/ \E c \in Claimers : held'[c] = h
      <3>1. \A h \in TaskKeys : (\E i \in Ids : Holds(i)' /\ task'[i].key = h)
                <=> h = k \/ \E i \in Ids : Holds(i) /\ task[i].key = h
        BY <1>1, <1>4, <1>5
      <3> QED
        BY <3>1, <1>2 DEF RegInv, OneHolder
    <2> QED
      BY <2>1, <2>2, <2>3, <2>4 DEF OneHolder
  <1>8. ActiveExact'
    <2>1. active \in [TaskKeys -> 0..MaxTasks] /\ \A j \in Ids : task[j].key \in TaskKeys
      BY DEF RegInv, RegTypeOK, Task
    <2>2. \A h \in TaskKeys : active'[h] = IF h = k THEN n ELSE active[h]
      BY <1>2, <2>1
    <2>3. \A i \in Ids : Holds(i)' => active'[task'[i].key] = i
      BY <1>1, <1>4, <1>5, <2>1, <2>2 DEF RegInv, ActiveExact
    <2>4. \A h \in TaskKeys : active'[h] # 0 =>
            \E j \in Ids : active'[h] = j /\ Holds(j)' /\ task'[j].key = h
      BY <1>1, <1>4, <1>5, <2>2 DEF RegInv, ActiveExact
    <2> QED
      BY <2>3, <2>4 DEF ActiveExact
  <1>9. Counted'
    <2>1. Slots' = Slots \cup {n} /\ n \notin Slots
      BY <1>1 DEF Slots
    <2>2. Launched' = Launched
      BY <1>1 DEF Launched
    <2>3. Cardinality(Slots') = Cardinality(Slots) + 1
      BY <2>1, CountedFinite, FS_AddElement
    <2> QED
      BY <1>2, <2>2, <2>3 DEF RegInv, Counted
  <1>10. Started'
    <2>1. \A i \in Ids : i > n => i > started /\ i # n
      BY <1>1 DEF n, Ids, RegInv, RegTypeOK
    <2>2. \A i \in Ids : i > started' => task'[i].pc = "none"
      BY <1>1, <1>2, <2>1 DEF RegInv, Started
    <2>3. \A i \in Ids : Running(i)' => i = n \/ (Running(i) /\ i \in tasks)
      BY <1>1 DEF Running, RegInv, Started
    <2>4. \A i \in Evicted(tasks \cup {n}) : ~Running(i) /\ i # n
      BY <1>1 DEF Evicted, Running
    <2> QED
      BY <1>2, <2>2, <2>3, <2>4 DEF Started
  <1>11. Quiet'
    BY <1>1, <1>2 DEF RegInv, Quiet, WaitAllComplete
  <1> QED
    BY <1>3, <1>7, <1>8, <1>9, <1>10, <1>11 DEF RegInv

\* A goroutine that goes on and keeps its key.
LEMMA TaskMoves ==
    ASSUME RegInv, NEW i \in Ids, Launch(i) \/ Finish(i) \/ FreeSlot(i)
    PROVE  RegInv'
  <1>1. PICK p \in {"running", "finished", "freed"} :
           /\ task' = [task EXCEPT ![i].pc = p]
           /\ p = "running" => task[i].pc = "registered"
    BY DEF Launch, Finish, FreeSlot
  <1>2. task \in [Ids -> Task]
    BY DEF RegInv, RegTypeOK
  <1>3. /\ \A j \in Ids : task'[j].key = task[j].key
        /\ \A j \in Ids : task'[j].pc = IF j = i THEN p ELSE task[j].pc
        /\ task' \in [Ids -> Task]
    BY <1>1, <1>2 DEF Task, Pcs
  <1>4. /\ started' = started /\ tasks' = tasks /\ active' = active
        /\ claims' = claims /\ held' = held /\ waiting' = waiting
    BY DEF Launch, Finish, FreeSlot
  <1>5. task[i].pc \in {"registered", "running", "finished"}
    BY DEF Launch, Finish, FreeSlot
  <1>6. \A j \in Ids : Holds(j)' <=> Holds(j)
    BY <1>3, <1>5 DEF Holds
  <1>7. Counted'
    <2>1. CASE Launch(i)
      <3>1. task[i].pc = "registered" /\ task'[i].pc = "running" /\ wg' = wg + 1 /\ sem' = sem
        BY <2>1, <1>2 DEF Launch, Task
      <3>2. Slots' = Slots /\ Launched' = Launched \cup {i} /\ i \notin Launched
        BY <1>3, <3>1 DEF Slots, Launched
      <3>3. Cardinality(Launched') = Cardinality(Launched) + 1
        BY <3>2, CountedFinite, FS_AddElement
      <3> QED
        BY <3>1, <3>2, <3>3 DEF RegInv, Counted
    <2>2. CASE Finish(i)
      <3>1. task[i].pc = "running" /\ task'[i].pc = "finished" /\ wg' = wg /\ sem' = sem
        BY <2>2, <1>2 DEF Finish, Task
      <3>2. Slots' = Slots /\ Launched' = Launched
        BY <1>3, <3>1 DEF Slots, Launched
      <3> QED
        BY <3>1, <3>2 DEF RegInv, Counted
    <2>3. CASE FreeSlot(i)
      <3>1. task[i].pc = "finished" /\ task'[i].pc = "freed" /\ wg' = wg /\ sem' = sem - 1
        BY <2>3, <1>2 DEF FreeSlot, Task
      <3>2. Slots' = Slots \ {i} /\ Launched' = Launched /\ i \in Slots
        BY <1>3, <3>1 DEF Slots, Launched
      <3>3. Cardinality(Slots') = Cardinality(Slots) - 1
        BY <3>2, CountedFinite, FS_RemoveElement
      <3> QED
        BY <3>1, <3>2, <3>3 DEF RegInv, Counted
    <2> QED
      BY <2>1, <2>2, <2>3
  <1>8. RegTypeOK'
    <2>1. Cardinality(Slots') \in Nat /\ Cardinality(Launched') \in Nat
      <3>1. IsFiniteSet(Ids)
        BY FS_Interval, RegistryAssumption DEF Ids
      <3>2. Slots' \in SUBSET Ids /\ Launched' \in SUBSET Ids
        BY DEF Slots, Launched
      <3>3. IsFiniteSet(Slots') /\ IsFiniteSet(Launched')
        BY <3>1, <3>2, FS_Subset
      <3> QED
        BY <3>3, FS_CardinalityType
    <2>2. sem' \in Nat /\ wg' \in Nat
      BY <1>7, <2>1 DEF Counted
    <2>3. sem' <= sem
      BY <2>2 DEF Launch, Finish, FreeSlot, RegInv, RegTypeOK
    <2>4. sem' \in 0..Workers
      BY <2>2, <2>3, RegistryAssumption DEF RegInv, RegTypeOK
    <2> QED
      BY <1>3, <1>4, <2>2, <2>4 DEF RegInv, RegTypeOK
  <1>9. OneHolder'
    BY <1>3, <1>4, <1>6 DEF RegInv, OneHolder
  <1>10. ActiveExact'
    BY <1>3, <1>4, <1>6 DEF RegInv, ActiveExact
  <1>11. Started'
    <2>1. \A j \in Ids : j > started => j # i
      BY <1>5 DEF RegInv, Started
    <2>2. \A j \in Ids : Running(j)' => Running(j)
      BY <1>1, <1>3 DEF Running
    <2> QED
      BY <1>3, <1>4, <2>1, <2>2 DEF RegInv, Started
  <1>12. Quiet'
    BY <1>3, <1>4, <1>6 DEF RegInv, Quiet, WaitAllComplete
  <1> QED
    BY <1>7, <1>8, <1>9, <1>10, <1>11, <1>12 DEF RegInv

\* A goroutine that ends gives its key back, and only its own.
LEMMA FreeKeyInv ==
    ASSUME RegInv, NEW i \in Ids, FreeKey(i)
    PROVE  RegInv'
  <1> DEFINE k == task[i].key
  <1>1. task \in [Ids -> Task] /\ k \in TaskKeys
    BY DEF RegInv, RegTypeOK, Task
  <1>2. /\ \A j \in Ids : task'[j].key = task[j].key
        /\ \A j \in Ids : task'[j].pc = IF j = i THEN "gone" ELSE task[j].pc
        /\ task' \in [Ids -> Task]
    BY <1>1 DEF FreeKey, Task, Pcs
  <1>3. /\ started' = started /\ tasks' = tasks /\ sem' = sem
        /\ held' = held /\ waiting' = waiting /\ wg' = wg - 1
        /\ active' = [active EXCEPT ![k] = 0] /\ claims' = claims \ {k}
        /\ task[i].pc = "freed"
    BY DEF FreeKey, DropKey
  <1>4. Holds(i) /\ \A j \in Ids : Holds(j)' <=> Holds(j) /\ j # i
    BY <1>2, <1>3 DEF Holds
  <1>5. \A j \in Ids : Holds(j) /\ j # i => task[j].key # k
    BY <1>4 DEF RegInv, OneHolder
  <1>6. \A c \in Claimers : held[c] # k
    BY <1>4 DEF RegInv, OneHolder
  <1> HIDE DEF k
  <1>7. Counted'
    <2>1. Slots' = Slots /\ Launched' = Launched \ {i} /\ i \in Launched
      BY <1>2, <1>3 DEF Slots, Launched
    <2>2. Cardinality(Launched') = Cardinality(Launched) - 1
      BY <2>1, CountedFinite, FS_RemoveElement
    <2> QED
      BY <1>3, <2>1, <2>2 DEF RegInv, Counted
  <1>8. RegTypeOK'
    <2>1. wg' \in Nat
      <3>1. IsFiniteSet(Ids)
        BY FS_Interval, RegistryAssumption DEF Ids
      <3>2. Launched' \in SUBSET Ids
        BY DEF Launched
      <3>3. Cardinality(Launched') \in Nat
        BY <3>1, <3>2, FS_Subset, FS_CardinalityType
      <3> QED
        BY <1>7, <3>3 DEF Counted
    <2>2. active' \in [TaskKeys -> 0..MaxTasks]
      <3>1. 0 \in 0..MaxTasks
        BY RegistryAssumption
      <3>2. active \in [TaskKeys -> 0..MaxTasks]
        BY DEF RegInv, RegTypeOK
      <3> QED
        BY <1>3, <3>1, <3>2
    <2> QED
      BY <1>2, <1>3, <2>1, <2>2 DEF RegInv, RegTypeOK
  <1>9. OneHolder'
    <2>1. \A j, m \in Ids : Holds(j)' /\ Holds(m)' /\ task'[j].key = task'[m].key => j = m
      BY <1>2, <1>4 DEF RegInv, OneHolder
    <2>2. \A c, d \in Claimers : held'[c] # NoKey /\ held'[c] = held'[d] => c = d
      BY <1>3 DEF RegInv, OneHolder
    <2>3. \A j \in Ids, c \in Claimers : Holds(j)' => held'[c] # task'[j].key
      BY <1>2, <1>3, <1>4 DEF RegInv, OneHolder
    <2>4. \A h \in TaskKeys :
            h \in claims' <=> \/ \E j \in Ids : Holds(j)' /\ task'[j].key = h
                              \/ \E c \in Claimers : held'[c] = h
      <3>1. \A h \in TaskKeys : (\E j \in Ids : Holds(j)' /\ task'[j].key = h)
                <=> h # k /\ \E j \in Ids : Holds(j) /\ task[j].key = h
        BY <1>2, <1>4, <1>5 DEF k
      <3> QED
        BY <3>1, <1>3, <1>6 DEF RegInv, OneHolder
    <2> QED
      BY <2>1, <2>2, <2>3, <2>4 DEF OneHolder
  <1>10. ActiveExact'
    <2>1. active \in [TaskKeys -> 0..MaxTasks] /\ \A j \in Ids : task[j].key \in TaskKeys
      BY DEF RegInv, RegTypeOK, Task
    <2>2. \A h \in TaskKeys : active'[h] = IF h = k THEN 0 ELSE active[h]
      BY <1>3, <2>1
    <2>3. \A j \in Ids : Holds(j)' => active'[task'[j].key] = j
      BY <1>2, <1>4, <1>5, <2>1, <2>2 DEF RegInv, ActiveExact
    <2>4. \A h \in TaskKeys : active'[h] # 0 =>
            \E j \in Ids : active'[h] = j /\ Holds(j)' /\ task'[j].key = h
      BY <1>2, <1>4, <2>2 DEF RegInv, ActiveExact, k
    <2> QED
      BY <2>3, <2>4 DEF ActiveExact
  <1>11. Started'
    <2>1. \A j \in Ids : j > started => j # i
      BY <1>3 DEF RegInv, Started
    <2> QED
      BY <1>2, <1>3, <2>1 DEF RegInv, Started, Running
  <1>12. Quiet'
    BY <1>2, <1>3, <1>4 DEF RegInv, Quiet, WaitAllComplete
  <1> QED
    BY <1>7, <1>8, <1>9, <1>10, <1>11, <1>12 DEF RegInv

\* Claim and Release change nothing but the claims.
LEMMA ClaimInv ==
    ASSUME RegInv, NEW c \in Claimers,
           Release(c) \/ \E k \in TaskKeys : Claim(c, k)
    PROVE  RegInv'
  <1>1. /\ task' = task /\ started' = started /\ tasks' = tasks /\ active' = active
        /\ sem' = sem /\ wg' = wg /\ waiting' = waiting
    BY DEF Release, Claim
  <1>2. \A j \in Ids : Holds(j)' <=> Holds(j)
    BY <1>1 DEF Holds
  <1>3. RegTypeOK' /\ OneHolder'
    <2>1. CASE Release(c)
      <3>1. claims' = claims \ {held[c]} /\ held' = [held EXCEPT ![c] = NoKey] /\ held[c] # NoKey
        BY <2>1 DEF Release
      <3>2. held \in [Claimers -> TaskKeys \cup {NoKey}]
        BY DEF RegInv, RegTypeOK
      <3>3. \A d \in Claimers : held'[d] = IF d = c THEN NoKey ELSE held[d]
        BY <3>1, <3>2
      <3>4. RegTypeOK'
        BY <1>1, <3>1 DEF RegInv, RegTypeOK
      <3>5. \A d \in Claimers : d # c => held[d] # held[c]
        BY <3>1 DEF RegInv, OneHolder
      <3>6. \A h \in TaskKeys : (\E d \in Claimers : held'[d] = h)
               <=> h # held[c] /\ \E d \in Claimers : held[d] = h
        BY <3>3, <3>5, RegistryAssumption
      <3>7. \A i \in Ids : Holds(i) => task[i].key # held[c]
        BY DEF RegInv, OneHolder
      <3>8. \A h \in TaskKeys :
              h \in claims' <=> \/ \E i \in Ids : Holds(i)' /\ task'[i].key = h
                                \/ \E d \in Claimers : held'[d] = h
        BY <1>1, <1>2, <3>1, <3>6, <3>7 DEF RegInv, OneHolder
      <3>9. \A i \in Ids : task[i].key \in TaskKeys
        BY DEF RegInv, RegTypeOK, Task
      <3>10. \A i \in Ids, d \in Claimers : Holds(i)' => held'[d] # task'[i].key
        BY <1>1, <1>2, <3>3, <3>9, RegistryAssumption DEF RegInv, OneHolder
      <3> QED
        BY <1>1, <1>2, <3>3, <3>4, <3>8, <3>10 DEF RegInv, OneHolder
    <2>2. ASSUME NEW k \in TaskKeys, Claim(c, k) PROVE RegTypeOK' /\ OneHolder'
      <3>1. claims' = claims \cup {k} /\ held' = [held EXCEPT ![c] = k] /\ held[c] = NoKey
            /\ k \notin claims
        BY <2>2 DEF Claim, KeyFree
      <3>2. held \in [Claimers -> TaskKeys \cup {NoKey}]
        BY DEF RegInv, RegTypeOK
      <3>3. \A d \in Claimers : held'[d] = IF d = c THEN k ELSE held[d]
        BY <3>1, <3>2
      <3>4. RegTypeOK'
        BY <1>1, <3>1 DEF RegInv, RegTypeOK
      <3>5. /\ \A d \in Claimers : held[d] # k
            /\ \A i \in Ids : Holds(i) => task[i].key # k
        BY <3>1 DEF RegInv, OneHolder
      <3>6. \A h \in TaskKeys : (\E d \in Claimers : held'[d] = h)
               <=> h = k \/ \E d \in Claimers : held[d] = h
        BY <3>1, <3>3, RegistryAssumption
      <3>7. \A h \in TaskKeys :
              h \in claims' <=> \/ \E i \in Ids : Holds(i)' /\ task'[i].key = h
                                \/ \E d \in Claimers : held'[d] = h
        BY <1>1, <1>2, <3>1, <3>6 DEF RegInv, OneHolder
      <3> QED
        BY <1>1, <1>2, <3>3, <3>4, <3>5, <3>7 DEF RegInv, OneHolder
    <2> QED
      BY <2>1, <2>2
  <1>4. ActiveExact' /\ Counted' /\ Started' /\ Quiet'
    BY <1>1, <1>2 DEF RegInv, ActiveExact, Counted, Slots, Launched, Started, Running,
                      Quiet, WaitAllComplete
  <1> QED
    BY <1>3, <1>4 DEF RegInv

\* WaitAll only looks, and what it sees at the end is that nobody is left.
LEMMA WaitInv ==
    ASSUME RegInv, WaitAll \/ WaitDone \/ WaitTimeout
    PROVE  RegInv'
  <1>1. /\ task' = task /\ started' = started /\ tasks' = tasks /\ active' = active
        /\ sem' = sem /\ wg' = wg /\ claims' = claims /\ held' = held
        /\ waiting' \in {"no", "waiting", "done", "timeout"}
    BY DEF WaitAll, WaitDone, WaitTimeout
  <1>2. \A j \in Ids : Holds(j)' <=> Holds(j)
    BY <1>1 DEF Holds
  <1>3. RegTypeOK'
    BY <1>1 DEF RegInv, RegTypeOK
  <1>4. OneHolder' /\ ActiveExact' /\ Counted' /\ Started'
    BY <1>1, <1>2 DEF RegInv, OneHolder, ActiveExact, Counted, Slots, Launched, Started, Running
  <1>5. Quiet'
    <2> SUFFICES ASSUME ~LateStarts
                 PROVE  /\ waiting' # "no" => \A i \in Ids : task'[i].pc # "registered"
                        /\ waiting' = "done" => \A i \in Ids : ~Holds(i)
      BY <1>2 DEF Quiet, WaitAllComplete
    <2>1. CASE WaitAll \/ WaitTimeout
      BY <2>1, <1>1 DEF WaitAll, WaitTimeout, RegInv, Quiet
    <2>2. CASE WaitDone
      <3>1. \A i \in Ids : task[i].pc # "registered"
        BY <2>2 DEF WaitDone, RegInv, Quiet
      <3>2. Launched = {}
        BY <2>2, CountedFinite, FS_EmptySet DEF WaitDone, Drained, RegInv, Counted
      <3>3. \A i \in Ids : task[i].pc \in Pcs
        BY DEF RegInv, RegTypeOK, Task
      <3> QED
        BY <1>1, <3>1, <3>2, <3>3 DEF Launched, Holds, Pcs
    <2> QED
      BY <2>1, <2>2
  <1> QED
    BY <1>3, <1>4, <1>5 DEF RegInv

\* Every step preserves the invariant.
LEMMA RegStepInv == RegInv /\ [RegNext]_regVars => RegInv'
  <1> SUFFICES ASSUME RegInv, [RegNext]_regVars PROVE RegInv'
    OBVIOUS
  <1>1. CASE UNCHANGED regVars
    <2>1. /\ task' = task /\ started' = started /\ tasks' = tasks /\ active' = active
          /\ sem' = sem /\ wg' = wg /\ claims' = claims /\ held' = held /\ waiting' = waiting
      BY <1>1 DEF regVars
    <2>2. \A j \in Ids : Holds(j)' <=> Holds(j)
      BY <2>1 DEF Holds
    <2>3. RegTypeOK' /\ OneHolder' /\ ActiveExact'
      BY <2>1, <2>2 DEF RegInv, RegTypeOK, OneHolder, ActiveExact
    <2>4. Counted' /\ Started' /\ Quiet'
      BY <2>1, <2>2 DEF RegInv, Counted, Slots, Launched, Started, Running, Quiet, WaitAllComplete
    <2> QED
      BY <2>3, <2>4 DEF RegInv
  <1>2. ASSUME NEW k \in TaskKeys, Start(k) PROVE RegInv'
    BY <1>2, StartInv
  <1>3. ASSUME NEW i \in Ids, TaskStep(i) PROVE RegInv'
    BY <1>3, TaskMoves, FreeKeyInv DEF TaskStep
  <1>4. ASSUME NEW c \in Claimers, Release(c) \/ \E k \in TaskKeys : Claim(c, k)
        PROVE RegInv'
    BY <1>4, ClaimInv
  <1>5. CASE WaitAll \/ WaitDone \/ WaitTimeout
    BY <1>5, WaitInv
  <1> QED
    BY <1>1, <1>2, <1>3, <1>4, <1>5 DEF RegNext

\* The inductive invariant holds in every state of the registry.
THEOREM RegInvariance == RegSpec => []RegInv
  <1> QED
    BY RegInitInv, RegStepInv, PTL DEF RegSpec

\* A key kind|label has one holder, and is taken exactly as long as it is held.
THEOREM KeysExclusive == RegSpec => []OneHolder
  <1>1. RegInv => OneHolder
    BY DEF RegInv
  <1> QED
    BY <1>1, RegInvariance, PTL

\* The semaphore bounds the task functions in progress.
THEOREM WorkersBounded == RegSpec => []ParallelismBounded
  <1>1. RegInv => ParallelismBounded
    BY RegistryAssumption DEF RegInv, RegTypeOK, Counted, Slots, ParallelismBounded
  <1> QED
    BY <1>1, RegInvariance, PTL

\* WaitAll waits for everybody, if no handler outlives the HTTP shutdown.
THEOREM WaitAllWaits ==
    ASSUME ~LateStarts
    PROVE  RegSpec => []WaitAllComplete
  <1>1. RegInv => WaitAllComplete
    BY DEF RegInv, Quiet
  <1> QED
    BY <1>1, RegInvariance, PTL
-----------------------------------------------------------------------------
(* The bounded history *)

\* Of a finite set of numbers exactly n have a rank of at most n: the rank is
\* an injection into 1..Cardinality(D), hence a bijection.
LEMMA LowestCounted ==
    ASSUME NEW D \in SUBSET Nat, IsFiniteSet(D), NEW n \in Nat, n <= Cardinality(D)
    PROVE  Cardinality({i \in D : Cardinality({j \in D : j <= i}) <= n}) = n
  <1> DEFINE Upto(i) == {j \in D : j <= i}
             rank == [i \in D |-> Cardinality(Upto(i))]
             Low == {i \in D : Cardinality(Upto(i)) <= n}
             low == [i \in Low |-> rank[i]]
  <1>1. Cardinality(D) \in Nat
    BY FS_CardinalityType
  <1>2. ASSUME NEW i \in D
        PROVE  IsFiniteSet(Upto(i)) /\ Cardinality(Upto(i)) \in 1..Cardinality(D)
    <2>1. Upto(i) \in SUBSET D /\ i \in Upto(i)
      OBVIOUS
    <2>2. IsFiniteSet(Upto(i)) /\ Cardinality(Upto(i)) <= Cardinality(D)
      BY <2>1, FS_Subset
    <2>3. Cardinality(Upto(i)) \in Nat /\ Cardinality(Upto(i)) # 0
      BY <2>1, <2>2, FS_CardinalityType, FS_EmptySet
    <2> QED
      BY <1>1, <2>2, <2>3
  <1>3. ASSUME NEW i \in D, NEW k \in D, i < k
        PROVE  Cardinality(Upto(i)) < Cardinality(Upto(k))
    <2>0. \A j \in D : j \in Nat
      OBVIOUS
    <2>1. Upto(i) \in SUBSET Upto(k) /\ k \in Upto(k) /\ k \notin Upto(i)
      <3>1. \A j \in D : j <= i => j <= k
        BY <1>3, <2>0
      <3>2. k <= k /\ ~(k <= i)
        BY <1>3, <2>0
      <3> QED
        BY <3>1, <3>2
    <2>2. /\ Cardinality(Upto(i)) <= Cardinality(Upto(k))
          /\ Cardinality(Upto(i)) # Cardinality(Upto(k))
      BY <1>2, <2>1, FS_Subset
    <2> QED
      BY <1>1, <1>2, <2>2
  <1>4. rank \in [D -> 1..Cardinality(D)]
    BY <1>2
  <1>5. \A i, k \in D : rank[i] = rank[k] => i = k
    <2> SUFFICES ASSUME NEW i \in D, NEW k \in D, i # k
                 PROVE  Cardinality(Upto(i)) # Cardinality(Upto(k))
      OBVIOUS
    <2>1. i < k \/ k < i
      OBVIOUS
    <2> HIDE DEF Upto
    <2> QED
      BY <1>1, <1>2, <1>3, <2>1
  <1>6. rank \in Injection(D, 1..Cardinality(D))
    BY <1>4, <1>5, Fun_IsInj
  <1>7. IsFiniteSet(1..Cardinality(D)) /\ Cardinality(1..Cardinality(D)) = Cardinality(D)
    BY <1>1, FS_Interval
  <1>8. rank \in Surjection(D, 1..Cardinality(D))
    BY <1>6, <1>7, FS_Injection
  <1>9. \A t \in 1..Cardinality(D) : \E i \in D : rank[i] = t
    BY <1>8 DEF Surjection
  <1> HIDE DEF rank
  <1>10. \A i \in D : rank[i] = Cardinality(Upto(i))
    BY DEF rank
  <1>11. Low = {i \in D : rank[i] <= n}
    BY <1>10
  <1> HIDE DEF Low, Upto
  <1>12. low \in [Low -> 1..n]
    <2>1. \A i \in Low : rank[i] \in 1..n
      BY <1>1, <1>4, <1>11
    <2> QED
      BY <2>1
  <1>13. low \in Injection(Low, 1..n)
    BY <1>5, <1>11, <1>12, Fun_IsInj
  <1>14. \A t \in 1..n : \E i \in Low : low[i] = t
    BY <1>1, <1>9, <1>11
  <1>15. low \in Surjection(Low, 1..n)
    BY <1>12, <1>14, Fun_IsSurj
  <1>16. IsFiniteSet(1..n) /\ Cardinality(1..n) = n
    BY FS_Interval
  <1>17. Cardinality(Low) = n
    BY <1>13, <1>15, <1>16, FS_Injection
  <1> QED
    BY <1>17 DEF Low, Upto

\* What Start leaves in the history: no more than the limit, or only tasks
\* that were running.
LEMMA StartKeepsHistory ==
    ASSUME RegInv, HistoryBounded, NEW k \in TaskKeys, Start(k)
    PROVE  HistoryBounded'
  <1> DEFINE n == started + 1
             all == tasks \cup {n}
             done == {i \in all : task[i].pc \in {"finished", "freed", "gone"}}
             over == Cardinality(all) - MaxHistory
  <1>1. /\ n \in Ids /\ task[n].pc = "none"
        /\ task'[n].pc = "registered"
        /\ \A j \in Ids \ {n} : task'[j] = task[j]
    BY NewTask
  <1>2. tasks' = all \ Evicted(all) /\ RegInv'
    BY StartInv DEF Start
  <1> HIDE DEF n
  <1>3. tasks \subseteq Ids /\ all \in SUBSET Ids /\ done \in SUBSET all
    BY <1>1 DEF RegInv, RegTypeOK
  <1>4. IsFiniteSet(Ids) /\ Ids \subseteq Nat
    BY FS_Interval, RegistryAssumption DEF Ids
  <1>5. IsFiniteSet(all) /\ IsFiniteSet(done)
    BY <1>3, <1>4, FS_Subset
  <1>6. Cardinality(all) \in Nat /\ Cardinality(done) \in Nat
    BY <1>5, FS_CardinalityType
  <1>7. Evicted(all) = {i \in done : Cardinality({j \in done : j <= i}) <= over}
    BY DEF Evicted
  <1>8. \A i \in tasks' : task'[i].pc # "none"
    BY <1>1, <1>2, <1>3 DEF HistoryBounded
  <1>9. tasks' \in SUBSET all /\ IsFiniteSet(tasks') /\ Cardinality(tasks') \in Nat
    BY <1>2, <1>5, FS_Subset, FS_CardinalityType
  <1>10. CASE over <= 0
    <2>1. Cardinality(all) <= MaxHistory
      BY <1>6, <1>10, RegistryAssumption
    <2>2. Cardinality(tasks') <= Cardinality(all)
      BY <1>5, <1>9, FS_Subset
    <2> QED
      BY <1>6, <1>8, <1>9, <2>1, <2>2, RegistryAssumption DEF HistoryBounded
  <1>11. CASE over > 0 /\ over <= Cardinality(done)
    <2>1. over \in Nat
      BY <1>6, <1>11, RegistryAssumption
    <2>2. done \in SUBSET Nat
      BY <1>3, <1>4
    <2> HIDE DEF all, done, over
    <2>3. Cardinality(Evicted(all)) = over
      BY <1>5, <1>7, <1>11, <2>1, <2>2, LowestCounted
    <2>4. Evicted(all) \in SUBSET all
      BY <1>3, <1>7
    <2>5. IsFiniteSet(Evicted(all)) /\ tasks' \cup Evicted(all) = all /\ tasks' \cap Evicted(all) = {}
      BY <1>2, <1>5, <2>4, FS_Subset
    <2>6. Cardinality(all) = Cardinality(tasks') + over - 0
      BY <1>9, <2>3, <2>5, FS_Union, FS_EmptySet
    <2>7. Cardinality(tasks') = MaxHistory
      BY <1>6, <1>9, <2>6, RegistryAssumption DEF over
    <2> QED
      BY <1>8, <2>7, RegistryAssumption DEF HistoryBounded
  <1>12. CASE over > Cardinality(done)
    <2>1. \A i \in done : Cardinality({j \in done : j <= i}) <= over
      <3> SUFFICES ASSUME NEW i \in done
                   PROVE  Cardinality({j \in done : j <= i}) <= over
        OBVIOUS
      <3> DEFINE low == {j \in done : j <= i}
      <3>1. low \in SUBSET done
        OBVIOUS
      <3>2. Cardinality(low) <= Cardinality(done) /\ Cardinality(low) \in Nat
        BY <1>5, <3>1, FS_Subset, FS_CardinalityType
      <3> QED
        BY <1>6, <1>12, <3>2, RegistryAssumption
    <2>2. tasks' = all \ done
      BY <1>2, <1>7, <2>1
    <2>3. \A i \in Ids : task[i].pc \in Pcs
      BY DEF RegInv, RegTypeOK, Task
    <2>4. tasks' \in SUBSET Slots'
      BY <1>1, <1>3, <2>2, <2>3 DEF Slots, Pcs, HistoryBounded
    <2>5. IsFiniteSet(Slots')
      <3>1. Slots' \in SUBSET Ids
        BY DEF Slots
      <3> QED
        BY <1>4, <3>1, FS_Subset
    <2>6. Cardinality(tasks') <= Cardinality(Slots')
      BY <2>4, <2>5, FS_Subset
    <2>7. Cardinality(Slots') \in 0..Workers
      BY <1>2 DEF RegInv, RegTypeOK, Counted
    <2> QED
      BY <1>8, <1>9, <2>6, <2>7, RegistryAssumption DEF HistoryBounded
  <1> QED
    BY <1>6, <1>10, <1>11, <1>12, RegistryAssumption

\* Nothing else changes the history, and no task becomes unknown.
LEMMA HistoryStep == RegInv /\ HistoryBounded /\ [RegNext]_regVars => HistoryBounded'
  <1> SUFFICES ASSUME RegInv, HistoryBounded, [RegNext]_regVars PROVE HistoryBounded'
    OBVIOUS
  <1>1. ASSUME NEW k \in TaskKeys, Start(k) PROVE HistoryBounded'
    BY <1>1, StartKeepsHistory
  <1>2. ASSUME NEW i \in Ids, TaskStep(i) PROVE HistoryBounded'
    <2>1. task \in [Ids -> Task] /\ tasks \subseteq Ids
      BY DEF RegInv, RegTypeOK
    <2>2. PICK p \in Pcs \ {"none"} : task' = [task EXCEPT ![i].pc = p] /\ tasks' = tasks
      BY <1>2 DEF TaskStep, Launch, Finish, FreeSlot, FreeKey, Pcs
    <2>3. \A j \in Ids : task[j].pc # "none" => task'[j].pc # "none"
      BY <2>1, <2>2 DEF Task
    <2> QED
      BY <2>1, <2>2, <2>3 DEF HistoryBounded
  <1>3. CASE task' = task /\ tasks' = tasks
    BY <1>3 DEF HistoryBounded
  <1> QED
    BY <1>1, <1>2, <1>3
    DEF RegNext, regVars, Release, Claim, WaitAll, WaitDone, WaitTimeout

\* A running task is visible to its pollers, and the history stays bounded.
THEOREM HistoryVisible == RegSpec => []RunningVisible
  <1>1. RegInit => HistoryBounded
    BY RegistryAssumption, FS_EmptySet DEF RegInit, HistoryBounded
  <1>2. RegInv /\ HistoryBounded => RunningVisible
    BY DEF RegInv, Started, HistoryBounded, RunningVisible
  <1> QED
    BY <1>1, <1>2, RegInvariance, HistoryStep, PTL DEF RegSpec

-----------------------------------------------------------------------------
(* The scheduler                                                           *)

\* Every step of the scheduler is one of the registry or leaves it alone.
LEMMA SchedRegStep ==
    ASSUME SchedInv, [SchedNext]_allVars
    PROVE  [RegNext]_regVars
  <1>1. CASE LoopStep \/ Forgetting \/ PeriodPasses \/ StopScheduler \/ UNCHANGED allVars
    BY <1>1 DEF LoopStep, ReconcileRead, ReconcileDecide, ReconcileEnd, LoopEnds, ReconcileStop,
                ReconcileStopped, ReconcileStart, Forgetting, ForgetRunner, PeriodPasses,
                StopScheduler, allVars
  <1>2. ASSUME NEW r \in Remotes,
               \/ RunnerStops(r) \/ RunnerReads(r) \/ RunnerDies(r)
               \/ \E st \in {"on", "off", "deleted"} : SetRow(r, st)
               \/ \E n \in TaskKeys : Rename(r, n)
        PROVE  [RegNext]_regVars
    BY <1>2 DEF RunnerStops, RunnerReads, RunnerDies, SetRow, Rename
  <1>3. ASSUME NEW r \in Remotes, RunnerClaims(r) PROVE [RegNext]_regVars
    <2>1. runner[r].name \in TaskKeys /\ r \in Claimers
      BY <1>3 DEF SchedInv, SyncsHold, RunnerClaims, Remotes
    <2> QED
      BY <1>3, <2>1 DEF RunnerClaims, RegNext
  <1>4. ASSUME NEW r \in Remotes, RunnerSynced(r) PROVE [RegNext]_regVars
    BY <1>4 DEF RunnerSynced, RegNext, Remotes
  <1>5. ASSUME NEW r \in Remotes, ManualSync(r) PROVE [RegNext]_regVars
    <2>1. row[r].name \in TaskKeys
      BY DEF SchedInv, SchedShape
    <2> QED
      BY <1>5, <2>1 DEF ManualSync, RegNext
  <1>6. ASSUME NEW i \in Ids, TaskRuns(i) PROVE [RegNext]_regVars
    BY <1>6 DEF TaskRuns, RegNext
  <1> QED
    BY <1>1, <1>2, <1>3, <1>4, <1>5, <1>6 DEF SchedNext, RunnerStep

\* The part of the invariant that is the scheduler's own.
OwnInv == SchedShape /\ RunnersKnown /\ SyncsHold /\ NamesKept

\* The reconcile loop: what it takes out of the map it waits for, and it starts
\* only what the map does not name.
LEMMA LoopInv == ASSUME SchedInv, LoopStep PROVE OwnInv'
  <1>1. /\ SchedShape /\ RunnersKnown /\ SyncsHold /\ NamesKept
        /\ runner \in [Remotes -> RunnerState]
        /\ inMap \in [Remotes -> Nat]
    BY DEF SchedInv, SchedShape
  <1>2. /\ row' = row /\ syncOf' = syncOf /\ renames' = renames /\ forgets' = forgets
        /\ task' = task /\ held' = held
    BY DEF LoopStep, ReconcileRead, ReconcileDecide, ReconcileEnd, LoopEnds, ReconcileStop,
           ReconcileStopped, ReconcileStart, regVars
  <1>3. CASE ReconcileRead \/ ReconcileEnd \/ LoopEnds
    <2>1. /\ runner' = runner /\ inMap' = inMap
          /\ loop.pc = "act" => loop.stops = {}
      BY <1>3 DEF ReconcileRead, ReconcileEnd, LoopEnds
    <2>2. loop' \in LoopState
      <3>1. IdleLoop \in LoopState
        BY DEF IdleLoop, LoopState, LoopPcs
      <3>2. CASE ReconcileRead
        <4>1. {r \in Remotes : Wanted(r)} \in SUBSET Remotes
          OBVIOUS
        <4> QED
          BY <3>1, <3>2, <4>1 DEF ReconcileRead, LoopState, LoopPcs
      <3>3. CASE ReconcileEnd
        BY <3>1, <3>3 DEF ReconcileEnd
      <3>4. CASE LoopEnds
        BY <1>1, <3>4 DEF LoopEnds, SchedShape, LoopState, LoopPcs
      <3> QED
        BY <1>3, <3>2, <3>3, <3>4
    <2> QED
      BY <1>1, <1>2, <2>1, <2>2 DEF OwnInv, SchedShape, RunnersKnown, SyncsHold, NamesKept, Holds
  <1>4. CASE ReconcileDecide
    <2>1. /\ runner' = runner /\ loop.pc = "decide" /\ loop'.pc = "act"
          /\ inMap' = [r \in Remotes |-> IF r \in loop.wanted THEN inMap[r] ELSE 0]
          /\ loop'.stops = {r \in Remotes \ loop.wanted : inMap[r] # 0}
      BY <1>1, <1>4 DEF ReconcileDecide, SchedShape, LoopState
    <2>2. loop' \in LoopState
      BY <1>1, <1>4 DEF ReconcileDecide, SchedShape, LoopState, LoopPcs
    <2>3. \A r \in Remotes : inMap'[r] \in Nat
      BY <1>1, <2>1
    <2>4. inMap' \in [Remotes -> Nat]
      BY <2>1, <2>3
    <2>5. SchedShape'
      BY <1>1, <1>2, <2>1, <2>2, <2>4 DEF SchedShape
    <2>6. ASSUME NEW r \in Remotes, runner[r].pc # "none"
          PROVE  inMap'[r] = runner[r].inst \/ r \in loop'.stops
      BY <1>1, <2>1, <2>6 DEF RunnersKnown
    <2>7. RunnersKnown'
      BY <1>1, <1>2, <2>1, <2>6 DEF RunnersKnown
    <2> QED
      BY <1>1, <1>2, <2>1, <2>5, <2>7 DEF OwnInv, SyncsHold, NamesKept, Holds
  <1>5. ASSUME NEW r \in Remotes, ReconcileStop(r) PROVE OwnInv'
    <2>1. /\ runner' = [runner EXCEPT ![r].stop = TRUE] /\ inMap' = inMap
          /\ loop' = [loop EXCEPT !.stopping = {r}]
      BY <1>5 DEF ReconcileStop
    <2>2. \A s \in Remotes : /\ runner'[s].pc = runner[s].pc /\ runner'[s].inst = runner[s].inst
                             /\ runner'[s].name = runner[s].name
      BY <1>1, <2>1 DEF RunnerState
    <2>3. /\ loop' \in LoopState
          /\ loop'.pc = loop.pc /\ loop'.stops = loop.stops
      BY <1>1, <2>1 DEF SchedShape, LoopState
    <2>4. SchedShape'
      <3>1. runner' \in [Remotes -> RunnerState]
        BY <1>1, <2>1 DEF RunnerState
      <3> QED
        BY <1>1, <1>2, <2>1, <2>3, <3>1 DEF SchedShape
    <2>5. RunnersKnown'
      BY <1>1, <1>2, <2>1, <2>2, <2>3 DEF RunnersKnown, SchedShape
    <2> QED
      BY <1>1, <1>2, <2>2, <2>4, <2>5 DEF OwnInv, SyncsHold, NamesKept, Holds
  <1>6. ASSUME NEW r \in Remotes, ReconcileStopped(r) PROVE OwnInv'
    <2>1. /\ runner' = runner /\ inMap' = inMap /\ runner[r].pc = "none"
          /\ loop' = [loop EXCEPT !.stopping = {}, !.stops = loop.stops \ {r}]
      BY <1>6 DEF ReconcileStopped, Exited
    <2>2. /\ loop' \in LoopState
          /\ loop'.pc = loop.pc /\ loop'.stops = loop.stops \ {r}
      BY <1>1, <2>1 DEF SchedShape, LoopState
    <2> QED
      BY <1>1, <1>2, <2>1, <2>2 DEF OwnInv, SchedShape, RunnersKnown, SyncsHold, NamesKept, Holds
  <1>7. ASSUME NEW r \in Remotes, ReconcileStart(r) PROVE OwnInv'
    <2>1. /\ loop' = [loop EXCEPT !.starts = loop.starts \ {r}] /\ loop.stops = {}
      BY <1>7 DEF ReconcileStart
    <2>2. /\ loop' \in LoopState
          /\ loop'.pc = loop.pc /\ loop'.stops = loop.stops
      BY <1>1, <2>1 DEF SchedShape, LoopState
    <2>3. CASE inMap[r] = 0
      <3>1. /\ runner' = [runner EXCEPT ![r] = [pc |-> "timer", inst |-> runner[r].inst + 1,
                                               stop |-> FALSE, name |-> NoKey]]
            /\ inMap' = [inMap EXCEPT ![r] = runner[r].inst + 1]
        BY <1>7, <2>3 DEF ReconcileStart
      <3>2. runner[r].inst \in Nat
        BY <1>1 DEF RunnerState
      <3>3. runner[r].pc = "none"
        BY <1>1, <2>1, <2>3, <3>2 DEF RunnersKnown
      <3>4. SchedShape'
        BY <1>1, <1>2, <2>2, <3>1, <3>2 DEF SchedShape, RunnerState, RunnerPcs
      <3>5. RunnersKnown'
        <4>1. \A e \in forgets : e[1] \in Remotes /\ e[2] \in Nat
          BY <1>1 DEF SchedShape
        <4>2. \A s \in Remotes : runner[s].inst \in Nat
          BY <1>1 DEF RunnerState
        <4> QED
          BY <1>1, <1>2, <2>2, <3>1, <3>2, <3>3, <4>1, <4>2 DEF RunnersKnown
      <3>6. SyncsHold' /\ NamesKept'
        BY <1>1, <1>2, <3>1 DEF SyncsHold, NamesKept, Holds
      <3> QED
        BY <3>4, <3>5, <3>6 DEF OwnInv
    <2>4. CASE inMap[r] # 0
      <3>1. runner' = runner /\ inMap' = inMap
        BY <1>7, <2>4 DEF ReconcileStart
      <3> QED
        BY <1>1, <1>2, <2>2, <3>1 DEF OwnInv, SchedShape, RunnersKnown, SyncsHold, NamesKept, Holds
    <2> QED
      BY <2>3, <2>4
  <1> QED
    BY <1>3, <1>4, <1>5, <1>6, <1>7 DEF LoopStep

\* A runner leaves, dead or told to, and remains to be forgotten.
LEMMA ExitInv ==
    ASSUME SchedInv, NEW r \in Remotes, runner[r].pc # "none", Exit(r),
           row' = row, inMap' = inMap, loop' = loop, syncOf' = syncOf, renames' = renames,
           task' = task, held' = held
    PROVE  OwnInv'
  <1>1. /\ SchedShape /\ RunnersKnown /\ SyncsHold /\ NamesKept
        /\ runner \in [Remotes -> RunnerState]
    BY DEF SchedInv, SchedShape
  <1>2. /\ runner' = [runner EXCEPT ![r].pc = "none"]
        /\ forgets' = forgets \cup {<<r, runner[r].inst>>}
    BY DEF Exit
  <1>3. runner[r].inst \in Nat
    BY <1>1 DEF RunnerState
  <1>4. SchedShape'
    <2>1. runner' \in [Remotes -> RunnerState]
      BY <1>1, <1>2 DEF RunnerState, RunnerPcs
    <2>2. forgets' \subseteq Remotes \X Nat
      BY <1>1, <1>2, <1>3 DEF SchedShape
    <2> QED
      BY <1>1, <2>1, <2>2 DEF SchedShape
  <1>5. \A s \in Remotes : /\ runner'[s].inst = runner[s].inst
                           /\ runner'[s].pc # "none" => runner'[s] = runner[s]
    BY <1>1, <1>2
  <1>6. RunnersKnown'
    <2>1. \A e \in forgets : e[1] \in Remotes
      BY <1>1 DEF SchedShape
    <2>2. runner'[r].pc = "none"
      BY <1>1, <1>2
    <2>3. \A e \in forgets' : /\ e[1] \in Remotes /\ e[2] <= runner'[e[1]].inst
                              /\ runner'[e[1]].pc # "none" => e[2] < runner'[e[1]].inst
      BY <1>1, <1>2, <1>3, <1>5, <2>1, <2>2 DEF RunnersKnown
    <2> QED
      BY <1>1, <1>5, <2>3 DEF RunnersKnown
  <1>7. SyncsHold' /\ NamesKept'
    BY <1>1, <1>5 DEF SyncsHold, NamesKept, Holds
  <1> QED
    BY <1>4, <1>6, <1>7 DEF OwnInv

\* A live runner moves on within its instance.
LEMMA RunnerGoes ==
    ASSUME SchedInv, NEW r \in Remotes, runner[r].pc # "none",
           NEW pc \in {"timer", "row", "sync"}, NEW name \in TaskKeys \cup {NoKey},
           runner' \in [Remotes -> RunnerState],
           \A s \in Remotes : s # r => runner'[s] = runner[s],
           runner'[r].pc = pc, runner'[r].inst = runner[r].inst, runner'[r].name = name,
           row' = row, inMap' = inMap, loop' = loop, syncOf' = syncOf, renames' = renames,
           forgets' = forgets, task' = task,
           \A s \in Remotes : s # r => held'[s] = held[s],
           pc \in {"row", "sync"} => name \in TaskKeys /\ (renames = 0 => name = FirstName[r]),
           pc = "sync" => held'[r] = name
    PROVE  OwnInv'
  <1>1. /\ SchedShape /\ RunnersKnown /\ SyncsHold /\ NamesKept
        /\ runner \in [Remotes -> RunnerState]
    BY DEF SchedInv, SchedShape
  <1>3. SchedShape'
    BY <1>1 DEF SchedShape
  <1>4. \A s \in Remotes : /\ runner'[s].inst = runner[s].inst
                           /\ runner'[s].pc # "none" => runner[s].pc # "none"
    OBVIOUS
  <1>5. RunnersKnown'
    <2>1. \A e \in forgets : e[1] \in Remotes
      BY <1>1 DEF SchedShape
    <2> QED
      BY <1>1, <1>4, <2>1 DEF RunnersKnown
  <1>6. SyncsHold'
    BY <1>1 DEF SyncsHold
  <1>7. NamesKept'
    BY <1>1 DEF NamesKept, Holds
  <1> QED
    BY <1>3, <1>5, <1>6, <1>7 DEF OwnInv

\* The steps of a runner.
LEMMA RunnerInv ==
    ASSUME SchedInv, NEW r \in Remotes, RunnerStep(r) \/ RunnerSynced(r)
    PROVE  OwnInv'
  <1>1. /\ SchedShape /\ RunnersKnown /\ SyncsHold /\ NamesKept
        /\ runner \in [Remotes -> RunnerState]
        /\ held \in [Claimers -> TaskKeys \cup {NoKey}] /\ Remotes = Claimers
    BY DEF SchedInv, SchedShape, RegInv, RegTypeOK, Remotes
  <1>2. /\ row' = row /\ inMap' = inMap /\ loop' = loop /\ syncOf' = syncOf
        /\ renames' = renames /\ task' = task
    BY DEF RunnerStep, RunnerStops, RunnerReads, RunnerClaims, RunnerDies, RunnerSynced,
           Claim, Release, regVars
  <1>3. CASE RunnerStops(r) \/ RunnerDies(r)
    <2>1. runner[r].pc # "none" /\ Exit(r) /\ held' = held
      BY <1>3 DEF RunnerStops, RunnerDies, regVars
    <2> QED
      BY <1>2, <2>1, ExitInv
  <1>4. CASE RunnerReads(r)
    <2>1. runner[r].pc # "none" /\ held' = held
      BY <1>4 DEF RunnerReads, regVars
    <2>2. CASE Exit(r)
      BY <1>2, <2>1, <2>2, ExitInv
    <2>3. CASE /\ runner' = [runner EXCEPT ![r].pc = "row", ![r].name = row[r].name]
               /\ forgets' = forgets
      <3>1. /\ runner' \in [Remotes -> RunnerState]
            /\ \A s \in Remotes : s # r => runner'[s] = runner[s]
            /\ runner'[r].pc = "row" /\ runner'[r].inst = runner[r].inst
            /\ runner'[r].name = row[r].name
        <4>1. runner[r] \in RunnerState /\ row[r].name \in TaskKeys
          BY <1>1 DEF SchedShape
        <4>2. PICK q : q = [runner[r] EXCEPT !.pc = "row", !.name = row[r].name]
          OBVIOUS
        <4>3. q \in RunnerState /\ q.pc = "row" /\ q.inst = runner[r].inst /\ q.name = row[r].name
          BY ONLY <4>1, <4>2 DEF RunnerState, RunnerPcs
        <4>4. runner' = [runner EXCEPT ![r] = q]
          BY ONLY <2>3, <4>2
        <4> QED BY <1>1, <4>3, <4>4
      <3>2. row[r].name \in TaskKeys /\ (renames = 0 => row[r].name = FirstName[r])
        BY <1>1 DEF SchedShape, NamesKept
      <3> QED
        BY <1>2, <2>1, <2>3, <3>1, <3>2, RunnerGoes
    <2> QED
      BY <1>4, <2>2, <2>3 DEF RunnerReads
  <1>5. CASE RunnerClaims(r)
    <2>1. /\ runner[r].pc = "row" /\ forgets' = forgets
          /\ runner[r].name \in TaskKeys /\ (renames = 0 => runner[r].name = FirstName[r])
      BY <1>1, <1>5 DEF RunnerClaims, SyncsHold, NamesKept
    <2>2. CASE Claim(r, runner[r].name) /\ runner' = [runner EXCEPT ![r].pc = "sync"]
      <3>1. held' = [held EXCEPT ![r] = runner[r].name]
        BY <2>2 DEF Claim
      <3>2. /\ runner' \in [Remotes -> RunnerState]
            /\ \A s \in Remotes : s # r => runner'[s] = runner[s]
            /\ runner'[r].pc = "sync" /\ runner'[r].inst = runner[r].inst
            /\ runner'[r].name = runner[r].name
        BY <1>1, <2>2 DEF RunnerState, RunnerPcs, SchedShape
      <3>3. held'[r] = runner[r].name /\ \A s \in Remotes : s # r => held'[s] = held[s]
        BY <1>1, <3>1
      <3> QED
        BY <1>2, <2>1, <3>2, <3>3, RunnerGoes
    <2>3. CASE runner' = [runner EXCEPT ![r].pc = "timer"] /\ UNCHANGED regVars
      <3>1. held' = held
        BY <2>3 DEF regVars
      <3>2. /\ runner' \in [Remotes -> RunnerState]
            /\ \A s \in Remotes : s # r => runner'[s] = runner[s]
            /\ runner'[r].pc = "timer" /\ runner'[r].inst = runner[r].inst
            /\ runner'[r].name = runner[r].name
        BY <1>1, <2>3 DEF RunnerState, RunnerPcs, SchedShape
      <3> QED
        BY <1>2, <2>1, <3>1, <3>2, RunnerGoes
    <2> QED
      BY <1>5, <2>2, <2>3 DEF RunnerClaims
  <1>6. CASE RunnerSynced(r)
    <2>1. /\ runner[r].pc = "sync" /\ forgets' = forgets
          /\ held' = [held EXCEPT ![r] = NoKey]
          /\ runner' = [runner EXCEPT ![r].pc = "timer"]
      BY <1>6 DEF RunnerSynced, Release
    <2>2. /\ runner' \in [Remotes -> RunnerState]
          /\ \A s \in Remotes : s # r => runner'[s] = runner[s]
          /\ runner'[r].pc = "timer" /\ runner'[r].inst = runner[r].inst
          /\ runner'[r].name = runner[r].name
      BY <1>1, <2>1 DEF RunnerState, RunnerPcs
    <2>3. \A s \in Remotes : s # r => held'[s] = held[s]
      BY <1>1, <2>1
    <2>4. runner[r].name \in TaskKeys \cup {NoKey}
      BY <1>1 DEF RunnerState
    <2> QED
      BY <1>2, <2>1, <2>2, <2>3, <2>4, RunnerGoes
  <1> QED
    BY <1>3, <1>4, <1>5, <1>6 DEF RunnerStep

\* forgetRunner of a dead instance, the operator, the tasks, time and shutdown.
LEMMA OutsideInv ==
    ASSUME SchedInv,
           \/ Forgetting \/ PeriodPasses \/ StopScheduler \/ UNCHANGED allVars
           \/ \E r \in Remotes : \/ ManualSync(r)
                                 \/ \E st \in {"on", "off", "deleted"} : SetRow(r, st)
                                 \/ \E n \in TaskKeys : Rename(r, n)
           \/ \E i \in Ids : TaskRuns(i)
    PROVE  OwnInv'
  <1>1. /\ SchedShape /\ RunnersKnown /\ SyncsHold /\ NamesKept
        /\ row \in [Remotes -> [st : {"on", "off", "deleted"}, name : TaskKeys]]
        /\ inMap \in [Remotes -> Nat] /\ syncOf \in [Ids -> Remotes \cup {NoKey}]
        /\ task \in [Ids -> Task]
    BY DEF SchedInv, SchedShape, RegInv, RegTypeOK
  <1>2. CASE Forgetting
    <2>1. PICK e \in forgets : ForgetRunner(e[1], e[2])
      BY <1>2 DEF Forgetting
    <2>2. e = <<e[1], e[2]>> /\ e[1] \in Remotes /\ e[2] \in Nat
      BY <1>1 DEF SchedShape
    <2>3. /\ forgets' = forgets \ {<<e[1], e[2]>>}
          /\ inMap' = [inMap EXCEPT ![e[1]] = IF inMap[e[1]] = e[2] THEN 0 ELSE inMap[e[1]]]
          /\ row' = row /\ runner' = runner /\ loop' = loop /\ syncOf' = syncOf
          /\ renames' = renames /\ task' = task /\ held' = held
      BY <2>1 DEF ForgetRunner, regVars
    <2>4. SchedShape'
      BY <1>1, <2>2, <2>3 DEF SchedShape
    <2>5. RunnersKnown'
      <3>1. \A r \in Remotes : runner[r].inst \in Nat
        BY <1>1 DEF SchedShape, RunnerState
      <3>2. ASSUME NEW r \in Remotes, runner[r].pc # "none"
            PROVE  inMap'[r] = runner[r].inst \/ (loop.pc = "act" /\ r \in loop.stops)
        BY <1>1, <2>2, <2>3, <3>1, <3>2 DEF RunnersKnown
      <3> QED
        BY <1>1, <2>3, <3>2 DEF RunnersKnown
    <2> QED
      BY <1>1, <2>3, <2>4, <2>5 DEF OwnInv, SyncsHold, NamesKept, Holds
  <1>3. CASE PeriodPasses \/ StopScheduler \/ UNCHANGED allVars
    <2>1. /\ row' = row /\ runner' = runner /\ loop' = loop /\ syncOf' = syncOf
          /\ renames' = renames /\ task' = task /\ held' = held /\ inMap' = inMap
          /\ forgets' = forgets
      BY <1>3 DEF PeriodPasses, StopScheduler, allVars, schedVars, regVars
    <2> QED
      BY <1>1, <2>1 DEF OwnInv, SchedShape, RunnersKnown, SyncsHold, NamesKept, Holds
  <1>4. ASSUME NEW r \in Remotes, ManualSync(r) PROVE OwnInv'
    <2>1. /\ row' = row /\ runner' = runner /\ loop' = loop /\ renames' = renames
          /\ held' = held /\ inMap' = inMap /\ forgets' = forgets
          /\ Start(row[r].name)
          /\ syncOf' = [syncOf EXCEPT ![started + 1] = r]
          /\ task' = [task EXCEPT ![started + 1] = [pc |-> "registered", key |-> row[r].name]]
      BY <1>4 DEF ManualSync, Start
    <2>2. started + 1 \in Ids
      BY <2>1, RegistryAssumption DEF SchedInv, RegInv, RegTypeOK, Start, Ids
    <2>3. SchedShape'
      BY <1>1, <2>1, <2>2 DEF SchedShape
    <2>4. RunnersKnown' /\ SyncsHold'
      BY <1>1, <2>1 DEF RunnersKnown, SyncsHold
    <2>5. NamesKept'
      <3> SUFFICES ASSUME renames = 0, NEW s \in Remotes, NEW i \in Ids, syncOf'[i] = s,
                          task'[i].pc \notin {"none", "gone"}
                   PROVE  task'[i].key = FirstName[s]
        BY <1>1, <2>1 DEF NamesKept, Holds
      <3>1. CASE i = started + 1
        BY <1>1, <2>1, <2>2, <3>1 DEF NamesKept
      <3>2. CASE i # started + 1
        BY <1>1, <2>1, <2>2, <3>2 DEF NamesKept, Holds
      <3> QED
        BY <3>1, <3>2
    <2> QED
      BY <2>3, <2>4, <2>5 DEF OwnInv
  <1>5. ASSUME NEW r \in Remotes,
               \/ \E st \in {"on", "off", "deleted"} : SetRow(r, st)
               \/ \E n \in TaskKeys : Rename(r, n)
        PROVE  OwnInv'
    <2>1. /\ runner' = runner /\ loop' = loop /\ syncOf' = syncOf
          /\ task' = task /\ held' = held /\ inMap' = inMap /\ forgets' = forgets
      BY <1>5 DEF SetRow, Rename, regVars
    <2>2. RunnersKnown' /\ SyncsHold'
      BY <1>1, <2>1 DEF RunnersKnown, SyncsHold
    <2>3. CASE \E st \in {"on", "off", "deleted"} : SetRow(r, st)
      <3>1. PICK st \in {"on", "off", "deleted"} : row' = [row EXCEPT ![r].st = st]
        BY <2>3 DEF SetRow
      <3>2. renames' = renames
        BY <2>3 DEF SetRow
      <3>3. SchedShape'
        BY <1>1, <2>1, <3>1, <3>2 DEF SchedShape
      <3>4. \A s \in Remotes : row'[s].name = row[s].name
        BY <1>1, <3>1
      <3> QED
        BY <1>1, <2>1, <2>2, <3>2, <3>3, <3>4 DEF OwnInv, NamesKept, Holds
    <2>4. CASE \E n \in TaskKeys : Rename(r, n)
      <3>1. PICK n \in TaskKeys : row' = [row EXCEPT ![r].name = n]
        BY <2>4 DEF Rename
      <3>2. renames' \in Nat /\ renames' # 0
        BY <1>1, <2>4 DEF Rename, SchedShape
      <3>3. SchedShape'
        BY <1>1, <2>1, <3>1, <3>2 DEF SchedShape
      <3> QED
        BY <2>2, <3>2, <3>3 DEF OwnInv, NamesKept
    <2> QED
      BY <1>5, <2>3, <2>4
  <1>6. ASSUME NEW i \in Ids, TaskRuns(i) PROVE OwnInv'
    <2>1. /\ row' = row /\ runner' = runner /\ loop' = loop /\ syncOf' = syncOf
          /\ renames' = renames /\ inMap' = inMap /\ forgets' = forgets
      BY <1>6 DEF TaskRuns, schedVars
    <2>2. /\ held' = held /\ task[i].pc \notin {"none", "gone"}
          /\ \E p \in Pcs : task' = [task EXCEPT ![i].pc = p]
      BY <1>6 DEF TaskRuns, TaskStep, Launch, Finish, FreeSlot, FreeKey, Pcs
    <2>3. \A j \in Ids : task'[j].key = task[j].key
      BY <1>1, <2>2 DEF Task
    <2>4. \A j \in Ids : task'[j].pc \notin {"none", "gone"} => Holds(j)
      BY <1>1, <2>2 DEF Task, Holds
    <2>5. SchedShape' /\ RunnersKnown' /\ SyncsHold'
      BY <1>1, <2>1, <2>2 DEF SchedShape, RunnersKnown, SyncsHold
    <2>6. NamesKept'
      BY <1>1, <2>1, <2>3, <2>4 DEF NamesKept, Holds
    <2> QED
      BY <2>5, <2>6 DEF OwnInv
  <1> QED
    BY <1>2, <1>3, <1>4, <1>5, <1>6

\* The steps of the scheduler preserve the invariant.
LEMMA SchedStepInv == SchedInv /\ [SchedNext]_allVars => SchedInv'
  <1> SUFFICES ASSUME SchedInv, [SchedNext]_allVars PROVE SchedInv'
    OBVIOUS
  <1>1. RegInv'
    <2>1. RegInv /\ [RegNext]_regVars
      BY SchedRegStep DEF SchedInv
    <2> QED
      BY <2>1, RegStepInv
  <1>2. OwnInv'
    <2>1. CASE LoopStep
      BY <2>1, LoopInv
    <2>2. CASE \E r \in Remotes : RunnerStep(r) \/ RunnerSynced(r)
      BY <2>2, RunnerInv
    <2>3. CASE \/ Forgetting \/ PeriodPasses \/ StopScheduler \/ UNCHANGED allVars
               \/ \E r \in Remotes : \/ ManualSync(r)
                                     \/ \E st \in {"on", "off", "deleted"} : SetRow(r, st)
                                     \/ \E n \in TaskKeys : Rename(r, n)
               \/ \E i \in Ids : TaskRuns(i)
      BY <2>3, OutsideInv
    <2> QED
      BY <2>1, <2>2, <2>3 DEF SchedNext
  <1> QED
    BY <1>1, <1>2 DEF SchedInv, OwnInv

\* The initial state satisfies the invariant.
LEMMA SchedInitInv == SchedInit => SchedInv
  <1> SUFFICES ASSUME SchedInit PROVE SchedInv
    OBVIOUS
  <1>1. RegInv
    BY RegInitInv DEF SchedInit
  <1>2. \A r \in Remotes : /\ runner[r].pc = "none" /\ row[r].name = FirstName[r]
                           /\ FirstName[r] \in TaskKeys
    BY SchedulerAssumption DEF SchedInit, NoRunner
  <1>3. \A i \in Ids : ~Holds(i)
    BY DEF SchedInit, RegInit, Holds
  <1>4. SchedShape
    <2>1. /\ row \in [Remotes -> [st : {"on", "off", "deleted"}, name : TaskKeys]]
          /\ inMap \in [Remotes -> Nat] /\ forgets \subseteq Remotes \X Nat
          /\ syncOf \in [Ids -> Remotes \cup {NoKey}] /\ renames \in Nat
      BY <1>2 DEF SchedInit
    <2>2. runner \in [Remotes -> RunnerState]
      BY DEF SchedInit, NoRunner, RunnerState, RunnerPcs
    <2>3. loop \in LoopState
      BY DEF SchedInit, IdleLoop, LoopState, LoopPcs
    <2> QED
      BY <2>1, <2>2, <2>3 DEF SchedShape
  <1>5. RunnersKnown /\ SyncsHold /\ NamesKept
    BY <1>2, <1>3 DEF RunnersKnown, SyncsHold, NamesKept, SchedInit
  <1> QED
    BY <1>1, <1>4, <1>5 DEF SchedInv

\* The invariant holds in every reachable state of the scheduler.
THEOREM SchedInvariance == SchedSpec => []SchedInv
  <1> QED
    BY SchedInitInv, SchedStepInv, PTL DEF SchedSpec

\* The scheduler, its manual syncs and its claims are a use of the registry
\* that the registry's own specification allows: what is proved of the registry
\* holds here too.
THEOREM SchedulerUsesRegistry == SchedSpec => RegSpec
  <1>1. SchedInit => RegInit
    BY DEF SchedInit
  <1>2. SchedInv /\ [SchedNext]_allVars => [RegNext]_regVars
    BY SchedRegStep
  <1> QED
    BY <1>1, <1>2, SchedInvariance, PTL DEF SchedSpec, RegSpec

\* reconcile starts a runner of a remote only when the one before has closed
\* done, however late that one forgets itself.
THEOREM RunnersExclusive == SchedSpec => OneRunnerPerRemote
  <1> DEFINE Once == \A r \in Remotes :
                        runner'[r].inst # runner[r].inst => runner[r].pc = "none"
  <1>1. ASSUME SchedInv, [SchedNext]_allVars PROVE Once
    <2> SUFFICES ASSUME NEW r \in Remotes, runner'[r].inst # runner[r].inst
                 PROVE  runner[r].pc = "none"
      OBVIOUS
    <2>1. /\ runner \in [Remotes -> RunnerState]
          /\ RunnersKnown
      BY <1>1 DEF SchedInv, SchedShape
    <2>2. CASE \E s \in Remotes : ReconcileStart(s)
      <3>1. PICK s \in Remotes : ReconcileStart(s)
        BY <2>2
      <3>2. CASE inMap[s] = 0
        <4>1. /\ runner' = [runner EXCEPT ![s] = [pc |-> "timer", inst |-> runner[s].inst + 1,
                                                 stop |-> FALSE, name |-> NoKey]]
              /\ loop.stops = {}
          BY <3>1, <3>2 DEF ReconcileStart
        <4>2. r = s
          BY <2>1, <4>1
        <4>3. runner[r].inst \in Nat
          BY <2>1 DEF RunnerState
        <4> QED
          BY <2>1, <3>2, <4>1, <4>2, <4>3 DEF RunnersKnown
      <3>3. CASE inMap[s] # 0
        BY <3>1, <3>3 DEF ReconcileStart
      <3> QED
        BY <3>2, <3>3
    <2>3. CASE \E s \in Remotes : RunnerStep(s) \/ RunnerSynced(s) \/ ReconcileStop(s)
      <3>1. PICK s \in Remotes : RunnerStep(s) \/ RunnerSynced(s) \/ ReconcileStop(s)
        BY <2>3
      <3>2. \/ \E p \in RunnerPcs : runner' = [runner EXCEPT ![s].pc = p]
            \/ runner' = [runner EXCEPT ![s].pc = "row", ![s].name = row[s].name]
            \/ runner' = [runner EXCEPT ![s].stop = TRUE]
        BY <3>1 DEF RunnerStep, RunnerStops, RunnerReads, RunnerClaims, RunnerDies, RunnerSynced,
                    ReconcileStop, Exit, RunnerPcs
      <3> QED
        BY <2>1, <3>2 DEF RunnerState
    <2>4. CASE runner' = runner
      BY <2>4
    <2> QED
      BY <1>1, <2>2, <2>3, <2>4
         DEF SchedNext, LoopStep, ReconcileRead, ReconcileDecide, ReconcileEnd, LoopEnds,
             ReconcileStopped, Forgetting, ForgetRunner, ManualSync, SetRow, Rename, TaskRuns,
             PeriodPasses, StopScheduler, allVars, schedVars
  <1>2. SchedInv /\ [SchedNext]_allVars => [Once]_allVars
    BY <1>1
  <1> QED
    BY <1>2, SchedInvariance, PTL DEF SchedSpec, OneRunnerPerRemote

\* A set whose members are all the same has at most one.
LEMMA AtMostOne ==
    ASSUME NEW S, \A x, y \in S : x = y
    PROVE  Cardinality(S) \in {0, 1} /\ (S = {} => Cardinality(S) = 0)
  <1>1. CASE S = {}
    BY <1>1, FS_EmptySet
  <1>2. CASE S # {}
    <2>1. PICK x : S = {x}
      BY <1>2
    <2> QED
      BY <1>2, <2>1, FS_Singleton
  <1> QED
    BY <1>1, <1>2

\* A manual and a scheduled sync of a remote that was not renamed exclude each
\* other: they claim the same key.
THEOREM SyncsExclusive == SchedSpec => []OverlapOnlyAfterRename
  <1>1. ASSUME SchedInv PROVE OverlapOnlyAfterRename
    <2> SUFFICES ASSUME renames = 0, NEW r \in Remotes
                 PROVE  Cardinality(ManualSyncs(r))
                          + (IF runner[r].pc = "sync" THEN 1 ELSE 0) <= 1
      BY DEF OverlapOnlyAfterRename, OneSyncPerRemote
    <2>1. \A i \in ManualSyncs(r) : i \in Ids /\ Holds(i) /\ task[i].key = FirstName[r]
      BY <1>1 DEF SchedInv, NamesKept, ManualSyncs
    <2>2. \A i, j \in ManualSyncs(r) : i = j
      BY <1>1, <2>1 DEF SchedInv, RegInv, OneHolder
    <2>3. runner[r].pc = "sync" => ManualSyncs(r) = {}
      <3>1. runner[r].pc = "sync" => held[r] = FirstName[r]
        BY <1>1 DEF SchedInv, SyncsHold, NamesKept
      <3> QED
        BY <1>1, <2>1, <3>1 DEF SchedInv, RegInv, OneHolder, Remotes
    <2> QED
      BY <2>2, <2>3, AtMostOne
  <1> QED
    BY <1>1, SchedInvariance, PTL
=============================================================================
