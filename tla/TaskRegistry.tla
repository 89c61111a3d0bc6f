---------------------------- MODULE TaskRegistry ----------------------------
(***************************************************************************)
(* The registry of background tasks (internal/core/web/taskregistry.go):   *)
(* at most Workers tasks run in parallel, a key kind|label is held by one  *)
(* task or by one external claimer (the scheduled tick of a mirror), the   *)
(* history of finished tasks is bounded, and WaitAll waits for the workers *)
(* at shutdown.                                                            *)
(*                                                                         *)
(* Start, Claim and Release are critical sections of r.mu.  A goroutine    *)
(* ends in three separate steps (the state of the task, the semaphore, the *)
(* key), and Start adds to the WaitGroup after it has left the critical    *)
(* section: the interleavings of these steps are the subject of the model. *)
(* Refused calls (409, 429) change nothing and are stuttering steps.       *)
(***************************************************************************)
EXTENDS Integers, FiniteSets

CONSTANTS
    TaskKeys,     \* kind|label
    Claimers,     \* callers of Claim
    NoKey,        \* a claimer that holds nothing
    Workers,      \* capacity of the semaphore (mirror.workers)
    MaxHistory,   \* maxTaskHistory
    LateStarts,   \* handlers may outlive the HTTP shutdown and call Start
    MaxTasks      \* bound of the model: tasks ever started

Ids == 1..MaxTasks
\* none        no such task yet
\* registered  in the maps, the goroutine not yet launched
\* running     the goroutine runs fn
\* finished    finishSuccess or finishError is done, the semaphore is held
\* freed       the semaphore is released, the key is still held
\* gone        the goroutine has ended
Pcs == {"none", "registered", "running", "finished", "freed", "gone"}
Task == [pc : Pcs, key : TaskKeys]

ASSUME RegistryAssumption ==
    /\ TaskKeys # {} /\ NoKey \notin TaskKeys
    /\ Workers \in Nat \ {0} /\ MaxHistory \in Nat /\ MaxTasks \in Nat
    /\ LateStarts \in BOOLEAN

VARIABLES
    task,      \* the tasks and where their goroutines are
    started,   \* tasks started so far: ids are handed out in start order
    tasks,     \* r.tasks: the ids that Get and Snapshots show
    active,    \* r.active: the key of a running task -> its id, 0 = none
    claims,    \* r.claims
    sem,       \* slots of r.sem in use
    wg,        \* r.wg
    held,      \* the key a claimer holds
    waiting    \* WaitAll: "no", "waiting", "done" or "timeout"

regVars == <<task, started, tasks, active, claims, sem, wg, held, waiting>>

RegInit ==
    /\ task = [i \in Ids |-> [pc |-> "none", key |-> CHOOSE k \in TaskKeys : TRUE]]
    /\ started = 0
    /\ tasks = {}
    /\ active = [k \in TaskKeys |-> 0]
    /\ claims = {}
    /\ sem = 0
    /\ wg = 0
    /\ held = [c \in Claimers |-> NoKey]
    /\ waiting = "no"

-----------------------------------------------------------------------------
(* Helpers *)

\* Task.State is "running" until the goroutine sets the outcome.
Running(i) == task[i].pc \in {"registered", "running"}

\* Mutant of Evicted: the oldest tasks fall out, running or not.
EvictedOldest(ids) ==
    {i \in ids : Cardinality({j \in ids : j <= i}) <= Cardinality(ids) - MaxHistory}

\* What evictHistoryLocked removes from a history: the oldest finished tasks,
\* as many as exceed the limit.
Evicted(ids) ==
    LET done == {i \in ids : task[i].pc \in {"finished", "freed", "gone"}}
    IN {i \in done : Cardinality({j \in done : j <= i}) <= Cardinality(ids) - MaxHistory}

\* Mutant of KeyFree: only claims of running tasks are looked at.
KeyFreeActive(k) == active[k] = 0

\* Neither a task nor a claimer holds the key.
KeyFree(k) == active[k] = 0 /\ k \notin claims

\* Mutant of SlotFree: one task too many.
SlotFreeOneMore == sem <= Workers

\* The semaphore has a free slot.
SlotFree == sem < Workers

-----------------------------------------------------------------------------
(* Tasks *)

\* Start, up to the end of its critical section.
Start(k) ==
    LET i == started + 1 IN
    /\ started < MaxTasks
    /\ waiting = "no" \/ LateStarts
    /\ KeyFree(k)
    /\ SlotFree
    /\ started' = i
    /\ sem' = sem + 1
    /\ task' = [task EXCEPT ![i] = [pc |-> "registered", key |-> k]]
    /\ tasks' = (tasks \cup {i}) \ Evicted(tasks \cup {i})
    /\ active' = [active EXCEPT ![k] = i]
    /\ claims' = claims \cup {k}
    /\ UNCHANGED <<wg, held, waiting>>

\* launch: the WaitGroup is incremented and the goroutine begins.
Launch(i) ==
    /\ task[i].pc = "registered"
    /\ task' = [task EXCEPT ![i].pc = "running"]
    /\ wg' = wg + 1
    /\ UNCHANGED <<started, tasks, active, claims, sem, held, waiting>>

\* runTask returns, with an error, a cancellation or a recovered panic too.
Finish(i) ==
    /\ task[i].pc = "running"
    /\ task' = [task EXCEPT ![i].pc = "finished"]
    /\ UNCHANGED <<started, tasks, active, claims, sem, wg, held, waiting>>

\* The deferred clean-up, first half: <-r.sem.
FreeSlot(i) ==
    /\ task[i].pc = "finished"
    /\ task' = [task EXCEPT ![i].pc = "freed"]
    /\ sem' = sem - 1
    /\ UNCHANGED <<started, tasks, active, claims, wg, held, waiting>>

\* Mutant of DropKey: the claim of the task is forgotten.
DropKeyActive(k) == active' = [active EXCEPT ![k] = 0] /\ UNCHANGED claims

\* The key leaves both maps.
DropKey(k) == active' = [active EXCEPT ![k] = 0] /\ claims' = claims \ {k}

\* The deferred clean-up, second half, and wg.Done.
FreeKey(i) ==
    /\ task[i].pc = "freed"
    /\ task' = [task EXCEPT ![i].pc = "gone"]
    /\ DropKey(task[i].key)
    /\ wg' = wg - 1
    /\ UNCHANGED <<started, tasks, sem, held, waiting>>

-----------------------------------------------------------------------------
(* Claims *)

Claim(c, k) ==
    /\ held[c] = NoKey
    /\ KeyFree(k)
    /\ claims' = claims \cup {k}
    /\ held' = [held EXCEPT ![c] = k]
    /\ UNCHANGED <<task, started, tasks, active, sem, wg, waiting>>

Release(c) ==
    /\ held[c] # NoKey
    /\ claims' = claims \ {held[c]}
    /\ held' = [held EXCEPT ![c] = NoKey]
    /\ UNCHANGED <<task, started, tasks, active, sem, wg, waiting>>

-----------------------------------------------------------------------------
(* Shutdown *)

\* WaitAll cancels the tasks and begins to wait; the HTTP servers are down by
\* then and have waited for their handlers, unless that timed out.
WaitAll ==
    /\ waiting = "no"
    /\ LateStarts \/ \A i \in Ids : task[i].pc # "registered"
    /\ waiting' = "waiting"
    /\ UNCHANGED <<task, started, tasks, active, claims, sem, wg, held>>

\* Mutant of Drained: the semaphore is taken for the WaitGroup.
DrainedSlots == sem = 0

Drained == wg = 0

WaitDone ==
    /\ waiting = "waiting"
    /\ Drained
    /\ waiting' = "done"
    /\ UNCHANGED <<task, started, tasks, active, claims, sem, wg, held>>

WaitTimeout ==
    /\ waiting = "waiting"
    /\ waiting' = "timeout"
    /\ UNCHANGED <<task, started, tasks, active, claims, sem, wg, held>>

-----------------------------------------------------------------------------
TaskStep(i) == Launch(i) \/ Finish(i) \/ FreeSlot(i) \/ FreeKey(i)

RegNext ==
    \/ \E k \in TaskKeys : Start(k)
    \/ \E i \in Ids : TaskStep(i)
    \/ \E c \in Claimers : Release(c) \/ \E k \in TaskKeys : Claim(c, k)
    \/ WaitAll \/ WaitDone \/ WaitTimeout

RegSpec == RegInit /\ [][RegNext]_regVars

\* Task functions end (their context is cancelled at shutdown) and claimers
\* release what they claimed.
RegFairSpec ==
    /\ RegSpec
    /\ \A i \in Ids : WF_regVars(TaskStep(i))
    /\ \A c \in Claimers : WF_regVars(Release(c))
    /\ WF_regVars(WaitDone)

-----------------------------------------------------------------------------
(* Properties *)

\* Every variable has the shape the code gives it; the slots of the semaphore
\* and the WaitGroup never leave their range (FreeSlot would block, Done panic).
RegTypeOK ==
    /\ task \in [Ids -> Task]
    /\ started \in 0..MaxTasks
    /\ tasks \subseteq Ids
    /\ active \in [TaskKeys -> 0..MaxTasks]
    /\ claims \subseteq TaskKeys
    /\ sem \in 0..Workers
    /\ wg \in Nat
    /\ held \in [Claimers -> TaskKeys \cup {NoKey}]
    /\ waiting \in {"no", "waiting", "done", "timeout"}

\* The task holds its key: it is started and its goroutine has not ended.
Holds(i) == task[i].pc \notin {"none", "gone"}

\* A key is held by one task or by one claimer, never by two, and it is taken
\* exactly as long as somebody holds it: no claim is leaked and none is
\* released by another one's clean-up.
OneHolder ==
    /\ \A i, j \in Ids : Holds(i) /\ Holds(j) /\ task[i].key = task[j].key => i = j
    /\ \A c, d \in Claimers : held[c] # NoKey /\ held[c] = held[d] => c = d
    /\ \A i \in Ids, c \in Claimers : Holds(i) => held[c] # task[i].key
    /\ \A k \in TaskKeys :
          k \in claims <=> \/ \E i \in Ids : Holds(i) /\ task[i].key = k
                          \/ \E c \in Claimers : held[c] = k

\* Never more task functions in progress than the semaphore has slots, though
\* a slot is given back before the key is.
ParallelismBounded ==
    Cardinality({i \in Ids : task[i].pc \in {"registered", "running", "finished"}}) <= Workers

\* A running task is always visible to its pollers, and what exceeds the limit
\* of the history was running when the last task was started.
RunningVisible ==
    /\ \A i \in Ids : Running(i) => i \in tasks
    /\ Cardinality(tasks) <= IF MaxHistory > Workers THEN MaxHistory ELSE Workers

\* When WaitAll returns without a timeout no worker is left.
WaitAllComplete ==
    waiting = "done" => \A i \in Ids : ~Holds(i)

\* Every key that is taken becomes free again.
KeysFreed == \A k \in TaskKeys : k \in claims ~> k \notin claims
-----------------------------------------------------------------------------
(* The inductive invariant behind the safety properties *)

\* The tasks that occupy a slot of the semaphore, and those in the WaitGroup.
Slots == {i \in Ids : task[i].pc \in {"registered", "running", "finished"}}

Launched == {i \in Ids : task[i].pc \in {"running", "finished", "freed"}}

\* r.active names exactly the tasks that hold a key.
ActiveExact ==
    /\ \A i \in Ids : Holds(i) => active[task[i].key] = i
    /\ \A k \in TaskKeys : active[k] # 0 =>
          \E i \in Ids : active[k] = i /\ Holds(i) /\ task[i].key = k

\* The semaphore and the WaitGroup count what they are meant to count.
Counted ==
    /\ sem = Cardinality(Slots)
    /\ wg = Cardinality(Launched)

\* Ids are handed out in order, and a task that runs is in the history.
Started ==
    /\ \A i \in Ids : i > started => task[i].pc = "none"
    /\ \A i \in Ids : Running(i) => i \in tasks

\* When every handler has returned before WaitAll, nothing is half started
\* while it waits, and nothing is left when it is done.
Quiet ==
    ~LateStarts =>
        /\ waiting # "no" => \A i \in Ids : task[i].pc # "registered"
        /\ WaitAllComplete

\* The conjunction the steps of the registry preserve.
RegInv ==
    RegTypeOK /\ OneHolder /\ ActiveExact /\ Counted /\ Started /\ Quiet

\* The history shows started tasks only, and no more than its limit or, when
\* that is smaller, than can run at a time.
HistoryBounded ==
    /\ \A i \in tasks : task[i].pc # "none"
    /\ Cardinality(tasks) <= IF MaxHistory > Workers THEN MaxHistory ELSE Workers
=============================================================================
