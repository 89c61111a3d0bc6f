--------------------------- MODULE MirrorScheduler ---------------------------
(***************************************************************************)
(* The mirror scheduler (internal/core/engine/mirror/scheduler.go) over    *)
(* the task registry: a reconcile loop keeps one runner goroutine per      *)
(* remote that wants one, a runner syncs its remote under a claim of the   *)
(* key sync|<name>, an operator starts manual syncs through TaskRegistry.  *)
(*                                                                         *)
(* The reconcile loop, every runner, the tasks and the admin handlers that *)
(* edit the catalogue interleave; the maps of the scheduler are guarded by *)
(* its mutex, but a decision is taken on rows read before.                 *)
(*                                                                         *)
(* Abstractions: a tick, a notification and a manual wake-up of the loop   *)
(* are one thing (a reconcile may begin whenever the loop is idle); time   *)
(* is counted in reconcile periods since the last death of a runner; what  *)
(* a sync does is left out; of a row only what shouldRun sees and the name *)
(* are kept.  Claimers are the remotes, the keys are their names.          *)
(***************************************************************************)
EXTENDS TaskRegistry

CONSTANTS
    Backoff,      \* maxRunnerBackoff, in reconcile periods
    FirstName,    \* the names the remotes have at first
    MaxFails,     \* bound: reads of a row that fail
    MaxEdits,     \* bound: edits of rows
    MaxRenames    \* bound: edits that rename a row

Remotes == Claimers
RunnerPcs == {"none", "timer", "row", "sync"}
LoopPcs == {"idle", "decide", "act", "ended"}

ASSUME SchedulerAssumption ==
    /\ FirstName \in [Remotes -> TaskKeys]
    /\ \A r, s \in Remotes : FirstName[r] = FirstName[s] => r = s
    /\ Backoff \in Nat \ {0}
    /\ MaxFails \in Nat /\ MaxEdits \in Nat /\ MaxRenames \in Nat
    /\ \A r \in Remotes : r \notin TaskKeys

VARIABLES
    row,       \* the remotes table: "on", "off" or "deleted", and the name
    runner,    \* the goroutine of a remote: where it is, its instance, its stop signal
    inMap,     \* s.runners: the instance it names, 0 = none
    forgets,   \* instances that have closed done and not yet called forgetRunner
    deaths,    \* s.deaths
    since,     \* periods since s.lastDeath
    loop,      \* the reconcile loop and its local variables
    down,      \* the shutdown context is cancelled
    syncOf,    \* the remote a manual task syncs
    fails, edits, renames   \* bounded events so far

schedVars == <<row, runner, inMap, forgets, deaths, since, loop, down, syncOf,
               fails, edits, renames>>
allVars == <<regVars, schedVars>>

NoRunner == [pc |-> "none", inst |-> 0, stop |-> FALSE, name |-> NoKey]
IdleLoop == [pc |-> "idle", wanted |-> {}, stops |-> {}, starts |-> {}, stopping |-> {}]

SchedInit ==
    /\ RegInit
    /\ row = [r \in Remotes |-> [st |-> "on", name |-> FirstName[r]]]
    /\ runner = [r \in Remotes |-> NoRunner]
    /\ inMap = [r \in Remotes |-> 0]
    /\ forgets = {}
    /\ deaths = [r \in Remotes |-> 0]
    /\ since = [r \in Remotes |-> 0]
    /\ loop = IdleLoop
    /\ down = FALSE
    /\ syncOf = [i \in Ids |-> NoKey]
    /\ fails = 0 /\ edits = 0 /\ renames = 0

-----------------------------------------------------------------------------
(* Backoff *)

\* Mutant of BackoffLeft: the pause is not measured from the last death.
BackoffLeftForever(r) == IF deaths[r] <= 1 THEN 0 ELSE 1

\* backoffLeftLocked: 0 after one death, then 1, 2, 4 ... periods since the
\* last death; the cap is returned whole as soon as the doubling reaches it.
BackoffLeft(r) ==
    LET d == deaths[r]
        b == 2 ^ (d - 2)
    IN IF d <= 1 THEN 0
       ELSE IF d > 2 /\ b >= Backoff THEN Backoff
       ELSE IF b > since[r] THEN b - since[r] ELSE 0

-----------------------------------------------------------------------------
\* Mutant of Wanted: the switch of the remote is not looked at.
WantedKnown(r) == row[r].st # "deleted"

\* shouldRun.
Wanted(r) == row[r].st = "on"

\* Mutant of Cancelled: the shutdown does not reach the runners.
CancelledStop(r) == runner[r].stop

\* The contexts a runner and its sync listen to.
Cancelled(r) == runner[r].stop \/ down

-----------------------------------------------------------------------------
(* Reconcile *)

\* The rows are read (a failed read ends the reconcile, a stuttering step).
ReconcileRead ==
    /\ loop.pc = "idle" /\ ~down
    /\ loop' = [IdleLoop EXCEPT !.pc = "decide",
                                !.wanted = {r \in Remotes : Wanted(r)}]
    /\ UNCHANGED <<regVars, row, runner, inMap, forgets, deaths, since, down, syncOf,
                   fails, edits, renames>>

\* The critical section: unwanted runners leave the map, the backoff of
\* unwanted remotes is forgotten, missing runners out of backoff are chosen.
ReconcileDecide ==
    LET W == loop.wanted IN
    /\ loop.pc = "decide"
    /\ inMap' = [r \in Remotes |-> IF r \in W THEN inMap[r] ELSE 0]
    /\ deaths' = [r \in Remotes |-> IF r \in W THEN deaths[r] ELSE 0]
    /\ since' = [r \in Remotes |-> IF r \in W THEN since[r] ELSE 0]
    /\ loop' = [loop EXCEPT !.pc = "act",
                            !.stops = {r \in Remotes \ W : inMap[r] # 0},
                            !.starts = {r \in W : inMap[r] = 0 /\ BackoffLeft(r) = 0}]
    /\ UNCHANGED <<regVars, row, runner, forgets, down, syncOf, fails, edits, renames>>

\* rn.stop: the runner is told to stop.
ReconcileStop(r) ==
    /\ loop.pc = "act" /\ loop.stopping = {}
    /\ r \in loop.stops
    /\ runner' = [runner EXCEPT ![r].stop = TRUE]
    /\ loop' = [loop EXCEPT !.stopping = {r}]
    /\ UNCHANGED <<regVars, row, inMap, forgets, deaths, since, down, syncOf,
                   fails, edits, renames>>

\* Mutant of Exited: stop does not wait for the goroutine.
ExitedAtOnce(r) == TRUE

\* The goroutine has closed done.
Exited(r) == runner[r].pc = "none"

ReconcileStopped(r) ==
    /\ r \in loop.stopping
    /\ Exited(r)
    /\ loop' = [loop EXCEPT !.stopping = {}, !.stops = @ \ {r}]
    /\ UNCHANGED <<regVars, row, runner, inMap, forgets, deaths, since, down, syncOf,
                   fails, edits, renames>>

\* startRunner, unless the map has a runner of this remote by now.
ReconcileStart(r) ==
    /\ loop.pc = "act" /\ loop.stops = {}
    /\ r \in loop.starts
    /\ loop' = [loop EXCEPT !.starts = @ \ {r}]
    /\ IF inMap[r] = 0
       THEN /\ runner' = [runner EXCEPT ![r] = [pc |-> "timer", inst |-> @.inst + 1,
                                               stop |-> FALSE, name |-> NoKey]]
            /\ inMap' = [inMap EXCEPT ![r] = runner[r].inst + 1]
       ELSE UNCHANGED <<runner, inMap>>
    /\ UNCHANGED <<regVars, row, forgets, deaths, since, down, syncOf, fails, edits, renames>>

ReconcileEnd ==
    /\ loop.pc = "act" /\ loop.stops = {} /\ loop.starts = {}
    /\ loop' = IdleLoop
    /\ UNCHANGED <<regVars, row, runner, inMap, forgets, deaths, since, down, syncOf,
                   fails, edits, renames>>

\* The loop sees the cancelled context.
LoopEnds ==
    /\ loop.pc = "idle" /\ down
    /\ loop' = [loop EXCEPT !.pc = "ended"]
    /\ UNCHANGED <<regVars, row, runner, inMap, forgets, deaths, since, down, syncOf,
                   fails, edits, renames>>

-----------------------------------------------------------------------------
(* Runners *)

\* The goroutine leaves run: done is closed, forgetRunner is still to come.
Exit(r) ==
    /\ runner' = [runner EXCEPT ![r].pc = "none"]
    /\ forgets' = forgets \cup {<<r, runner[r].inst>>}

\* run: the stop signal or the shutdown.
RunnerStops(r) ==
    /\ runner[r].pc = "timer"
    /\ Cancelled(r)
    /\ Exit(r)
    /\ UNCHANGED <<regVars, row, inMap, deaths, since, loop, down, syncOf, fails, edits, renames>>

\* tick: the row cannot be read (database trouble, a deleted remote, the
\* shutdown): the runner dies and its death is counted.
RunnerDies(r) ==
    /\ runner[r].pc = "timer"
    /\ \/ fails < MaxFails /\ fails' = fails + 1
       \/ (row[r].st = "deleted" \/ down) /\ UNCHANGED fails
    /\ deaths' = [deaths EXCEPT ![r] = @ + 1]
    /\ since' = [since EXCEPT ![r] = 0]
    /\ Exit(r)
    /\ UNCHANGED <<regVars, row, inMap, loop, down, syncOf, edits, renames>>

\* tick: the row is read; a remote that is switched off ends its runner.
RunnerReads(r) ==
    /\ runner[r].pc = "timer" /\ ~down /\ row[r].st # "deleted"
    /\ \/ ~Wanted(r) /\ Exit(r)
       \/ /\ Wanted(r)
          /\ runner' = [runner EXCEPT ![r].pc = "row", ![r].name = row[r].name]
          /\ UNCHANGED forgets
    /\ UNCHANGED <<regVars, row, inMap, deaths, since, loop, down, syncOf, fails, edits, renames>>

\* tick: the key of the name that was read is claimed, or the tick is skipped.
RunnerClaims(r) ==
    /\ runner[r].pc = "row"
    /\ \/ /\ Claim(r, runner[r].name)
          /\ runner' = [runner EXCEPT ![r].pc = "sync"]
       \/ /\ ~KeyFree(runner[r].name)
          /\ runner' = [runner EXCEPT ![r].pc = "timer"]
          /\ UNCHANGED regVars
    /\ UNCHANGED <<row, inMap, forgets, deaths, since, loop, down, syncOf, fails, edits, renames>>

\* The sync ends, whatever its outcome: runnerHealthy and the release.
RunnerSynced(r) ==
    /\ runner[r].pc = "sync"
    /\ Release(r)
    /\ runner' = [runner EXCEPT ![r].pc = "timer"]
    /\ deaths' = [deaths EXCEPT ![r] = 0]
    /\ since' = [since EXCEPT ![r] = 0]
    /\ UNCHANGED <<row, inMap, forgets, loop, down, syncOf, fails, edits, renames>>

\* forgetRunner: the entry of another instance is left alone.
ForgetRunner(r, inst) ==
    /\ <<r, inst>> \in forgets
    /\ forgets' = forgets \ {<<r, inst>>}
    /\ inMap' = [inMap EXCEPT ![r] = IF @ = inst THEN 0 ELSE @]
    /\ UNCHANGED <<regVars, row, runner, deaths, since, loop, down, syncOf, fails, edits, renames>>

-----------------------------------------------------------------------------
(* Operator, time, shutdown *)

\* handleSyncRemote: the row is read and a task with its name is started.
ManualSync(r) ==
    /\ row[r].st # "deleted"
    /\ Start(row[r].name)
    /\ syncOf' = [syncOf EXCEPT ![started + 1] = r]
    /\ UNCHANGED <<row, runner, inMap, forgets, deaths, since, loop, down, fails, edits, renames>>

TaskRuns(i) == TaskStep(i) /\ UNCHANGED schedVars

\* handleUpdateRemote and handleDeleteRemote.
SetRow(r, st) ==
    /\ edits < MaxEdits /\ edits' = edits + 1
    /\ row[r].st \notin {"deleted", st}
    /\ row' = [row EXCEPT ![r].st = st]
    /\ UNCHANGED <<regVars, runner, inMap, forgets, deaths, since, loop, down, syncOf, fails, renames>>

\* handleUpdateRemote with another name (names are unique).
Rename(r, n) ==
    /\ renames < MaxRenames /\ renames' = renames + 1
    /\ edits < MaxEdits /\ edits' = edits + 1
    /\ row[r].st # "deleted"
    /\ \A s \in Remotes : row[s].name # n
    /\ row' = [row EXCEPT ![r].name = n]
    /\ UNCHANGED <<regVars, runner, inMap, forgets, deaths, since, loop, down, syncOf, fails>>

PeriodPasses ==
    /\ \E r \in Remotes : deaths[r] > 0 /\ since[r] < Backoff
    /\ since' = [r \in Remotes |->
                    IF deaths[r] > 0 /\ since[r] < Backoff THEN since[r] + 1 ELSE since[r]]
    /\ UNCHANGED <<regVars, row, runner, inMap, forgets, deaths, loop, down, syncOf,
                   fails, edits, renames>>

\* Scheduler.Stop.
StopScheduler ==
    /\ ~down
    /\ down' = TRUE
    /\ UNCHANGED <<regVars, row, runner, inMap, forgets, deaths, since, loop, syncOf,
                   fails, edits, renames>>

-----------------------------------------------------------------------------
LoopStep ==
    \/ ReconcileRead \/ ReconcileDecide \/ ReconcileEnd \/ LoopEnds
    \/ \E r \in Remotes : ReconcileStop(r) \/ ReconcileStopped(r) \/ ReconcileStart(r)

RunnerStep(r) ==
    RunnerStops(r) \/ RunnerReads(r) \/ RunnerClaims(r) \/ RunnerDies(r)

Forgetting == \E e \in forgets : ForgetRunner(e[1], e[2])

SchedNext ==
    \/ LoopStep
    \/ \E r \in Remotes : \/ RunnerStep(r)
                          \/ RunnerSynced(r)
                          \/ ManualSync(r)
                          \/ \E st \in {"on", "off", "deleted"} : SetRow(r, st)
                          \/ \E n \in TaskKeys : Rename(r, n)
    \/ Forgetting
    \/ \E i \in Ids : TaskRuns(i)
    \/ PeriodPasses
    \/ StopScheduler

SchedSpec == SchedInit /\ [][SchedNext]_allVars

\* The loop ticks, timers fire, time passes.  A sync may take for ever, unless
\* its context is cancelled.
SchedFairSpec ==
    /\ SchedSpec
    /\ WF_allVars(LoopStep) /\ WF_allVars(Forgetting) /\ WF_allVars(PeriodPasses)
    /\ \A r \in Remotes : /\ WF_allVars(RunnerStep(r))
                          /\ WF_allVars(Cancelled(r) /\ RunnerSynced(r))

-----------------------------------------------------------------------------
(* Properties *)

\* The scheduler has the state the code gives it.
SchedTypeOK ==
    /\ RegTypeOK
    /\ \A r \in Remotes :
          /\ row[r].st \in {"on", "off", "deleted"} /\ row[r].name \in TaskKeys
          /\ runner[r].pc \in RunnerPcs /\ runner[r].stop \in BOOLEAN
          /\ inMap[r] \in 0..runner[r].inst
          /\ deaths[r] \in Nat /\ since[r] \in 0..Backoff
          /\ BackoffLeft(r) \in 0..Backoff
    /\ loop.pc \in LoopPcs /\ loop.stopping \subseteq loop.stops

\* A remote never has two runners: a new goroutine is started only when the
\* one before has closed done, however reconcile, a dying runner and its late
\* forgetRunner interleave.
OneRunnerPerRemote ==
    [][\A r \in Remotes : runner'[r].inst # runner[r].inst => runner[r].pc = "none"]_allVars

\* The manual tasks that sync r now.
ManualSyncs(r) == {i \in Ids : syncOf[i] = r /\ Holds(i)}

\* A manual and a scheduled sync of one remote never run in parallel.
\* The code does not keep this (README, Observations).
OneSyncPerRemote ==
    \A r \in Remotes :
        Cardinality(ManualSyncs(r)) + (IF runner[r].pc = "sync" THEN 1 ELSE 0) <= 1

\* Two syncs of one remote overlap only after it was renamed: the key they
\* claim is its name.
OverlapOnlyAfterRename == renames = 0 => OneSyncPerRemote

\* A remote that wants a runner gets one, again and again, however often its
\* runners die: dead runners are restarted, with a backoff.
WantedRuns ==
    \A r \in Remotes : row[r].st = "on" ~> runner[r].pc # "none" \/ row[r].st # "on" \/ down

\* A runner does not outlive its remote: one that is switched off or deleted
\* stops, its sync included, unless it is switched on again.
UnwantedStops ==
    \A r \in Remotes : row[r].st # "on" ~> runner[r].pc = "none" \/ row[r].st = "on"

\* Scheduler.Stop comes to an end: the loop and every runner leave, also when
\* the loop is waiting for a runner or about to start one.
StopCompletes ==
    down ~> loop.pc = "ended" /\ \A r \in Remotes : runner[r].pc = "none"
-----------------------------------------------------------------------------
(* The inductive invariant behind OneRunnerPerRemote and OverlapOnlyAfterRename *)

RunnerState == [pc : RunnerPcs, inst : Nat, stop : BOOLEAN, name : TaskKeys \cup {NoKey}]

LoopState == [pc : LoopPcs, wanted : SUBSET Remotes, stops : SUBSET Remotes,
              starts : SUBSET Remotes, stopping : SUBSET Remotes]

\* The parts of the state the argument speaks of.
SchedShape ==
    /\ row \in [Remotes -> [st : {"on", "off", "deleted"}, name : TaskKeys]]
    /\ runner \in [Remotes -> RunnerState]
    /\ inMap \in [Remotes -> Nat]
    /\ forgets \subseteq Remotes \X Nat
    /\ loop \in LoopState
    /\ syncOf \in [Ids -> Remotes \cup {NoKey}]
    /\ renames \in Nat

\* A live goroutine is the one the map names, unless reconcile has taken it out
\* and not waited for it yet; what forgetRunner is still to forget is a dead one.
RunnersKnown ==
    /\ \A r \in Remotes : runner[r].pc # "none" =>
          /\ runner[r].inst > 0
          /\ inMap[r] = runner[r].inst \/ (loop.pc = "act" /\ r \in loop.stops)
    /\ \A e \in forgets :
          /\ e[2] <= runner[e[1]].inst
          /\ runner[e[1]].pc # "none" => e[2] < runner[e[1]].inst

\* A sync runs under the claim of the name its runner has read.
SyncsHold ==
    \A r \in Remotes :
        /\ runner[r].pc \in {"row", "sync"} => runner[r].name \in TaskKeys
        /\ runner[r].pc = "sync" => held[r] = runner[r].name

\* Without a rename the name of a remote is the same wherever it was read.
NamesKept ==
    renames = 0 =>
        \A r \in Remotes :
            /\ row[r].name = FirstName[r]
            /\ runner[r].pc \in {"row", "sync"} => runner[r].name = FirstName[r]
            /\ \A i \in Ids : syncOf[i] = r /\ Holds(i) => task[i].key = FirstName[r]

SchedInv == RegInv /\ SchedShape /\ RunnersKnown /\ SyncsHold /\ NamesKept
=============================================================================
