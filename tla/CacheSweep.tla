----------------------------- MODULE CacheSweep -----------------------------
(***************************************************************************)
(* The storage sweeper (internal/core/engine/storagegc/gc.go) over cache/, *)
(* run beside the mutable cache engine.                                    *)
(*                                                                         *)
(* A pass takes a snapshot of the object index, then reads the clock, then *)
(* walks the storage and deletes every versioned object that the snapshot  *)
(* does not name, whose logical key has a row, and that is older than the  *)
(* grace.  Nothing locks the engine out: while a pass is running, flights  *)
(* commit objects and move rows the snapshot knows nothing of.  Only the   *)
(* grace protects them.                                                    *)
(***************************************************************************)
EXTENDS MutableCache

CONSTANTS
    Grace,      \* storage.gc_grace
    MaxScan     \* longest time from the snapshot of the index to the clock read

ASSUME GraceAssumption ==
    Grace \in Nat /\ MaxScan \in Nat /\ Grace >= MaxScan + MaxTransfer

VARIABLE sweep  \* the pass in progress: its reference sets and what is left

allVars == <<vars, sweep>>

NoSweep == [pc |-> "idle", live |-> {}, keys |-> {}, at |-> 0, todo |-> {}]

SweepInit == Init /\ sweep = NoSweep

\* Mutant of cacheOrphan: the age of the object is not looked at.
cacheOrphanNoGrace(b, live, byKey, now) == b \notin live /\ b.key \in byKey

\* Mutant of cacheOrphan: the grace is counted twice.
cacheOrphanLate(b, live, byKey, now) ==
    b \notin live /\ b.key \in byKey /\ b.mtime < now - Grace - Grace

\* cacheOrphan: not live in the snapshot, a row for its logical key, and
\* older than the grace.  (Every object of this model has a versioned key.)
cacheOrphan(b, live, byKey, now) ==
    /\ b \notin live
    /\ b.key \in byKey
    /\ b.mtime < now - Grace

\* The objects the pass in progress would delete.
Candidates == {b \in store : cacheOrphan(b, sweep.live, sweep.keys, sweep.at)}

\* byKey: the logical keys that have a row.
IndexedKeys == {k \in Keys : index[k] # None}

\* live: the storage keys the rows name.
LiveObjects == {index[k].blob : k \in IndexedKeys}

\* ForEachObjectMeta: one statement, so one snapshot of the index.
SweepIndex ==
    /\ sweep.pc = "idle"
    /\ sweep' = [sweep EXCEPT !.pc = "scan", !.keys = IndexedKeys, !.at = clock,
                              !.live = LiveObjects]
    /\ UNCHANGED vars

\* The repositories are listed, the clock is read and the walk begins: it will
\* meet at least the objects stored now.
SweepNow ==
    /\ sweep.pc = "scan"
    /\ sweep' = [sweep EXCEPT !.pc = "list", !.at = clock, !.todo =
                    {b \in store : cacheOrphan(b, sweep.live, sweep.keys, clock)}]
    /\ UNCHANGED vars

\* deleteKey of an orphan the walk meets, a newer object included; a failed
\* Delete is counted and the walk goes on.
SweepDelete(b) ==
    /\ sweep.pc = "list"
    /\ b \in Candidates
    /\ \/ store' = store \ {b}
       \/ "delete" \in Faults /\ UNCHANGED store
    /\ sweep' = [sweep EXCEPT !.todo = @ \ {b}]
    /\ UNCHANGED <<clock, pub, index, seq, negative, flight, req, deletes, crashes>>

\* The walk is over, everything it had to meet is gone or was tried.
SweepEnd ==
    /\ sweep.pc = "list"
    /\ sweep.todo \cap store = {}
    /\ sweep' = NoSweep
    /\ UNCHANGED vars

\* An error of the index, of the catalogue or of the listing, or a shutdown:
\* fail-closed, the pass ends where it is.
SweepAborts ==
    /\ sweep.pc # "idle"
    /\ "scan" \in Faults
    /\ sweep' = NoSweep
    /\ UNCHANGED vars

SweepStep ==
    \/ SweepIndex \/ SweepNow \/ SweepEnd
    \/ \E b \in store : SweepDelete(b)

\* The steps of the engine; a restart also ends the pass, and the scan of
\* the index does not outlast MaxScan.
EngineStep ==
    /\ Next
    /\ clock' # clock /\ sweep.pc = "scan" => clock < sweep.at + MaxScan
    /\ sweep' = IF crashes' # crashes THEN NoSweep ELSE sweep

SweepNext == EngineStep \/ SweepStep \/ SweepAborts

SweepSpec == SweepInit /\ [][SweepNext]_allVars

\* Run ticks for ever and time passes; passes may be cut short and
\* deletions fail, but not for ever at the same place.  The engine is as fair as without a sweeper.
SweepFairSpec ==
    /\ SweepSpec
    /\ WF_allVars(SweepStep)
    /\ SF_allVars(SweepNow)
    /\ \A n \in 1..MaxSeq :
          SF_allVars(\E b \in store : b.n = n /\ SweepDelete(b) /\ b \notin store')
    /\ WF_allVars(EngineStep /\ Tick)
    /\ \A c \in Clients : /\ WF_allVars(EngineStep /\ RequestStep(c))
                          /\ WF_allVars(EngineStep /\ FlightStep(c))
-----------------------------------------------------------------------------
(* Properties *)

\* The sweeper has a well-formed pass in hand.
SweepTypeOK ==
    /\ sweep.pc \in {"idle", "scan", "list"}
    /\ sweep.live \subseteq Blob /\ sweep.keys \subseteq Keys
    /\ sweep.at \in 0..clock /\ sweep.todo \subseteq Blob

\* No pass deletes an object the index names, one that a leader is about to
\* put into the index, or one the engine will need to extend: the sweeper and
\* the flights never lock each other out, the grace alone keeps them apart.
LiveNeverSwept ==
    sweep.pc = "list" =>
        \A b \in Candidates :
            /\ \A k \in Keys : index[k] # None => index[k].blob # b
            /\ \A l \in Clients : Writes(l) => FlightBlob(l) # b

\* Bytes that nothing names any more are swept once they are old enough, if
\* their key has a row: lost background deletions and interrupted replacements
\* do not fill the disk.
OrphansSwept ==
    \A n \in 1..MaxSeq :
        LET Orphan == \E b \in store : /\ b.n = n
                                       /\ index[b.key] # None /\ index[b.key].blob # b
                                       /\ b.mtime < MaxClock - Grace
                                       /\ ~\E l \in Clients : Writes(l) /\ FlightBlob(l) = b
        IN Orphan ~> ~\E b \in store : b.n = n
-----------------------------------------------------------------------------
(* The inductive invariant behind LiveNeverSwept *)

\* What the index names is in the snapshot of the pass, or was committed so
\* lately that the grace covers it; slack is the time since the snapshot.
NamedIsCovered(slack) ==
    \A k \in Keys : index[k] # None =>
        index[k].blob \in sweep.live \/ sweep.at <= index[k].blob.mtime + MaxTransfer + slack

SnapshotCovered ==
    /\ sweep.pc \in {"idle", "scan", "list"} /\ sweep.at \in Nat /\ sweep.at <= clock
    /\ sweep.pc = "scan" => clock <= sweep.at + MaxScan /\ NamedIsCovered(0)
    /\ sweep.pc = "list" => NamedIsCovered(MaxScan)

SweepInv == IInv /\ InTime /\ SnapshotCovered
=============================================================================
