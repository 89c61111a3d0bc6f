-------------------------------- MODULE Storage --------------------------------
(***************************************************************************)
(* The three implementations of port.Storage, one at a time, used by       *)
(* concurrent clients, with failures of the medium, deaths of the process, *)
(* losses of power and restarts; shown to implement StorageContract.       *)
(***************************************************************************)
EXTENDS StorageDisk

Fs == INSTANCE FsStorage
S3 == INSTANCE S3Storage
Fake == INSTANCE FakeStorage

Init ==
    /\ driver \in {"fs", "s3", "fake"}
    /\ objs = [k \in Keys |-> Nothing] /\ may = [k \in Keys |-> {Nothing}]
    /\ call = [c \in Clients |-> NoCall]
    /\ synced = {} /\ tmp = {} /\ litter = {} /\ up = TRUE
    /\ count = 0 /\ faults = 0
    /\ during = [c \in Clients |-> [k \in Keys |-> {}]]

\* History: what each key has held since a call began.
Track ==
    during' = [c \in Clients |-> [k \in Keys |->
        IF call'[c].op = "none" THEN {}
        ELSE IF call[c].op = "none" THEN {objs'[k]} ELSE during[c][k] \cup {objs'[k]}]]

Inputs == [op : {"put", "range"}, key : Keys, val : Contents]
          \cup [op : {"get", "delete", "list"}, key : Keys, val : {CHOOSE v \in Contents : TRUE}]

Begin(c) ==
    /\ up /\ call[c] = NoCall /\ count < MaxCalls
    /\ count' = count + 1
    /\ \E i \in Inputs :
          call' = [call EXCEPT ![c] =
              [NoCall EXCEPT !.op = i.op, !.key = i.key, !.val = i.val, !.st = "run", !.pc = "start"]]
    /\ UNCHANGED <<driver, objs, may, synced, tmp, litter, up, faults>>

Leave(c) ==
    /\ call[c].pc = "back"
    /\ call' = [call EXCEPT ![c] = NoCall]
    /\ UNCHANGED <<driver, objs, may, synced, tmp, litter, up, count, faults>>

\* The process dies; what it was writing stays where it was.
Dies ==
    /\ driver # "fake" /\ up /\ Fault
    /\ up' = FALSE /\ call' = [c \in Clients |-> NoCall]
    /\ litter' = litter \cup tmp /\ tmp' = {} /\ synced' = {}
    /\ UNCHANGED <<driver, count>>
Crash == Dies /\ UNCHANGED <<objs, may>>
PowerLoss ==
    /\ Dies
    /\ \E was \in [Keys -> {Nothing, Torn} \cup Contents] :
          /\ \A k \in Keys : was[k] \in may[k]
          /\ objs' = was /\ may' = [k \in Keys |-> {was[k]}]

\* New sweeps what is left before anything is served, or refuses to start.
New ==
    /\ ~up /\ up' = TRUE /\ litter' = {}
    /\ UNCHANGED <<driver, objs, may, call, synced, tmp, count, faults>>

Step(c) ==
    \/ driver = "fs" /\ Fs!FsStep(c)
    \/ driver = "s3" /\ S3!S3Step(c)
    \/ driver = "fake" /\ Fake!FakeStep(c)

Next == ((\E c \in Clients : Begin(c) \/ Step(c) \/ Leave(c)) \/ Crash \/ PowerLoss \/ New) /\ Track

Spec == Init /\ [][Next]_diskVars

-----------------------------------------------------------------------------
Contract == INSTANCE StorageContract WITH
    objects <- objs,
    undo <- [k \in Keys |-> may[k] \ {objs[k]}],
    calls <- [c \in Clients |->
        [op |-> call[c].op, key |-> call[c].key, val |-> call[c].val, st |-> call[c].st,
         ret |-> call[c].ret, out |-> IF call[c].ret = "none" THEN {} ELSE call[c].out]]

\* Every backend keeps the promise of port.Storage (port/storage.go:29-82): under
\* concurrent calls, failed calls, deaths of the process and losses of power, an
\* object is the old one or the new one and never a part, a Commit that returned
\* is there after the power comes back, a read returns what was there during it,
\* and a listing without an error misses nothing that stayed.
BackendsImplementContract == Contract!Spec

\* No temporary file outlives its writer, whether the write was committed,
\* aborted under a cancelled context or failed half way (fs.go:357-417,
\* s3.go:449-505), but one whose removal failed.
TmpHasWriter == \A c \in tmp : call[c].op = "put" /\ call[c].ret = "none"

-----------------------------------------------------------------------------
\* What the argument for both rests on.
Held == {Nothing} \cup Contents
CallRecord == [op : {"none", "put", "get", "range", "delete", "list"}, key : Keys \cup {0},
               val : Held, st : {"none", "run", "done", "durable"},
               ret : {"none", "ok", "notfound", "invalid", "short", "error"},
               out : SUBSET (Keys \cup Contents),
               pc : {"idle", "start", "body", "commit", "rename", "dir", "flushed", "failed", "sent",
                     "open", "info", "known", "removed", "done", "back"},
               got : Nat]

DiskTypeOK ==
    /\ driver \in {"fs", "s3", "fake"}
    /\ objs \in [Keys -> Held] /\ may \in [Keys -> SUBSET Held]
    /\ call \in [Clients -> CallRecord]
    /\ tmp \in SUBSET Clients /\ synced \in SUBSET Clients
    /\ during \in [Clients -> [Keys -> SUBSET Held]]

\* What is there may still be there when the power comes back.
VisibleMayStay == \A k \in Keys : objs[k] \in may[k]

\* What is there now has been there during every call in progress.
CallWitnessed(c) ==
    IF call[c].op = "none" THEN call[c] = NoCall /\ \A k \in Keys : during[c][k] = {}
    ELSE /\ call[c].key \in Keys /\ call[c].val \in Contents
         /\ \A k \in Keys : objs[k] \in during[c][k]

\* A write that is not durable, or not even visible, is at an early place of its
\* call, and only flushed bytes are renamed.
StageKnown(c) ==
    /\ call[c].ret # "none" <=> call[c].pc = "back"
    /\ call[c].op # "none" => call[c].pc # "idle"
    /\ call[c].op = "put" =>
          /\ call[c].pc \in {"start", "body", "commit", "rename", "failed"} => call[c].st = "run"
          /\ call[c].pc = "dir" => call[c].st = "done"
          /\ call[c].pc \in {"flushed", "sent", "done"} => call[c].st = "durable"
    /\ call[c].op = "delete" /\ call[c].pc \in {"start", "known"} => call[c].st = "run"
    /\ call[c].pc \in {"body", "commit", "rename", "failed", "dir", "flushed", "sent"} => call[c].op = "put"
    /\ call[c].pc = "removed" => call[c].op = "delete"
    /\ call[c].pc = "done" => call[c].op \in {"put", "delete"}
    /\ call[c].pc = "rename" => c \in synced

\* What a call will answer from is something that was there while it ran.
AnswerWitnessed(c) ==
    LET seen == during[c][call[c].key] IN
    /\ call[c].pc = "open" =>
          call[c].op = "range" /\ \E v \in seen : v # Nothing /\ v >= call[c].val
    /\ call[c].pc = "known" =>
          /\ call[c].op \in {"get", "range", "delete"}
          /\ call[c].got \in seen \ {Nothing}
          /\ call[c].op = "range" => call[c].got >= call[c].val
    /\ call[c].op = "delete" /\ call[c].pc \in {"removed", "done"} => Nothing \in seen /\ seen # {Nothing}
    /\ call[c].op = "list" /\ call[c].ret = "none" =>
          /\ call[c].out \subseteq {k \in Keys : during[c][k] # {Nothing}}
          /\ \A k \in Keys : k <= call[c].got /\ Nothing \notin during[c][k] => k \in call[c].out
          /\ call[c].pc = "info" => call[c].got + 1 \in Keys

\* A temporary file belongs to a write that has not been renamed or sent off.
TmpOwned ==
    /\ \A c \in tmp : call[c].op = "put" /\ call[c].pc \in {"body", "commit", "rename", "failed", "sent"}
    /\ driver = "fake" => tmp = {}

DiskInv ==
    /\ DiskTypeOK /\ VisibleMayStay /\ TmpOwned
    /\ \A c \in Clients : CallWitnessed(c) /\ StageKnown(c) /\ AnswerWitnessed(c)
=============================================================================
