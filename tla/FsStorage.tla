------------------------------- MODULE FsStorage -------------------------------
(* The file system backend (mod/storage/fs): a temporary file, flushed,    *)
(* renamed into place, and its directory flushed.                          *)
EXTENDS StorageDisk

Rest == UNCHANGED <<driver, litter, up, count>>

\* Put: a file of its own under tmp/.
Put(c) ==
    /\ call[c].op = "put" /\ call[c].pc = "start"
    /\ tmp' = tmp \cup {c} /\ Goes(c, "body")
    /\ UNCHANGED <<objs, may, synced, faults>> /\ Rest
\* Write: the bytes are in the buffers of the system.
Write(c) ==
    /\ call[c].op = "put" /\ call[c].pc = "body"
    /\ Goes(c, "commit")
    /\ UNCHANGED <<objs, may, synced, tmp, faults>> /\ Rest

\* Mutant: the data are not flushed before the rename.
CommitUnsynced(c) ==
    /\ call[c].op = "put" /\ call[c].pc = "commit"
    /\ Goes(c, "rename") /\ UNCHANGED <<synced, objs, may, tmp, faults>> /\ Rest

\* Commit, step by step: flush and close the file, ...
Sync(c) ==
    /\ call[c].op = "put" /\ call[c].pc = "commit"
    /\ Goes(c, "rename") /\ synced' = synced \cup {c}
    /\ UNCHANGED <<objs, may, tmp, faults>> /\ Rest
\* ... rename it over the object, ...
Rename(c) ==
    /\ call[c].op = "put" /\ call[c].pc = "rename"
    /\ tmp' = tmp \ {c} /\ synced' = synced \ {c}
    /\ objs' = [objs EXCEPT ![call[c].key] = call[c].val]
    /\ may' = [may EXCEPT ![call[c].key] = @ \cup {call[c].val} \cup IF c \in synced THEN {} ELSE {Torn}]
    /\ call' = [call EXCEPT ![c].pc = "dir", ![c].st = "done"]
    /\ UNCHANGED faults /\ Rest
\* ... and flush the directory; what is not flushed in it becomes stable.
fsyncDir(c) ==
    /\ call[c].op = "put" /\ call[c].pc = "dir"
    /\ may' = [k \in Keys |-> {objs[k]} \cup (may[k] \cap {Torn})]
    /\ call' = [call EXCEPT ![c].pc = "flushed", ![c].st = "durable"]
    /\ UNCHANGED <<objs, tmp, synced, faults>> /\ Rest
Commit(c) == Sync(c) \/ Rename(c) \/ fsyncDir(c)
Committed(c) ==
    /\ call[c].pc = "flushed" /\ Returns(c, "ok", {})
    /\ UNCHANGED <<objs, may, tmp, synced, faults>> /\ Rest

\* An error of any of them: the temporary file is removed here, for Abort is
\* refused after Commit.  A failed flush of the directory leaves the object visible.
CommitFails(c) ==
    /\ call[c].op = "put" /\ call[c].pc \in {"commit", "rename", "dir"} /\ Fault
    /\ tmp' = tmp \ {c} /\ synced' = synced \ {c}
    /\ Returns(c, "error", {})
    /\ UNCHANGED <<objs, may>> /\ Rest

\* Mutant: Abort returns at once when the context is cancelled.
AbortCancelled(c) ==
    /\ call[c].op = "put" /\ call[c].pc \in {"body", "commit"}
    /\ Returns(c, "error", {})
    /\ UNCHANGED <<tmp, synced, objs, may, faults>> /\ Rest

\* The client gives up, a Write failed, or the context was cancelled before
\* Commit: the temporary file is removed whatever the context says.
Abort(c) ==
    /\ call[c].op = "put" /\ call[c].pc \in {"body", "commit"}
    /\ tmp' = tmp \ {c} /\ synced' = synced \ {c}
    /\ Returns(c, "error", {})
    /\ UNCHANGED <<objs, may, faults>> /\ Rest
AbortLeaves(c) ==
    /\ call[c].op = "put" /\ call[c].pc \in {"body", "commit"} /\ Fault
    /\ tmp' = tmp \ {c} /\ synced' = synced \ {c} /\ litter' = litter \cup {c}
    /\ Returns(c, "error", {})
    /\ UNCHANGED <<driver, objs, may, up, count>>

\* Get opens the file: what it holds stays, whatever happens to the name.
Get(c) ==
    /\ call[c].op = "get" /\ call[c].pc = "start"
    /\ IF objs[call[c].key] = Nothing THEN Returns(c, "notfound", {}) ELSE Returns(c, "ok", {objs[call[c].key]})
    /\ UNCHANGED <<objs, may, synced, tmp, faults>> /\ Rest

\* GetRange compares with the size of what is there, and opens what is there then.
GetRange(c) ==
    LET here == objs[call[c].key] IN
    /\ call[c].op = "range"
    /\ \/ /\ call[c].pc = "start"
          /\ CASE here = Nothing -> Returns(c, "notfound", {})
               [] here # Nothing /\ here < call[c].val -> Returns(c, "invalid", {})
               [] OTHER -> Goes(c, "open")
       \/ /\ call[c].pc = "open"
          /\ CASE here = Nothing -> Returns(c, "notfound", {})
               [] here # Nothing /\ here < call[c].val -> Returns(c, "short", {})
               [] OTHER -> Returns(c, "ok", {here})
    /\ UNCHANGED <<objs, may, synced, tmp, faults>> /\ Rest

\* Remove is not flushed.
Delete(c) ==
    LET k == call[c].key IN
    /\ call[c].op = "delete" /\ call[c].pc = "start"
    /\ IF objs[k] = Nothing
       THEN Returns(c, "notfound", {}) /\ UNCHANGED <<objs, may>>
       ELSE Visible(c, k, Nothing, FALSE) /\ call' = [call EXCEPT ![c].st = "done", ![c].pc = "removed"]
    /\ UNCHANGED <<synced, tmp, faults>> /\ Rest
Deleted(c) ==
    /\ call[c].pc = "removed" /\ Returns(c, "ok", {})
    /\ UNCHANGED <<objs, may, synced, tmp, faults>> /\ Rest

\* List walks in order; a file that vanishes between the reading of its
\* directory and its Lstat ends the walk with an error.
List(c) ==
    LET k == call[c].got + 1 IN
    /\ call[c].op = "list"
    /\ \/ /\ call[c].pc = "info"
          /\ IF objs[k] = Nothing THEN Returns(c, "error", {})
             ELSE call' = [call EXCEPT ![c].pc = "start", ![c].got = k, ![c].out = @ \cup {k}]
       \/ /\ call[c].pc = "start"
          /\ CASE k \notin Keys -> Returns(c, "ok", call[c].out)
               [] k \in Keys /\ objs[k] # Nothing -> Goes(c, "info")
               [] OTHER -> call' = [call EXCEPT ![c].got = k]
    /\ UNCHANGED <<objs, may, synced, tmp, faults>> /\ Rest

FsStep(c) ==
    \/ Put(c) \/ Write(c) \/ Commit(c) \/ Committed(c) \/ CommitFails(c) \/ Abort(c) \/ AbortLeaves(c)
    \/ Get(c) \/ GetRange(c) \/ Delete(c) \/ Deleted(c) \/ List(c)
=============================================================================
