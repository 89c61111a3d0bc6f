------------------------------- MODULE S3Storage -------------------------------
(* The S3 backend (mod/storage/s3): a body is spooled to a local file and  *)
(* sent with one PutObject, which the service applies at once and durably. *)
EXTENDS StorageDisk

Rest == UNCHANGED <<driver, synced, up, count>>
Keeps == UNCHANGED <<objs, may, tmp, litter, faults>> /\ Rest
Has(c, op, pc) == call[c].op = op /\ call[c].pc = pc
Unspooled(c) == tmp' = tmp \ {c}

\* Put opens the spool file; a failed Write is remembered.
Put(c) ==
    /\ Has(c, "put", "start")
    /\ tmp' = tmp \cup {c} /\ Goes(c, "body")
    /\ UNCHANGED <<objs, may, litter, faults>> /\ Rest
Write(c) == Has(c, "put", "body") /\ Goes(c, "commit") /\ Keeps
WriteFails(c) ==
    /\ Has(c, "put", "body") /\ Fault
    /\ Goes(c, "failed")
    /\ UNCHANGED <<objs, may, tmp, litter>> /\ Rest

\* Commit of an intact spool: PutObject, then the spool is removed.
PutObject(c) ==
    /\ Has(c, "put", "commit")
    /\ Visible(c, call[c].key, call[c].val, TRUE)
    /\ call' = [call EXCEPT ![c].pc = "sent", ![c].st = "durable"]
    /\ UNCHANGED <<tmp, litter, faults>> /\ Rest
Commit(c) ==
    \/ PutObject(c)
    \/ /\ Has(c, "put", "sent")
       /\ Unspooled(c) /\ Returns(c, "ok", {})
       /\ UNCHANGED <<objs, may, litter, faults>> /\ Rest

\* Mutant: what was spooled before the failure is sent.
SendsRemains(c) ==
    /\ \/ Has(c, "put", "failed") /\ Visible(c, call[c].key, Torn, TRUE) /\ UNCHANGED faults
       \/ call[c].op = "put" /\ call[c].pc \in {"commit", "sent"} /\ Fault /\ UNCHANGED <<objs, may>>
    /\ Unspooled(c) /\ Returns(c, "error", {})
    /\ UNCHANGED litter /\ Rest

\* Commit refuses a spool whose Write failed; PutObject may fail before the
\* service applied it or after, when only the answer is lost.
CommitFails(c) ==
    /\ \/ Has(c, "put", "failed") /\ UNCHANGED faults
       \/ call[c].op = "put" /\ call[c].pc \in {"commit", "sent"} /\ Fault
    /\ Unspooled(c) /\ Returns(c, "error", {})
    /\ UNCHANGED <<objs, may, litter>> /\ Rest

Abort(c) ==
    /\ call[c].op = "put" /\ call[c].pc \in {"body", "commit", "failed"}
    /\ Unspooled(c) /\ Returns(c, "error", {})
    /\ UNCHANGED <<objs, may>> /\ Rest
    /\ \/ UNCHANGED <<litter, faults>>
       \/ Fault /\ litter' = litter \cup {c}

\* HEAD of the object: what it names is what the reader may read.
Stat(c) ==
    LET here == objs[call[c].key] IN
    /\ call[c].op \in {"get", "range", "delete"} /\ call[c].pc = "start"
    /\ CASE here = Nothing -> Returns(c, "notfound", {})
         [] call[c].op = "range" /\ here # Nothing /\ here < call[c].val -> Returns(c, "invalid", {})
         [] OTHER -> call' = [call EXCEPT ![c].pc = "known", ![c].got = here]
    /\ Keeps
\* The body is read on the condition that the ETag is the one of the HEAD.
Get(c) ==
    /\ call[c].op \in {"get", "range"} /\ call[c].pc = "known"
    /\ IF objs[call[c].key] = call[c].got THEN Returns(c, "ok", {call[c].got}) ELSE Returns(c, "error", {})
    /\ Keeps

\* RemoveObject says nothing of a key that is already gone.
RemoveObject(c) ==
    /\ Has(c, "delete", "known")
    /\ Visible(c, call[c].key, Nothing, TRUE)
    /\ call' = [call EXCEPT ![c].st = "durable", ![c].pc = "removed"]
    /\ UNCHANGED <<tmp, litter, faults>> /\ Rest
Removed(c) == Has(c, "delete", "removed") /\ Returns(c, "ok", {}) /\ Keeps

\* A request fails: the outcome of a removal is not known.
RequestFails(c) ==
    /\ call[c].op # "put" /\ call[c].pc \in {"start", "known", "removed"} /\ Fault
    /\ Returns(c, "error", {})
    /\ UNCHANGED <<objs, may, tmp, litter>> /\ Rest

\* The service lists in the order of the keys, page by page.
List(c) ==
    LET k == call[c].got + 1 IN
    /\ Has(c, "list", "start")
    /\ IF k \notin Keys THEN Returns(c, "ok", call[c].out)
       ELSE call' = [call EXCEPT ![c].got = k, ![c].out = @ \cup IF objs[k] = Nothing THEN {} ELSE {k}]
    /\ Keeps

S3Step(c) ==
    \/ Put(c) \/ Write(c) \/ WriteFails(c) \/ Commit(c) \/ CommitFails(c) \/ Abort(c)
    \/ Stat(c) \/ Get(c) \/ RemoveObject(c) \/ Removed(c) \/ RequestFails(c) \/ List(c)
=============================================================================
