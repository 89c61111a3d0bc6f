------------------------------ MODULE FakeStorage ------------------------------
(* The storage the tests of the engines use (testutil.FakeStorage): a map  *)
(* under a mutex.                                                          *)
EXTENDS StorageDisk

Rest == UNCHANGED <<driver, synced, tmp, litter, up, count, faults>>
Keeps == UNCHANGED <<objs, may>> /\ Rest
Has(c, op, pc) == call[c].op = op /\ call[c].pc = pc

Put(c) == Has(c, "put", "start") /\ Goes(c, "body") /\ Keeps
Write(c) == Has(c, "put", "body") /\ Goes(c, "commit") /\ Keeps
Commit(c) ==
    /\ Has(c, "put", "commit")
    /\ Visible(c, call[c].key, call[c].val, TRUE)
    /\ call' = [call EXCEPT ![c].st = "durable", ![c].pc = "done"]
    /\ Rest
\* A writer that is done refuses Write, Commit and Abort.
Abort(c) == call[c].op = "put" /\ call[c].pc \in {"body", "commit"} /\ Returns(c, "error", {}) /\ Keeps

Get(c) ==
    LET here == objs[call[c].key] IN
    /\ Has(c, "get", "start")
    /\ IF here = Nothing THEN Returns(c, "notfound", {}) ELSE Returns(c, "ok", {here})
    /\ Keeps
GetRange(c) ==
    LET here == objs[call[c].key] IN
    /\ Has(c, "range", "start")
    /\ CASE here = Nothing -> Returns(c, "notfound", {})
         [] here # Nothing /\ here < call[c].val -> Returns(c, "invalid", {})
         [] OTHER -> Returns(c, "ok", {here})
    /\ Keeps
Delete(c) ==
    LET k == call[c].key IN
    /\ Has(c, "delete", "start")
    /\ IF objs[k] = Nothing
       THEN Returns(c, "notfound", {}) /\ UNCHANGED <<objs, may>>
       ELSE Visible(c, k, Nothing, TRUE) /\ call' = [call EXCEPT ![c].st = "durable", ![c].pc = "done"]
    /\ Rest
Done(c) == call[c].pc = "done" /\ Returns(c, "ok", {}) /\ Keeps
\* The names are copied under the mutex and handed out after it.
List(c) == Has(c, "list", "start") /\ Returns(c, "ok", {k \in Keys : objs[k] # Nothing}) /\ Keeps

FakeStep(c) ==
    \/ Put(c) \/ Write(c) \/ Commit(c) \/ Abort(c) \/ Get(c) \/ GetRange(c)
    \/ Delete(c) \/ Done(c) \/ List(c)
=============================================================================
