------------------------------ MODULE FakeCatalog ------------------------------
(***************************************************************************)
(* The in-memory stores the engines are tested with (internal/testutil/    *)
(* catalog.go): each operation under its own mutex, ids counted up, names  *)
(* unique, no references between the stores.                               *)
(***************************************************************************)
EXTENDS SqlTables

NewId(t) == db.seq[t] + 1
Does(op, arg, d, code, rows) == db' = d /\ Reply(op, arg, code, rows) /\ UNCHANGED <<txn, now>>

Create(op, t, row) ==
    LET i == NewId(t) IN
    IF Taken(t, row.uniq, {}) THEN Does(op, row, db, "conflict", {})
    ELSE i \in Ids /\ Does(op, row, [db EXCEPT ![t] = Put(@, i, row), !.seq[t] = i], "ok", {i})
Change(op, t, i, row) ==
    IF i \notin DOMAIN db[t] THEN Does(op, <<i, row>>, db, "notfound", {})
    ELSE IF Taken(t, row.uniq, {i}) THEN Does(op, <<i, row>>, db, "conflict", {})
    ELSE Does(op, <<i, row>>, [db EXCEPT ![t] = Put(@, i, row)], "ok", {})
Remove(op, t, i, d) ==
    IF i \notin DOMAIN db[t] THEN Does(op, i, db, "notfound", {}) ELSE Does(op, i, d, "ok", {})

UserRow(n) == [uniq |-> n, ref |-> 0, val |-> "plain"]
FakeUserStore ==
    \/ \E n \in Names : Create("CreateUser", "users", UserRow(n))
    \/ \E n \in Names :
           IF DOMAIN db.users # {} THEN Does("EnsureFirstUser", n, db, "ok", {})
           ELSE LET i == NewId("users") IN
                /\ i \in Ids
                /\ Does("EnsureFirstUser", n, [db EXCEPT !.users = Put(@, i, UserRow(n)), !.seq["users"] = i], "ok", {i})
    \/ \E i \in Ids, n \in Names : Change("UpdateUser", "users", i, UserRow(n))
    \/ \E i \in Ids : Remove("DeleteUser", "users", i, [db EXCEPT !.users = Drop(@, {i})])
    \/ \E i \in Ids : SelectOne("User", i, RowsOf("users", {i}))
    \/ \E n \in Names : SelectOne("UserByUsername", n, {r \in RowsOf("users", Ids) : r[2] = n})
    \/ Select("Users", 0, RowsOf("users", Ids))

\* DeleteRepo drops the permissions; Grant and Revoke are idempotent.
FakeRepoStore ==
    \/ \E n \in Names, u \in Ids : Create("CreateRepo", "repos", [uniq |-> n, ref |-> u, val |-> "plain"])
    \/ \E i \in Ids, n \in Names, u \in Ids : Change("UpdateRepo", "repos", i, [uniq |-> n, ref |-> u, val |-> "kept"])
    \/ \E i \in Ids : Remove("DeleteRepo", "repos", i,
           [db EXCEPT !.repos = Drop(@, {i}), !.perms = {p \in @ : p[1] # i}])
    \/ \E r \in Ids, u \in Ids : Does("Grant", <<r, u>>, [db EXCEPT !.perms = @ \cup {<<r, u>>}], "ok", {})
    \/ \E r \in Ids, u \in Ids : Does("Revoke", <<r, u>>, [db EXCEPT !.perms = @ \ {<<r, u>>}], "ok", {})
    \/ \E n \in Names : SelectOne("RepoByName", n, {r \in RowsOf("repos", Ids) : r[2] = n})
    \/ \E r \in Ids : Select("Perms", r, {p \in db.perms : p[1] = r})

FakePinStore ==
    \/ \E r \in Ids, k \in Keys : Does("SetPin", <<r, k>>, [db EXCEPT !.pins = @ \cup {<<r, k>>}], "ok", {})
    \/ \E r \in Ids, k \in Keys : Does("UnsetPin", <<r, k>>, [db EXCEPT !.pins = @ \ {<<r, k>>}], "ok", {})
    \/ \E r \in Ids : Select("Pins", r, {p \in db.pins : p[1] = r})

FakeRemoteStore ==
    \/ \E n \in Names, v \in {"inherit", "off"} : Create("CreateRemote", "remotes", [uniq |-> n, ref |-> 0, val |-> v])
    \/ \E i \in Ids, n \in Names, v \in {"inherit", "off"} :
           Change("UpdateRemote", "remotes", i, [uniq |-> n, ref |-> 0, val |-> v])
    \/ \E i \in Ids : Remove("DeleteRemote", "remotes", i, [db EXCEPT !.remotes = Drop(@, {i})])
    \/ \E i \in Ids : SelectOne("Remote", i, RowsOf("remotes", {i}))

\* JobByRemote: the first the map iteration meets.
FakeJobStore ==
    \/ \E r \in Ids : Create("CreateJob", "jobs", [uniq |-> 0, ref |-> r, val |-> "pending"])
    \/ \E i \in Ids, r \in Ids, s \in {"pending", "running"} :
           Change("UpdateJob", "jobs", i, [uniq |-> 0, ref |-> r, val |-> s])
    \/ \E i \in Ids : Remove("DeleteJob", "jobs", i, [db EXCEPT !.jobs = Drop(@, {i})])
    \/ \E i \in Ids : SelectOne("Job", i, RowsOf("jobs", {i}))
    \/ \E r \in Ids : \E x \in SUBSET RowsOf("jobs", Naming("jobs", r)) :
           /\ Cardinality(x) = IF Naming("jobs", r) = {} THEN 0 ELSE 1
           /\ SelectOne("JobByRemote", r, x)

FakeAuditLog ==
    \/ LET i == NewId("audit") IN
           i \in Ids /\ Does("Record", 0, [db EXCEPT !.audit = @ \cup {i}, !.seq["audit"] = i], "ok", {})
    \/ \E after \in 0 .. MaxId :
           Select("AuditEntries", after, {i \in db.audit : i > after /\ \A j \in db.audit : j > after => i <= j})

FakeObjectIndex ==
    \/ \E k \in Keys, v \in {"v1", "v2"} : Does("PutObjectMeta", <<k, v>>, [db EXCEPT !.index = Put(@, k, v)], "ok", {})
    \/ \E k \in Keys : Does("DeleteObjectMeta", k, [db EXCEPT !.index = Drop(@, {k})], "ok", {})
    \/ \E k \in Keys : SelectOne("ObjectMeta", k, {<<x, db.index[x]>> : x \in DOMAIN db.index \cap {k}})
    \/ Select("ForEachObjectMeta", 0, {<<k, db.index[k]>> : k \in DOMAIN db.index})

FakeRevocations ==
    \/ \E j \in Names, e \in 0 .. MaxNow :
           Does("InsertRevocation", <<j, e>>,
                [db EXCEPT !.revs = Put(Drop(@, {x \in DOMAIN @ : @[x] < now}), j, e)], "ok", {})
    \/ \E j \in Names : Select("IsRevoked", j, {x \in DOMAIN db.revs : x = j /\ db.revs[x] >= now})

\* The rows of a slice applied one after the other under the mutex.
Mark(T, k) == IF k \in DOMAIN T THEN T[k] ELSE [at |-> 0, hits |-> 0]
Merged(b) ==
    LET f[n \in 0 .. Len(b)] ==
            IF n = 0 THEN db.access
            ELSE Put(f[n - 1], b[n].key, [at |-> Latest(Mark(f[n - 1], b[n].key).at, b[n].at),
                                          hits |-> Mark(f[n - 1], b[n].key).hits + 1])
    IN f[Len(b)]
FakeAccessStore ==
    \/ \E b \in Batches : /\ \A k \in DOMAIN db.access : db.access[k].hits < MaxHits
                          /\ Does("MergeAccess", b, [db EXCEPT !.access = Merged(b)], "ok", {})
    \/ Select("AccessByPrefix", 0, Marks(Keys))
    \/ \E k \in Keys : SelectOne("AccessEntry", k, Marks({k}))

Saved(b) ==
    LET f[n \in 0 .. Len(b)] ==
            IF n = 0 THEN db.stats ELSE Put(f[n - 1], b[n].key, [at |-> b[n].at, hits |-> 1])
    IN f[Len(b)]
FakeStatsStore ==
    \/ \E b \in Batches : Does("SaveStatsSnapshot", b, [db EXCEPT !.stats = Saved(b)], "ok", {})
    \/ Does("ResetStats", 0, [db EXCEPT !.stats = NoRows], "ok", {})
    \/ Select("StatsSnapshot", 0, Counters)
=============================================================================
