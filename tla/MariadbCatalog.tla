---------------------------- MODULE MariadbCatalog -----------------------------
(***************************************************************************)
(* The catalogue on MariaDB (mod/db/mariadb): InnoDB, AUTO_INCREMENT ids,  *)
(* gap locks.  `call` retries deadlock (1213), lock_wait_timeout (1205)    *)
(* and AUTOINC_READ_FAILED (1467).  The keys of object_access and          *)
(* repo_pins are VARCHAR(512).                                             *)
(***************************************************************************)
EXTENDS SqlTables

\* Open, migrate: pool and schema before the store is handed out.
Open == db = EmptyDb

\* AUTO_INCREMENT: never given twice, spent by a failed insert too.
NewId(t) == db.seq[t] + 1

\* 1062, 1451, 1452, 1048, 4025 are conflicts, 1406 an invalid key.
mapWrite(e) == CASE e \in {"unique", "fk"} -> "conflict" [] e = "toolong" -> "invalid" [] OTHER -> "ok"

\* Mutant: the rows changed, as the server reports without clientFoundRows.
AffectedChanged(o) == IF o.db = db THEN 0 ELSE o.rows

\* openDSN sets clientFoundRows: an UPDATE reports the rows it matched.
Affected(o) == o.rows
requireAffected(o) == IF o.err = "none" /\ Affected(o) = 0 THEN "notfound" ELSE mapWrite(o.err)

\* A reply can be lost with the connection after the server has committed.
Answers(op, arg, code, rows) == ans = Silent /\ ans' \in {<<op, arg, code, rows>>, Failed}

Exec(op, arg, o, code) == db' = o.db /\ Answers(op, arg, code, {}) /\ UNCHANGED <<txn, now>>
Create(op, t, row) ==
    LET i == NewId(t)  o == Insert(t, i, row) IN
    /\ i \in Ids
    /\ db' = [o.db EXCEPT !.seq[t] = i]
    /\ Answers(op, row, mapWrite(o.err), IF o.err = "none" THEN {i} ELSE {})
    /\ UNCHANGED <<txn, now>>
Change(op, t, i, row) == LET o == Update(t, i, row) IN Exec(op, <<i, row>>, o, requireAffected(o))
Remove(op, t, i) == LET o == Delete(t, i) IN Exec(op, i, o, requireAffected(o))

-----------------------------------------------------------------------------
UserRow(n) == [uniq |-> n, ref |-> 0, val |-> "plain"]

\* INSERT ... SELECT ... WHERE NOT EXISTS on the empty table: the scan takes a
\* shared gap lock, the insert waits for every other holder.  Two holders are a
\* deadlock; the one that is shot runs the statement again.
GapHolders == {d \in Clients : txn[d].op = "FirstUser" /\ txn[d].step = "insert"}
EnsureFirstUser(c) ==
    \/ \E n \in Names : NewId("users") \in Ids /\ Begin(c, [op |-> "FirstUser", step |-> "scan", name |-> n, try |-> 0])
    \/ /\ txn[c].op = "FirstUser" /\ txn[c].step = "scan" /\ DOMAIN db.users # {}
       /\ db' = db /\ Return(c, "EnsureFirstUser", txn[c].name, "ok", {})
    \/ /\ txn[c].op = "FirstUser" /\ txn[c].step = "scan" /\ DOMAIN db.users = {}
       /\ Step(c, [txn[c] EXCEPT !.step = "insert"])
    \/ /\ GapHolders = {c}
       /\ db' = [db EXCEPT !.users = Put(@, NewId("users"), UserRow(txn[c].name)), !.seq["users"] = NewId("users")]
       /\ txn' = [txn EXCEPT ![c] = Idle] /\ now' = now
       /\ ans' \in {Failed, <<"EnsureFirstUser", txn[c].name, "ok", {NewId("users")}>>}
    \/ /\ c \in GapHolders /\ GapHolders # {c}
       /\ IF txn[c].try < RetryMax THEN Step(c, [txn[c] EXCEPT !.step = "scan", !.try = @ + 1]) ELSE GiveUp(c)

CreateUser == DOMAIN db.users # {} /\ \E n \in Names : Create("CreateUser", "users", UserRow(n))
DeleteUser == \E i \in Ids : Remove("DeleteUser", "users", i)
UserStore ==
    \/ CreateUser
    \/ DeleteUser
    \/ \E i \in Ids, n \in Names : Change("UpdateUser", "users", i, UserRow(n))
    \/ \E i \in Ids : SelectOne("User", i, RowsOf("users", {i}))
    \/ \E n \in Names : SelectOne("UserByUsername", n, {r \in RowsOf("users", Ids) : r[2] = n})
    \/ Select("Users", 0, RowsOf("users", Ids))

TokenStore ==
    \/ \E n \in Names, u \in Ids : Create("CreateToken", "tokens", [uniq |-> n, ref |-> u, val |-> "live"])
    \/ \E i \in Ids : Remove("DeleteToken", "tokens", i)
    \/ \E i \in Ids : LET o == IF i \in DOMAIN db.tokens
                               THEN Update("tokens", i, [db.tokens[i] EXCEPT !.val = "revoked"])
                               ELSE Out(db, "none", 0)
                      IN  Exec("RevokeToken", i, o, requireAffected(o))
    \/ \E i \in Ids : Exec("TouchToken", i, Out(db, "none", 0), "ok")
    \/ \E n \in Names : SelectOne("TokenBySHA256", n, {r \in RowsOf("tokens", Ids) : r[2] = n})
    \/ \E u \in Ids : Select("TokensByUser", u, RowsOf("tokens", Naming("tokens", u)))

CreateRepo == \E n \in Names, u \in Ids : Create("CreateRepo", "repos", [uniq |-> n, ref |-> u, val |-> "plain"])
DeleteRepo == \E i \in Ids : Remove("DeleteRepo", "repos", i)
RepoStore ==
    \/ CreateRepo
    \/ DeleteRepo
    \/ \E i \in Ids, n \in Names, u \in Ids : Change("UpdateRepo", "repos", i, [uniq |-> n, ref |-> u, val |-> "kept"])
    \/ \E n \in Names : SelectOne("RepoByName", n, {r \in RowsOf("repos", Ids) : r[2] = n})

Perms ==
    \/ \E r \in Ids, u \in Ids : LET o == InsertPair("perms", r, u) IN Exec("Grant", <<r, u>>, o, mapWrite(o.err))
    \/ \E r \in Ids, u \in Ids : LET o == DeletePair("perms", r, u) IN Exec("Revoke", <<r, u>>, o, requireAffected(o))
    \/ \E r \in Ids : Select("Perms", r, {p \in db.perms : p[1] = r})

\* ON DUPLICATE KEY UPDATE repo_id = repo_id: a repeated pin is a no-op, a
\* foreign repo is not; a key past the column is refused.
PinStore ==
    \/ \E r \in Ids, k \in Keys : LET o == IF k \in LongKeys THEN Out(db, "toolong", 0) ELSE InsertPair("pins", r, k) IN
           Exec("SetPin", <<r, k>>, o, IF o.err = "unique" THEN "ok" ELSE mapWrite(o.err))
    \/ \E r \in Ids, k \in Keys : Exec("UnsetPin", <<r, k>>, DeletePair("pins", r, k), "ok")
    \/ \E r \in Ids : Select("Pins", r, {p \in db.pins : p[1] = r})

\* The eviction policy of a remote: NULL inherits the default, 0/0 is off.
RemoteStore ==
    \/ \E n \in Names, v \in {"inherit", "off"} : Create("CreateRemote", "remotes", [uniq |-> n, ref |-> 0, val |-> v])
    \/ \E i \in Ids, n \in Names, v \in {"inherit", "off"} :
           Change("UpdateRemote", "remotes", i, [uniq |-> n, ref |-> 0, val |-> v])
    \/ \E i \in Ids : Remove("DeleteRemote", "remotes", i)
    \/ \E i \in Ids : SelectOne("Remote", i, RowsOf("remotes", {i}))

JobRow(r, s) == [uniq |-> 0, ref |-> r, val |-> s]
JobStore ==
    \/ \E r \in Ids : Create("CreateJob", "jobs", JobRow(r, "pending"))
    \/ \E i \in Ids, r \in Ids, s \in {"pending", "running"} : Change("UpdateJob", "jobs", i, JobRow(r, s))
    \/ \E i \in Ids : Remove("DeleteJob", "jobs", i)
    \/ \E i \in Ids : SelectOne("Job", i, RowsOf("jobs", {i}))
    \/ \E r \in Ids : \E x \in SUBSET RowsOf("jobs", Naming("jobs", r)) :
           /\ Cardinality(x) = IF Naming("jobs", r) = {} THEN 0 ELSE 1
           /\ SelectOne("JobByRemote", r, x)

\* The id is taken before the row is committed: a later id can be visible first.
AuditLog(c) ==
    \/ /\ txn[c] = Idle /\ NewId("audit") \in Ids
       /\ txn' = [txn EXCEPT ![c] = [op |-> "Record", id |-> NewId("audit")]]
       /\ db' = [db EXCEPT !.seq["audit"] = NewId("audit")] /\ UNCHANGED <<now, ans>>
    \/ /\ txn[c].op = "Record"
       /\ db' = [db EXCEPT !.audit = @ \cup {txn[c].id}]
       /\ Return(c, "Record", 0, "ok", {})
    \/ txn[c].op = "Record" /\ GiveUp(c)
    \/ \E after \in 0 .. MaxId :
           Select("AuditEntries", after, {i \in db.audit : i > after /\ \A j \in db.audit : j > after => i <= j})

ObjectIndex ==
    \/ \E k \in Keys, v \in {"v1", "v2"} :
           Exec("PutObjectMeta", <<k, v>>, Out([db EXCEPT !.index = Put(@, k, v)], "none", 1), "ok")
    \/ \E k \in Keys : Exec("DeleteObjectMeta", k, Out([db EXCEPT !.index = Drop(@, {k})], "none", 1), "ok")
    \/ \E k \in Keys : SelectOne("ObjectMeta", k, {<<x, db.index[x]>> : x \in DOMAIN db.index \cap {k}})
    \/ Select("ForEachObjectMeta", 0, {<<k, db.index[k]>> : k \in DOMAIN db.index})

\* Two statements under one call: purge what is past, then upsert.
Revocations(c) ==
    \/ \E j \in Names, e \in 0 .. MaxNow : Begin(c, [op |-> "Revoke", at |-> now, jti |-> j, exp |-> e, step |-> "purge"])
    \/ /\ txn[c].op = "Revoke" /\ txn[c].step = "purge"
       /\ db' = [db EXCEPT !.revs = Drop(@, {j \in DOMAIN @ : @[j] < txn[c].at})]
       /\ txn' = [txn EXCEPT ![c].step = "upsert"] /\ UNCHANGED <<now, ans>>
    \/ /\ txn[c].op = "Revoke" /\ txn[c].step = "upsert"
       /\ db' = [db EXCEPT !.revs = Put(@, txn[c].jti, txn[c].exp)]
       /\ Return(c, "InsertRevocation", <<txn[c].jti, txn[c].exp>>, "ok", {})
    \/ txn[c].op = "Revoke" /\ GiveUp(c)
    \/ \E j \in Names : Select("IsRevoked", j, {x \in DOMAIN db.revs : x = j /\ db.revs[x] >= now})

\* Row locks as in PostgreSQL; a deadlock is resolved by shooting one side.
Holders(c) == {d \in Clients \ {c} : RowsLeft(c) /\ InBatch(d) /\ txn[d].op = txn[c].op /\ Wanted(c) \in Locked(d)}
Busy(c) == Holders(c) # {}
call(c) == (\E d \in Holders(c) : c \in Holders(d)) /\ RestartBatch(c)
\* A key past the column fails the whole transaction; it is not retried.
TooLong(c) == RowsLeft(c) /\ Wanted(c) \in LongKeys
AccessStore(c) ==
    \/ BeginBatch(c, "MergeAccess")
    \/ txn[c].op = "MergeAccess" /\ ~Busy(c)
          /\ IF TooLong(c) THEN db' = db /\ Return(c, "MergeAccess", txn[c].rows, mapWrite("toolong"), {})
             ELSE UpsertRow(c)
    \/ txn[c].op = "MergeAccess" /\ CommitBatch(c)
    \/ Select("AccessByPrefix", 0, Marks(Keys))
    \/ \E k \in Keys : SelectOne("AccessEntry", k, Marks({k}))
StatsStore(c) ==
    \/ BeginBatch(c, "SaveStatsSnapshot")
    \/ txn[c].op = "SaveStatsSnapshot" /\ ~Busy(c) /\ UpsertRow(c)
    \/ txn[c].op = "SaveStatsSnapshot" /\ CommitBatch(c)
    \/ Exec("ResetStats", 0, Out([db EXCEPT !.stats = NoRows], "none", 0), "ok") /\ \A d \in Clients : Locked(d) = {}
    \/ Select("StatsSnapshot", 0, Counters)

Settings ==
    \/ \E v \in {"direct", "proxy"} : Exec("SetUpstreamProxy", v, Out([db EXCEPT !.proxy = v], "none", 1), "ok")
    \/ Select("UpstreamProxy", 0, {db.proxy})
=============================================================================
