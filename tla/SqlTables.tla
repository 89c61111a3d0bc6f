------------------------------- MODULE SqlTables -------------------------------
(***************************************************************************)
(* The relational half of the catalogue: tables, constraints and the      *)
(* statements that the three drivers (mod/db/sqlite, mod/db/postgres,      *)
(* mod/db/mariadb) issue against them.  A driver module adds how ids are   *)
(* given, which errors become which domain errors, and how its calls lock  *)
(* and retry.                                                              *)
(*                                                                         *)
(* A row is [uniq, ref, val]: the column under UNIQUE, the foreign key and *)
(* the rest of the columns.  The statements are pure: each yields the      *)
(* tables it leaves behind and the outcome the server reports.             *)
(***************************************************************************)
EXTENDS Integers, FiniteSets, Sequences

CONSTANTS
    Clients,    \* goroutines that call the catalogue
    Names,      \* user, repository, remote names, token hashes, session ids
    Keys,       \* object keys, also the ecosystems of the statistics
    LongKeys,   \* the keys of 513..767 bytes
    Batches,    \* the slices that MergeAccess and SaveStatsSnapshot are given
    MaxId,      \* bound: identifiers
    MaxNow,     \* bound: the clock
    MaxHits,    \* bound: accesses counted for a key when a call begins
    RetryMax    \* busyRetries, retryMax

ASSUME SqlAssumption ==
    /\ MaxId \in Nat \ {0} /\ MaxNow \in Nat /\ MaxHits \in Nat /\ RetryMax \in Nat
    /\ LongKeys \subseteq Keys

VARIABLES
    db,     \* the committed tables
    txn,    \* what each client is in the middle of
    now,    \* the clock
    ans     \* the last answer given: <<operation, argument, code, rows>>

Ids == 1 .. MaxId
RowTables == {"users", "tokens", "repos", "remotes", "jobs"}

NoRows == [i \in {} |-> i]
Idle == [op |-> "idle"]
Silent == <<"none", 0, "ok", {}>>
Failed == <<"call", 0, "error", {}>>

\* A fresh database after goose has run every migration.
EmptyDb ==
    [ users |-> NoRows, tokens |-> NoRows, repos |-> NoRows, remotes |-> NoRows,
      jobs |-> NoRows, perms |-> {}, pins |-> {}, audit |-> {}, index |-> NoRows,
      revs |-> NoRows, access |-> NoRows, stats |-> NoRows, proxy |-> "direct",
      seq |-> [t \in RowTables \cup {"audit"} |-> 0] ]

SqlInit ==
    /\ db = EmptyDb
    /\ txn = [c \in Clients |-> Idle]
    /\ now = 0
    /\ ans = Silent

Put(f, k, v) == [x \in DOMAIN f \cup {k} |-> IF x = k THEN v ELSE f[x]]
Drop(f, S) == [x \in DOMAIN f \ S |-> f[x]]

-----------------------------------------------------------------------------
(* Constraints of the schema                                               *)

\* UNIQUE: users.username, api_tokens.prefix and token_hash, repos.name,
\* remotes.name; sync_jobs has none.
Taken(t, u, but) ==
    t # "jobs" /\ \E i \in DOMAIN db[t] \ but : db[t][i].uniq = u

\* REFERENCES: a token and a repository name a user, a job names a remote.
Dangling(t, r) ==
    \/ t \in {"tokens", "repos"} /\ r \notin DOMAIN db.users
    \/ t = "jobs" /\ r \notin DOMAIN db.remotes

\* The rows of t that name row r of their parent.
Naming(t, r) == {i \in DOMAIN db[t] : db[t][i].ref = r}

\* Mutant: api_tokens without ON DELETE CASCADE and without the constraint.
CascadeLeavesTokens(t, i) ==
    [db EXCEPT ![t] = Drop(@, {i}),
               !.perms = {p \in @ : ~(t = "repos" /\ p[1] = i) /\ ~(t = "users" /\ p[2] = i)},
               !.pins = {p \in @ : ~(t = "repos" /\ p[1] = i)}]

\* What a delete takes along: ON DELETE CASCADE on tokens, permissions, pins
\* and jobs.
Cascade(t, i) ==
    [db EXCEPT ![t] = Drop(@, {i}),
               !.tokens = IF t = "users" THEN Drop(@, Naming("tokens", i)) ELSE Drop(@, IF t = "tokens" THEN {i} ELSE {}),
               !.jobs = IF t = "remotes" THEN Drop(@, Naming("jobs", i)) ELSE Drop(@, IF t = "jobs" THEN {i} ELSE {}),
               !.perms = {p \in @ : ~(t = "repos" /\ p[1] = i) /\ ~(t = "users" /\ p[2] = i)},
               !.pins = {p \in @ : ~(t = "repos" /\ p[1] = i)}]

-----------------------------------------------------------------------------
(* Statements: [db, err] with err = "none" or the server's complaint, and  *)
(* the number of rows that matched.                                        *)

Out(d, e, n) == [db |-> d, err |-> e, rows |-> n]

Insert(t, i, row) ==
    IF Taken(t, row.uniq, {}) THEN Out(db, "unique", 0)
    ELSE IF Dangling(t, row.ref) THEN Out(db, "fk", 0)
    ELSE Out([db EXCEPT ![t] = Put(@, i, row)], "none", 1)

Update(t, i, row) ==
    IF i \notin DOMAIN db[t] THEN Out(db, "none", 0)
    ELSE IF Taken(t, row.uniq, {i}) THEN Out(db, "unique", 0)
    ELSE IF Dangling(t, row.ref) THEN Out(db, "fk", 0)
    ELSE Out([db EXCEPT ![t] = Put(@, i, row)], "none", 1)

Delete(t, i) ==
    IF i \notin DOMAIN db[t] THEN Out(db, "none", 0)
    ELSE IF t = "users" /\ Naming("repos", i) # {} THEN Out(db, "fk", 0)
    ELSE Out(Cascade(t, i), "none", 1)

\* repo_perms and repo_pins: the pair is the primary key.
InsertPair(t, r, x) ==
    IF r \notin DOMAIN db.repos \/ (t = "perms" /\ x \notin DOMAIN db.users) THEN Out(db, "fk", 0)
    ELSE IF <<r, x>> \in db[t] THEN Out(db, "unique", 0)
    ELSE Out([db EXCEPT ![t] = @ \cup {<<r, x>>}], "none", 1)

DeletePair(t, r, x) ==
    Out([db EXCEPT ![t] = @ \ {<<r, x>>}], "none", IF <<r, x>> \in db[t] THEN 1 ELSE 0)

-----------------------------------------------------------------------------
(* Calls                                                                   *)

\* A new call is made once the last answer has been taken.
Reply(op, arg, code, rows) == ans = Silent /\ ans' = <<op, arg, code, rows>>

\* A read answers with the rows it selects; a point lookup that selects none
\* is NotFound (mapRead).
Select(op, arg, rows) == Reply(op, arg, "ok", rows) /\ UNCHANGED <<db, txn, now>>
SelectOne(op, arg, rows) ==
    Reply(op, arg, IF rows = {} THEN "notfound" ELSE "ok", rows) /\ UNCHANGED <<db, txn, now>>

\* The rows of t under one of the ids S.
RowsOf(t, S) == {<<i, db[t][i].uniq, db[t][i].ref, db[t][i].val>> : i \in DOMAIN db[t] \cap S}

Begin(c, call) == ans = Silent /\ txn[c] = Idle /\ txn' = [txn EXCEPT ![c] = call] /\ UNCHANGED <<db, now, ans>>
Step(c, call) == txn' = [txn EXCEPT ![c] = call] /\ UNCHANGED <<db, now, ans>>
Return(c, op, arg, code, rows) ==
    txn' = [txn EXCEPT ![c] = Idle] /\ ans' = <<op, arg, code, rows>> /\ now' = now
\* The call gives up: its attempts are used up, or the error is not one to retry.
GiveUp(c) == txn' = [txn EXCEPT ![c] = Idle] /\ ans' = Failed /\ UNCHANGED <<db, now>>

\* A transaction over the rows of a slice, one upsert after the other.
Batch(op, b) == [op |-> op, rows |-> b, next |-> 1, buf |-> NoRows, try |-> 0]
InBatch(c) == txn[c].op \in {"MergeAccess", "SaveStatsSnapshot"}
Locked(c) == IF InBatch(c) THEN DOMAIN txn[c].buf ELSE {}
Wanted(c) == txn[c].rows[txn[c].next].key
RowsLeft(c) == InBatch(c) /\ txn[c].next <= Len(txn[c].rows)
BatchTable(c) == IF txn[c].op = "MergeAccess" THEN "access" ELSE "stats"

\* What the upsert leaves in a row: last_access_at never goes back and hits
\* add up; a statistics row is overwritten.
Latest(a, b) == IF a > b THEN a ELSE b
Seen(c, k) == IF k \in Locked(c) THEN txn[c].buf[k]
              ELSE IF k \in DOMAIN db[BatchTable(c)] THEN db[BatchTable(c)][k]
              ELSE [at |-> 0, hits |-> 0]
Upserted(c) ==
    LET r == txn[c].rows[txn[c].next]  old == Seen(c, r.key) IN
    IF txn[c].op = "MergeAccess"
    THEN [at |-> Latest(old.at, r.at), hits |-> old.hits + 1]
    ELSE [at |-> r.at, hits |-> 1]

BeginBatch(c, op) ==
    /\ \A k \in DOMAIN db.access : db.access[k].hits < MaxHits
    /\ \E b \in Batches : Begin(c, Batch(op, b))
UpsertRow(c) ==
    /\ RowsLeft(c)
    /\ Step(c, [txn[c] EXCEPT !.next = @ + 1, !.buf = Put(@, Wanted(c), Upserted(c))])
CommitBatch(c) ==
    /\ InBatch(c) /\ ~RowsLeft(c)
    /\ db' = [db EXCEPT ![BatchTable(c)] =
                 [k \in DOMAIN @ \cup DOMAIN txn[c].buf |->
                     IF k \in DOMAIN txn[c].buf THEN txn[c].buf[k] ELSE @[k]]]
    /\ Return(c, txn[c].op, txn[c].rows, "ok", {})
\* Mutant: the attempts are not counted.
RestartForever(c) ==
    InBatch(c) /\ Step(c, [txn[c] EXCEPT !.next = 1, !.buf = NoRows])

\* The transaction is rolled back and the whole call runs again, or gives up.
RestartBatch(c) ==
    /\ InBatch(c)
    /\ IF txn[c].try < RetryMax
       THEN Step(c, [txn[c] EXCEPT !.next = 1, !.buf = NoRows, !.try = @ + 1])
       ELSE GiveUp(c)

Marks(S) == {<<k, db.access[k].at, db.access[k].hits>> : k \in DOMAIN db.access \cap S}
Counters == {<<k, db.stats[k].at>> : k \in DOMAIN db.stats}

Collect == ans # Silent /\ ans' = Silent /\ UNCHANGED <<db, txn, now>>
Tick == now < MaxNow /\ now' = now + 1 /\ UNCHANGED <<db, txn, ans>>
=============================================================================
