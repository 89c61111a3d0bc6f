---------------------------- MODULE CatalogDrivers -----------------------------
(***************************************************************************)
(* The catalogue as the process uses it: one driver chosen at start, calls *)
(* of several goroutines interleaved on it, and the claim that whichever   *)
(* driver it is, what the callers see is the Catalog contract.             *)
(*                                                                         *)
(* Tables that no foreign key relates never meet in a statement, so a      *)
(* behaviour exercises one group of related tables.                        *)
(***************************************************************************)
EXTENDS SqlTables

VARIABLES driver, group

vars == <<db, txn, now, ans, driver, group>>

Lite == INSTANCE SqliteCatalog
Pg == INSTANCE PostgresCatalog
My == INSTANCE MariadbCatalog
Fake == INSTANCE FakeCatalog

Drivers == {"sqlite", "postgres", "mariadb", "fake"}
Groups == {"first", "users", "perms", "pins", "jobs", "log", "index", "revs", "batch"}

Init ==
    /\ SqlInit /\ driver \in Drivers /\ group \in Groups
    /\ driver = "fake" => group # "first"
    /\ CASE driver = "sqlite" -> Lite!Open [] driver = "postgres" -> Pg!Open
         [] driver = "mariadb" -> My!Open [] OTHER -> TRUE

\* The race for the first user is run in the group "first"; the others only
\* need somebody to begin with.
Bootstrap(c) == group = "first" \/ (DOMAIN db.users = {} /\ \A d \in Clients \ {c} : txn[d] = Idle)

Sqlite(c) ==
    \/ group \in {"first", "users", "perms", "pins"} /\ Bootstrap(c) /\ (\E n \in Names : Lite!EnsureFirstUser(n))
    \/ group = "users" /\ (Lite!UserStore \/ Lite!TokenStore)
    \/ group = "perms" /\ (Lite!CreateUser \/ Lite!DeleteUser)
    \/ group = "perms" /\ (Lite!CreateRepo \/ Lite!DeleteRepo \/ Lite!Perms)
    \/ group = "pins" /\ (Lite!RepoStore \/ Lite!PinStore)
    \/ group = "jobs" /\ (Lite!RemoteStore \/ Lite!JobStore)
    \/ group = "log" /\ Lite!AuditLog
    \/ group = "index" /\ (Lite!ObjectIndex \/ Lite!Settings)
    \/ group = "revs" /\ Lite!Revocations(c)
    \/ group = "batch" /\ (Lite!AccessStore(c) \/ Lite!StatsStore(c) \/ Lite!call(c))

Postgres(c) ==
    \/ group \in {"first", "users", "perms", "pins"} /\ Bootstrap(c) /\ Pg!EnsureFirstUser(c)
    \/ group = "users" /\ (Pg!UserStore \/ Pg!TokenStore)
    \/ group = "perms" /\ (Pg!CreateUser \/ Pg!DeleteUser)
    \/ group = "perms" /\ (Pg!CreateRepo \/ Pg!DeleteRepo \/ Pg!Perms)
    \/ group = "pins" /\ (Pg!RepoStore \/ Pg!PinStore)
    \/ group = "jobs" /\ (Pg!RemoteStore \/ Pg!JobStore)
    \/ group = "log" /\ Pg!AuditLog(c)
    \/ group = "index" /\ (Pg!ObjectIndex \/ Pg!Settings)
    \/ group = "revs" /\ Pg!Revocations(c)
    \/ group = "batch" /\ (Pg!AccessStore(c) \/ Pg!StatsStore(c) \/ Pg!call(c))

Mariadb(c) ==
    \/ group \in {"first", "users", "perms", "pins"} /\ Bootstrap(c) /\ My!EnsureFirstUser(c)
    \/ group = "users" /\ (My!UserStore \/ My!TokenStore)
    \/ group = "perms" /\ (My!CreateUser \/ My!DeleteUser)
    \/ group = "perms" /\ (My!CreateRepo \/ My!DeleteRepo \/ My!Perms)
    \/ group = "pins" /\ (My!RepoStore \/ My!PinStore)
    \/ group = "jobs" /\ (My!RemoteStore \/ My!JobStore)
    \/ group = "log" /\ My!AuditLog(c)
    \/ group = "index" /\ (My!ObjectIndex \/ My!Settings)
    \/ group = "revs" /\ My!Revocations(c)
    \/ group = "batch" /\ (My!AccessStore(c) \/ My!StatsStore(c) \/ My!call(c))

Fakes ==
    \/ group = "users" /\ Fake!FakeUserStore
    \/ group = "perms" /\ Fake!FakeRepoStore
    \/ group = "pins" /\ Fake!FakePinStore
    \/ group = "jobs" /\ (Fake!FakeRemoteStore \/ Fake!FakeJobStore)
    \/ group = "log" /\ Fake!FakeAuditLog
    \/ group = "index" /\ Fake!FakeObjectIndex
    \/ group = "revs" /\ Fake!FakeRevocations
    \/ group = "batch" /\ (Fake!FakeAccessStore \/ Fake!FakeStatsStore)

\* A statement that loses every attempt of its call leaves nothing behind.
Unavailable == driver # "fake" /\ ans = Silent /\ ans' = Failed /\ UNCHANGED <<db, txn, now>>

Next ==
    /\ UNCHANGED <<driver, group>>
    /\ \/ \E c \in Clients : \/ driver = "sqlite" /\ Sqlite(c)
                             \/ driver = "postgres" /\ Postgres(c)
                             \/ driver = "mariadb" /\ Mariadb(c)
       \/ driver = "fake" /\ Fakes
       \/ Unavailable \/ Collect
       \/ group = "revs" /\ Tick

\* A statement in progress is answered: the server neither drops a waiting
\* call nor leaves a deadlock standing, and a client runs its call to the end.
InCall(c) ==
    /\ txn[c] # Idle
    /\ UNCHANGED <<driver, group>>
    /\ \/ driver = "sqlite" /\ Sqlite(c)
       \/ driver = "postgres" /\ Postgres(c)
       \/ driver = "mariadb" /\ Mariadb(c)
    /\ txn'[c] # txn[c]

Spec == Init /\ [][Next]_vars /\ \A c \in Clients : SF_vars(InCall(c))

-----------------------------------------------------------------------------
(* Refinement                                                              *)

RowSet(t) == {<<i, db[t][i].uniq, db[t][i].ref, db[t][i].val>> : i \in DOMAIN db[t]}

\* What a reader can see: the committed rows, and of the revocations those in
\* force now.
Visible ==
    [ users |-> RowSet("users"), tokens |-> RowSet("tokens"), repos |-> RowSet("repos"),
      remotes |-> RowSet("remotes"), jobs |-> RowSet("jobs"),
      perms |-> db.perms, pins |-> db.pins, audit |-> db.audit,
      index |-> {<<k, db.index[k]>> : k \in DOMAIN db.index},
      revoked |-> {r \in {<<j, db.revs[j]>> : j \in DOMAIN db.revs} : r[2] >= now},
      access |-> Marks(Keys), stats |-> Counters, proxy |-> db.proxy ]

Contract == INSTANCE Catalog
    WITH cat <- Visible, clock <- now, reply <- ans, refs <- (driver # "fake"),
         Times <- 0 .. MaxNow

\* Every driver, and within their limits the fakes, implement the contract:
\* whatever the interleaving of calls, locks, deadlocks and retries, the
\* answers and the visible rows are those of operations that happen at once
\* (contract/catalog.go: firstUserAtomicSuite, accessMergeSuite, ...).
DriversImplementContract == Contract!CatSpec

\* The rows of tables d name parents that are there.
Resolves(d) ==
    /\ \A t \in {"tokens", "repos"} : \A i \in DOMAIN d[t] : d[t][i].ref \in DOMAIN d.users
    /\ \A i \in DOMAIN d.jobs : d.jobs[i].ref \in DOMAIN d.remotes
    /\ \A p \in d.perms : p[1] \in DOMAIN d.repos /\ p[2] \in DOMAIN d.users
    /\ \A p \in d.pins : p[1] \in DOMAIN d.repos

\* A row names a parent that is there: tokens and repositories a user, jobs a
\* remote, permissions and pins a repository (migrations 0001, 0006, 0013).
ReferencesResolve == driver # "fake" => Resolves(db)

\* A key that the core lets in (validate.go: maxKeyLen is aligned with the
\* strictest driver) is never refused by the catalogue as too long.
\* The code does not keep this (README, Observations).
AcceptedKeysFit == ans[3] # "invalid"

\* A call that has begun comes back: neither the advisory lock nor the gap
\* locks nor two batches that want each other's rows hold a caller for ever
\* (call, retryMax).
CallsReturn == \A c \in Clients : txn[c] # Idle ~> txn[c] = Idle
=============================================================================
