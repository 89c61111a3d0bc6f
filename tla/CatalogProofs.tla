---------------------------- MODULE CatalogProofs ----------------------------
(***************************************************************************)
(* Every statement of the SQL drivers keeps the references between the     *)
(* tables, whatever the order in which calls, retries and transactions     *)
(* come: for any number of clients, names, keys and rows.                  *)
(***************************************************************************)
EXTENDS CatalogDrivers, TLAPS

Tables == {"users", "tokens", "repos", "remotes", "jobs", "perms", "pins", "audit", "index",
           "revs", "access", "stats", "proxy", "seq"}
Linked == {"users", "tokens", "repos", "remotes", "jobs", "perms", "pins"}

\* The tables are a record with these fields.
Whole(d) == d = [f \in Tables |-> d[f]]

\* The tables are whole and every row names a parent that is there.
Sound(d) == Whole(d) /\ Resolves(d)

\* A row is written.
LEMMA PutDomain ==
    ASSUME NEW f, NEW k, NEW v
    PROVE  /\ DOMAIN Put(f, k, v) = DOMAIN f \cup {k}
           /\ \A x \in DOMAIN f \cup {k} : Put(f, k, v)[x] = IF x = k THEN v ELSE f[x]
  BY DEF Put

\* Rows are dropped.
LEMMA DropDomain ==
    ASSUME NEW f, NEW S
    PROVE  /\ DOMAIN Drop(f, S) = DOMAIN f \ S
           /\ \A x \in DOMAIN f \ S : Drop(f, S)[x] = f[x]
  BY DEF Drop

\* One table is replaced.
LEMMA OneTable ==
    ASSUME NEW d, Whole(d), NEW t \in Tables, NEW v
    PROVE  LET e == [d EXCEPT ![t] = v]
           IN  Whole(e) /\ e[t] = v /\ \A f \in Tables : f # t => e[f] = d[f]
  BY DEF Whole

\* A write beside the related tables.
LEMMA Beside ==
    ASSUME NEW d, Sound(d), NEW e, Whole(e), \A f \in Linked : e[f] = d[f]
    PROVE  Sound(e)
  <1>1. /\ e.users = d.users /\ e.tokens = d.tokens /\ e.repos = d.repos /\ e.remotes = d.remotes
        /\ e.jobs = d.jobs /\ e.perms = d.perms /\ e.pins = d.pins
    BY DEF Linked
  <1> QED
    BY <1>1 DEF Sound, Resolves

\* The same, of one table.
LEMMA BesideOne ==
    ASSUME NEW d, Sound(d), NEW t \in Tables \ Linked, NEW v
    PROVE  Sound([d EXCEPT ![t] = v])
  BY OneTable, Beside DEF Sound, Tables, Linked

\* A sequence gives an id.
LEMMA Spent ==
    ASSUME NEW d, Sound(d), NEW t, NEW v
    PROVE  Sound([d EXCEPT !.seq[t] = v])
  <1>1. [d EXCEPT !.seq[t] = v] = [d EXCEPT !.seq = [d.seq EXCEPT ![t] = v]]
    OBVIOUS
  <1> QED
    BY <1>1, BesideOne DEF Tables, Linked

\* A row is written whose parent is there.
LEMMA PutSound ==
    ASSUME Sound(db), NEW t \in RowTables, NEW i, NEW row, ~Dangling(t, row.ref)
    PROVE  Sound([db EXCEPT ![t] = Put(@, i, row)])
  <1> DEFINE e == [db EXCEPT ![t] = Put(@, i, row)]
  <1>1. t \in Tables /\ Whole(db)
    BY DEF RowTables, Tables, Sound
  <1>2. Whole(e) /\ e[t] = Put(db[t], i, row) /\ \A f \in Tables : f # t => e[f] = db[f]
    BY <1>1, OneTable
  <1> HIDE DEF e
  <1>3. /\ DOMAIN e[t] = DOMAIN db[t] \cup {i}
        /\ \A x \in DOMAIN e[t] : e[t][x] = IF x = i THEN row ELSE db[t][x]
    BY <1>2 DEF Put
  <1>0. RowTables \subseteq Tables
    BY DEF RowTables, Tables
  <1>4. \A f \in RowTables : DOMAIN db[f] \subseteq DOMAIN e[f]
    <2> SUFFICES ASSUME NEW f \in RowTables PROVE DOMAIN db[f] \subseteq DOMAIN e[f]
      OBVIOUS
    <2>1. CASE f = t
      BY <1>3, <2>1
    <2>2. CASE f # t
      BY <1>0, <1>2, <2>2
    <2> QED
      BY <2>1, <2>2
  <1>5. \A f \in RowTables : \A x \in DOMAIN e[f] :
           (x \in DOMAIN db[f] /\ e[f][x] = db[f][x]) \/ (f = t /\ e[f][x] = row)
    <2> SUFFICES ASSUME NEW f \in RowTables, NEW x \in DOMAIN e[f]
                 PROVE  (x \in DOMAIN db[f] /\ e[f][x] = db[f][x]) \/ (f = t /\ e[f][x] = row)
      OBVIOUS
    <2>1. CASE f = t
      BY <1>3, <2>1
    <2>2. CASE f # t
      BY <1>0, <1>2, <2>2
    <2> QED
      BY <2>1, <2>2
  <1>6. e.perms = db.perms /\ e.pins = db.pins
    BY <1>2 DEF RowTables, Tables
  <1>7. \A f \in {"tokens", "repos"} : \A x \in DOMAIN e[f] : e[f][x].ref \in DOMAIN e.users
    <2> SUFFICES ASSUME NEW f \in {"tokens", "repos"}, NEW x \in DOMAIN e[f]
                 PROVE  e[f][x].ref \in DOMAIN e.users
      OBVIOUS
    <2>1. DOMAIN db["users"] \subseteq DOMAIN e["users"]
      BY <1>4 DEF RowTables
    <2>2. CASE x \in DOMAIN db[f] /\ e[f][x] = db[f][x]
      BY <2>1, <2>2 DEF Sound, Resolves
    <2>3. CASE f = t /\ e[f][x] = row
      BY <2>1, <2>3 DEF Dangling
    <2> QED
      BY <1>5, <2>2, <2>3 DEF RowTables
  <1>8. \A x \in DOMAIN e.jobs : e.jobs[x].ref \in DOMAIN e.remotes
    <2> SUFFICES ASSUME NEW x \in DOMAIN e["jobs"] PROVE e["jobs"][x].ref \in DOMAIN e["remotes"]
      OBVIOUS
    <2>1. DOMAIN db["remotes"] \subseteq DOMAIN e["remotes"]
      BY <1>4 DEF RowTables
    <2>2. CASE x \in DOMAIN db["jobs"] /\ e["jobs"][x] = db["jobs"][x]
      BY <2>1, <2>2 DEF Sound, Resolves
    <2>3. CASE "jobs" = t /\ e["jobs"][x] = row
      BY <2>1, <2>3 DEF Dangling
    <2> QED
      BY <1>5, <2>2, <2>3 DEF RowTables
  <1>9. /\ \A p \in e.perms : p[1] \in DOMAIN e.repos /\ p[2] \in DOMAIN e.users
        /\ \A p \in e.pins : p[1] \in DOMAIN e.repos
    <2>1. DOMAIN db["users"] \subseteq DOMAIN e["users"] /\ DOMAIN db["repos"] \subseteq DOMAIN e["repos"]
      BY <1>4 DEF RowTables
    <2> QED
      BY <1>6, <2>1 DEF Sound, Resolves
  <1>10. Sound(e)
    BY <1>2, <1>7, <1>8, <1>9 DEF Sound, Resolves
  <1> QED
    BY <1>10 DEF e

\* INSERT checks the parent.
LEMMA InsertSound ==
    ASSUME Sound(db), NEW t \in RowTables, NEW i, NEW row
    PROVE  Sound(Insert(t, i, row).db)
  BY PutSound DEF Insert, Out

\* UPDATE checks the parent.
LEMMA UpdateSound ==
    ASSUME Sound(db), NEW t \in RowTables, NEW i, NEW row
    PROVE  Sound(Update(t, i, row).db)
  BY PutSound DEF Update, Out

\* DELETE takes along, or is refused by, the rows that name the one deleted.
LEMMA DeleteSound ==
    ASSUME Sound(db), NEW t \in RowTables, NEW i
    PROVE  Sound(Delete(t, i).db)
  <1> DEFINE e == Cascade(t, i)
  <1>1. ASSUME t = "users" => Naming("repos", i) = {} PROVE Sound(e)
    <2>1. /\ Whole(db) /\ Resolves(db)
      BY DEF Sound
    <2>2. /\ Whole(e)
          /\ \A f \in RowTables : DOMAIN e[f] \subseteq DOMAIN db[f]
          /\ \A f \in RowTables : \A x \in DOMAIN e[f] : e[f][x] = db[f][x]
          /\ \A f \in RowTables : \A x \in DOMAIN db[f] :
                x \notin DOMAIN e[f] =>
                   \/ f = t /\ x = i
                   \/ f = "tokens" /\ t = "users"
                   \/ f = "jobs" /\ t = "remotes"
          /\ \A x \in DOMAIN e["tokens"] : t = "users" => db["tokens"][x].ref # i
          /\ \A x \in DOMAIN e["jobs"] : t = "remotes" => db["jobs"][x].ref # i
          /\ e["perms"] = {p \in db["perms"] : ~(t = "repos" /\ p[1] = i) /\ ~(t = "users" /\ p[2] = i)}
          /\ e["pins"] = {p \in db["pins"] : ~(t = "repos" /\ p[1] = i)}
      <3>1. CASE t = "users"
        BY <2>1, <3>1, ZenonT(30) DEF Cascade, Whole, Drop, Naming, RowTables, Tables
      <3>2. CASE t = "tokens"
        BY <2>1, <3>2, ZenonT(30) DEF Cascade, Whole, Drop, Naming, RowTables, Tables
      <3>3. CASE t = "repos"
        BY <2>1, <3>3, ZenonT(30) DEF Cascade, Whole, Drop, Naming, RowTables, Tables
      <3>4. CASE t = "remotes"
        BY <2>1, <3>4, ZenonT(30) DEF Cascade, Whole, Drop, Naming, RowTables, Tables
      <3>5. CASE t = "jobs"
        BY <2>1, <3>5, ZenonT(30) DEF Cascade, Whole, Drop, Naming, RowTables, Tables
      <3> QED
        BY <3>1, <3>2, <3>3, <3>4, <3>5 DEF RowTables
    <2> HIDE DEF e
    <2>3. \A f \in {"tokens", "repos"} : \A x \in DOMAIN e[f] : e[f][x].ref \in DOMAIN e["users"]
      <3> SUFFICES ASSUME NEW f \in {"tokens", "repos"}, NEW x \in DOMAIN e[f]
                   PROVE  e[f][x].ref \in DOMAIN e["users"]
        OBVIOUS
      <3>1. f \in RowTables /\ "users" \in RowTables
        BY DEF RowTables
      <3>2. x \in DOMAIN db[f] /\ e[f][x] = db[f][x]
        BY <2>2, <3>1
      <3>3. db[f][x].ref \in DOMAIN db["users"]
        BY <2>1, <3>2 DEF Resolves
      <3>4. t = "users" => db[f][x].ref # i
        <4>1. CASE f = "tokens"
          BY <2>2, <4>1
        <4>2. CASE f = "repos"
          BY <1>1, <3>2, <4>2 DEF Naming
        <4> QED
          BY <4>1, <4>2
      <3> QED
        BY <2>2, <3>1, <3>2, <3>3, <3>4
    <2>4. \A x \in DOMAIN e["jobs"] : e["jobs"][x].ref \in DOMAIN e["remotes"]
      <3> SUFFICES ASSUME NEW x \in DOMAIN e["jobs"] PROVE e["jobs"][x].ref \in DOMAIN e["remotes"]
        OBVIOUS
      <3>1. "jobs" \in RowTables /\ "remotes" \in RowTables
        BY DEF RowTables
      <3>2. x \in DOMAIN db["jobs"] /\ e["jobs"][x] = db["jobs"][x]
        BY <2>2, <3>1
      <3>3. db["jobs"][x].ref \in DOMAIN db["remotes"]
        BY <2>1, <3>2 DEF Resolves
      <3> QED
        BY <2>2, <3>1, <3>2, <3>3
    <2>5. /\ \A p \in e["perms"] : p[1] \in DOMAIN e["repos"] /\ p[2] \in DOMAIN e["users"]
          /\ \A p \in e["pins"] : p[1] \in DOMAIN e["repos"]
      <3>1. "users" \in RowTables /\ "repos" \in RowTables
        BY DEF RowTables
      <3>2. /\ \A x \in DOMAIN db["users"] : x \notin DOMAIN e["users"] => t = "users" /\ x = i
            /\ \A x \in DOMAIN db["repos"] : x \notin DOMAIN e["repos"] => t = "repos" /\ x = i
        BY <2>2, <3>1
      <3> QED
        BY <2>1, <2>2, <3>2 DEF Resolves
    <2> QED
      BY <2>2, <2>3, <2>4, <2>5 DEF Sound, Resolves
  <1> QED
    BY <1>1 DEF Delete, Out

\* A permission or a pin is inserted under parents that are there.
LEMMA InsertPairSound ==
    ASSUME Sound(db), NEW t \in {"perms", "pins"}, NEW r, NEW x
    PROVE  Sound(InsertPair(t, r, x).db)
  <1> DEFINE e == [db EXCEPT ![t] = @ \cup {<<r, x>>}]
  <1>1. ASSUME r \in DOMAIN db["repos"], t = "perms" => x \in DOMAIN db["users"] PROVE Sound(e)
    <2>1. t \in Tables /\ Whole(db) /\ Resolves(db)
      BY DEF Tables, Sound
    <2>2. Whole(e) /\ e[t] = db[t] \cup {<<r, x>>} /\ \A f \in Tables : f # t => e[f] = db[f]
      BY <2>1, OneTable
    <2> HIDE DEF e
    <2>3. \A f \in RowTables : e[f] = db[f]
      BY <2>2 DEF RowTables, Tables
    <2>4. /\ e["users"] = db["users"] /\ e["tokens"] = db["tokens"] /\ e["repos"] = db["repos"]
          /\ e["remotes"] = db["remotes"] /\ e["jobs"] = db["jobs"]
      BY <2>3 DEF RowTables
    <2>5. CASE t = "perms"
      <3>1. e["pins"] = db["pins"]
        BY <2>2, <2>5 DEF Tables
      <3> QED
        BY <1>1, <2>1, <2>2, <2>4, <2>5, <3>1 DEF Sound, Resolves
    <2>6. CASE t = "pins"
      <3>1. e["perms"] = db["perms"]
        BY <2>2, <2>6 DEF Tables
      <3> QED
        BY <1>1, <2>1, <2>2, <2>4, <2>6, <3>1 DEF Sound, Resolves
    <2> QED
      BY <2>5, <2>6
  <1> QED
    BY <1>1 DEF InsertPair, Out

\* A permission or a pin is taken back.
LEMMA DeletePairSound ==
    ASSUME Sound(db), NEW t \in {"perms", "pins"}, NEW r, NEW x
    PROVE  Sound(DeletePair(t, r, x).db)
  <1> DEFINE e == [db EXCEPT ![t] = @ \ {<<r, x>>}]
  <1>1. t \in Tables /\ Whole(db) /\ Resolves(db)
    BY DEF Tables, Sound
  <1>2. Whole(e) /\ e[t] = db[t] \ {<<r, x>>} /\ \A f \in Tables : f # t => e[f] = db[f]
    BY <1>1, OneTable
  <1> HIDE DEF e
  <1>3. \A f \in RowTables : e[f] = db[f]
    BY <1>2 DEF RowTables, Tables
  <1>4. /\ e["users"] = db["users"] /\ e["tokens"] = db["tokens"] /\ e["repos"] = db["repos"]
        /\ e["remotes"] = db["remotes"] /\ e["jobs"] = db["jobs"]
    BY <1>3 DEF RowTables
  <1>5. e["perms"] \subseteq db["perms"] /\ e["pins"] \subseteq db["pins"]
    <2>1. \A f \in {"perms", "pins"} : e[f] \subseteq db[f]
      BY <1>2 DEF Tables
    <2> QED
      BY <2>1
  <1>6. Sound(e)
    BY <1>1, <1>2, <1>4, <1>5 DEF Sound, Resolves
  <1> QED
    BY <1>6 DEF DeletePair, Out, e

\* The row of a user.
UserOf(n) == [uniq |-> n, ref |-> 0, val |-> "plain"]

-----------------------------------------------------------------------------
(* SQLite *)

\* The statements of the driver are those of SqlTables.
LEMMA LiteStatements ==
    ASSUME Sound(db), NEW t \in RowTables, NEW i, NEW row
    PROVE  /\ Sound(Lite!Insert(t, i, row).db)
           /\ Sound(Lite!Update(t, i, row).db)
           /\ Sound(Lite!Delete(t, i).db)
  <1>1. Lite!Insert(t, i, row) = Insert(t, i, row)
    BY DEF Lite!Insert, Insert, Lite!Taken, Taken, Lite!Dangling, Dangling, Lite!Out, Out,
           Lite!Put, Put
  <1>2. Lite!Update(t, i, row) = Update(t, i, row)
    BY DEF Lite!Update, Update, Lite!Taken, Taken, Lite!Dangling, Dangling, Lite!Out, Out,
           Lite!Put, Put
  <1>3. Lite!Delete(t, i) = Delete(t, i)
    BY DEF Lite!Delete, Delete, Lite!Cascade, Cascade, Lite!Naming, Naming, Lite!Out, Out,
           Lite!Drop, Drop
  <1> QED
    BY <1>1, <1>2, <1>3, InsertSound, UpdateSound, DeleteSound

\* Permissions and pins.
LEMMA LitePairs ==
    ASSUME Sound(db), NEW t \in {"perms", "pins"}, NEW r, NEW x
    PROVE  Sound(Lite!InsertPair(t, r, x).db) /\ Sound(Lite!DeletePair(t, r, x).db)
  <1>1. Lite!InsertPair(t, r, x) = InsertPair(t, r, x)
    BY DEF Lite!InsertPair, InsertPair, Lite!Out, Out
  <1>2. Lite!DeletePair(t, r, x) = DeletePair(t, r, x)
    BY DEF Lite!DeletePair, DeletePair, Lite!Out, Out
  <1> QED
    BY <1>1, <1>2, InsertPairSound, DeletePairSound

\* Calls of one statement.
LEMMA LiteCalls ==
    ASSUME Sound(db), NEW t \in RowTables, NEW op, NEW i, NEW row
    PROVE  /\ Lite!Create(op, t, row) => Sound(db')
           /\ Lite!Change(op, t, i, row) => Sound(db')
           /\ Lite!Remove(op, t, i) => Sound(db')
  BY LiteStatements DEF Lite!Create, Lite!Change, Lite!Remove, Lite!Exec

\* Reads.
LEMMA LiteReads ==
    ASSUME Sound(db), NEW op, NEW arg, NEW rows
    PROVE  /\ Lite!Select(op, arg, rows) => Sound(db')
           /\ Lite!SelectOne(op, arg, rows) => Sound(db')
  BY DEF Lite!Select, Lite!SelectOne

\* Users and tokens.
LEMMA LiteUsers == ASSUME Sound(db), Lite!UserStore \/ Lite!TokenStore PROVE Sound(db')
  <1>1. "users" \in RowTables /\ "tokens" \in RowTables
    BY DEF RowTables
  <1>2. CASE Lite!UserStore
    BY <1>1, <1>2, LiteCalls, LiteReads DEF Lite!UserStore, Lite!CreateUser, Lite!DeleteUser
  <1>3. CASE Lite!TokenStore
    <2>1. ASSUME NEW i, Lite!Exec("RevokeToken", i,
                   IF i \in DOMAIN db.tokens
                   THEN Lite!Update("tokens", i, [db.tokens[i] EXCEPT !.val = "revoked"])
                   ELSE Lite!Out(db, "none", 0),
                   Lite!requireAffected(IF i \in DOMAIN db.tokens
                   THEN Lite!Update("tokens", i, [db.tokens[i] EXCEPT !.val = "revoked"])
                   ELSE Lite!Out(db, "none", 0)))
          PROVE  Sound(db')
      BY <1>1, <2>1, LiteStatements DEF Lite!Exec, Lite!Out
    <2>2. ASSUME NEW i, Lite!Exec("TouchToken", i, Lite!Out(db, "none", 0), "ok") PROVE Sound(db')
      BY <2>2 DEF Lite!Exec, Lite!Out
    <2> QED
      BY <1>1, <1>3, <2>1, <2>2, LiteCalls, LiteReads DEF Lite!TokenStore
  <1> QED
    BY <1>2, <1>3

\* Repositories and permissions.
LEMMA LiteRepos == ASSUME Sound(db), Lite!RepoStore \/ Lite!Perms PROVE Sound(db')
  <1>1. "repos" \in RowTables
    BY DEF RowTables
  <1>2. CASE Lite!RepoStore
    BY <1>1, <1>2, LiteCalls, LiteReads DEF Lite!RepoStore, Lite!CreateRepo, Lite!DeleteRepo
  <1>3. CASE Lite!Perms
    BY <1>3, LitePairs, LiteReads DEF Lite!Perms, Lite!Exec
  <1> QED
    BY <1>2, <1>3

\* Pins.
LEMMA LitePins == ASSUME Sound(db), Lite!PinStore PROVE Sound(db')
  BY LitePairs, LiteReads DEF Lite!PinStore, Lite!Exec

\* Remotes and jobs.
LEMMA LiteRemotes == ASSUME Sound(db), Lite!RemoteStore \/ Lite!JobStore PROVE Sound(db')
  <1>1. "remotes" \in RowTables /\ "jobs" \in RowTables
    BY DEF RowTables
  <1>2. CASE Lite!RemoteStore
    BY <1>1, <1>2, LiteCalls, LiteReads DEF Lite!RemoteStore
  <1>3. CASE Lite!JobStore
    BY <1>1, <1>3, LiteCalls, LiteReads DEF Lite!JobStore
  <1> QED
    BY <1>2, <1>3

\* A transaction moves on, ends or is given up without touching the tables.
LEMMA LiteTransactions ==
    ASSUME Sound(db), NEW c, NEW step
    PROVE  /\ Lite!Begin(c, step) => Sound(db')
           /\ Lite!Step(c, step) => Sound(db')
           /\ Lite!GiveUp(c) => Sound(db')
  BY DEF Lite!Begin, Lite!Step, Lite!GiveUp

\* Batches write the tables of marks and counters only.
LEMMA LiteBatches == ASSUME Sound(db), NEW c, Lite!AccessStore(c) \/ Lite!StatsStore(c) \/ Lite!call(c)
                    PROVE  Sound(db')
  <1>1. {"access", "stats"} \subseteq Tables \ Linked
    BY DEF Tables, Linked
  <1>2. ASSUME NEW op, Lite!BeginBatch(c, op) PROVE Sound(db')
    BY <1>2, LiteTransactions DEF Lite!BeginBatch
  <1>3. ASSUME Lite!UpsertRow(c) PROVE Sound(db')
    BY <1>3, LiteTransactions DEF Lite!UpsertRow
  <1>4. ASSUME Lite!CommitBatch(c) PROVE Sound(db')
    <2>1. Lite!BatchTable(c) \in {"access", "stats"}
      BY DEF Lite!BatchTable
    <2>2. PICK t \in {"access", "stats"} : t = Lite!BatchTable(c)
      BY <2>1
    <2> DEFINE v == [k \in DOMAIN db[t] \cup DOMAIN txn[c].buf |->
                        IF k \in DOMAIN txn[c].buf THEN txn[c].buf[k] ELSE db[t][k]]
    <2>3. db' = [db EXCEPT ![t] = v]
      BY <1>4, <2>2 DEF Lite!CommitBatch
    <2> HIDE DEF v
    <2> QED
      BY <1>1, <2>3, BesideOne
  <1>5. ASSUME Lite!RestartBatch(c) PROVE Sound(db')
    BY <1>5, LiteTransactions DEF Lite!RestartBatch
  <1>6. ASSUME NEW op, NEW arg, NEW code,
               Lite!Exec(op, arg, Lite!Out([db EXCEPT !.stats = Lite!NoRows], "none", 0), code)
        PROVE  Sound(db')
    <2>1. db' = [db EXCEPT !["stats"] = Lite!NoRows]
      BY <1>6 DEF Lite!Exec, Lite!Out
    <2> QED
      BY <1>1, <2>1, BesideOne
  <1>7. CASE Lite!AccessStore(c)
    BY <1>2, <1>3, <1>4, <1>7, LiteReads DEF Lite!AccessStore
  <1>8. CASE Lite!StatsStore(c)
    BY <1>2, <1>3, <1>4, <1>6, <1>8, LiteReads DEF Lite!StatsStore
  <1>9. CASE Lite!call(c)
    BY <1>5, <1>9 DEF Lite!call
  <1> QED
    BY <1>7, <1>8, <1>9

\* Revocations write their own table only.
LEMMA LiteRevocations == ASSUME Sound(db), NEW c, Lite!Revocations(c) PROVE Sound(db')
  <1>1. "revs" \in Tables \ Linked
    BY DEF Tables, Linked
  <1>2. ASSUME NEW v, db' = [db EXCEPT !["revs"] = v] PROVE Sound(db')
    BY <1>1, <1>2, BesideOne
  <1>3. CASE db' = [db EXCEPT !.revs = Lite!Drop(@, {j \in DOMAIN @ : @[j] < txn[c].at})]
    BY <1>2, <1>3
  <1>4. CASE db' = [db EXCEPT !.revs = Lite!Put(@, txn[c].jti, txn[c].exp)]
    BY <1>2, <1>4
  <1> QED
    BY <1>3, <1>4, LiteTransactions, LiteReads DEF Lite!Revocations

\* The object index and the settings.
LEMMA LiteIndex == ASSUME Sound(db), Lite!ObjectIndex \/ Lite!Settings PROVE Sound(db')
  <1>1. {"index", "proxy"} \subseteq Tables \ Linked
    BY DEF Tables, Linked
  <1>2. ASSUME NEW t \in {"index", "proxy"}, NEW op, NEW arg, NEW v, NEW code,
               Lite!Exec(op, arg, Lite!Out([db EXCEPT ![t] = v], "none", 1), code)
        PROVE  Sound(db')
    <2>1. db' = [db EXCEPT ![t] = v]
      BY <1>2 DEF Lite!Exec, Lite!Out
    <2> QED
      BY <1>1, <2>1, BesideOne
  <1>3. CASE Lite!ObjectIndex
    BY <1>2, <1>3, LiteReads DEF Lite!ObjectIndex
  <1>4. CASE Lite!Settings
    BY <1>2, <1>4, LiteReads DEF Lite!Settings
  <1> QED
    BY <1>3, <1>4

\* The first user: a row without a parent.
LEMMA LiteFirst == ASSUME Sound(db), NEW n, Lite!EnsureFirstUser(n) PROVE Sound(db')
  <1>1. "users" \in RowTables /\ ~Dangling("users", UserOf(n).ref)
    BY DEF RowTables, Dangling
  <1>2. db' = db \/ db' = [db EXCEPT !["users"] = Put(db["users"], 1, UserOf(n))]
    BY DEF Lite!EnsureFirstUser, Lite!UserRow, UserOf, Lite!Put, Put
  <1> QED
    BY <1>1, <1>2, PutSound

\* The audit log.
LEMMA LiteAudit == ASSUME Sound(db), Lite!AuditLog PROVE Sound(db')
  <1>1. "audit" \in Tables \ Linked
    BY DEF Tables, Linked
  <1>2. ASSUME NEW v, db' = [db EXCEPT !["audit"] = v] PROVE Sound(db')
    BY <1>1, <1>2, BesideOne
  <1>3. ASSUME NEW i, db' = [db EXCEPT !.audit = @ \cup {i}] PROVE Sound(db')
    BY <1>2, <1>3
  <1> QED
    BY <1>3, LiteReads DEF Lite!AuditLog, Lite!Exec, Lite!Out

\* Every call of the driver.
LEMMA SqliteSound == ASSUME Sound(db), NEW c \in Clients, Sqlite(c) PROVE Sound(db')
  BY LiteFirst, LiteUsers, LiteRepos, LitePins, LiteRemotes, LiteAudit, LiteIndex,
     LiteRevocations, LiteBatches
     DEF Sqlite, Lite!UserStore, Lite!RepoStore

-----------------------------------------------------------------------------
(* PostgreSQL *)

\* The statements of the driver are those of SqlTables.
LEMMA PgStatements ==
    ASSUME Sound(db), NEW t \in RowTables, NEW i, NEW row
    PROVE  /\ Sound(Pg!Insert(t, i, row).db)
           /\ Sound(Pg!Update(t, i, row).db)
           /\ Sound(Pg!Delete(t, i).db)
  <1>1. Pg!Insert(t, i, row) = Insert(t, i, row)
    BY DEF Pg!Insert, Insert, Pg!Taken, Taken, Pg!Dangling, Dangling, Pg!Out, Out,
           Pg!Put, Put
  <1>2. Pg!Update(t, i, row) = Update(t, i, row)
    BY DEF Pg!Update, Update, Pg!Taken, Taken, Pg!Dangling, Dangling, Pg!Out, Out,
           Pg!Put, Put
  <1>3. Pg!Delete(t, i) = Delete(t, i)
    BY DEF Pg!Delete, Delete, Pg!Cascade, Cascade, Pg!Naming, Naming, Pg!Out, Out,
           Pg!Drop, Drop
  <1> QED
    BY <1>1, <1>2, <1>3, InsertSound, UpdateSound, DeleteSound

\* Permissions and pins.
LEMMA PgPairs ==
    ASSUME Sound(db), NEW t \in {"perms", "pins"}, NEW r, NEW x
    PROVE  Sound(Pg!InsertPair(t, r, x).db) /\ Sound(Pg!DeletePair(t, r, x).db)
  <1>1. Pg!InsertPair(t, r, x) = InsertPair(t, r, x)
    BY DEF Pg!InsertPair, InsertPair, Pg!Out, Out
  <1>2. Pg!DeletePair(t, r, x) = DeletePair(t, r, x)
    BY DEF Pg!DeletePair, DeletePair, Pg!Out, Out
  <1> QED
    BY <1>1, <1>2, InsertPairSound, DeletePairSound

\* Calls of one statement.
LEMMA PgCalls ==
    ASSUME Sound(db), NEW t \in RowTables, NEW op, NEW i, NEW row
    PROVE  /\ Pg!Create(op, t, row) => Sound(db')
           /\ Pg!Change(op, t, i, row) => Sound(db')
           /\ Pg!Remove(op, t, i) => Sound(db')
  <1>1. ASSUME Pg!Create(op, t, row) PROVE Sound(db')
    <2> DEFINE n == Pg!NewId(t)
               d == Pg!Insert(t, n, row).db
    <2>1. db' = [d EXCEPT !.seq[t] = n]
      BY <1>1 DEF Pg!Create
    <2>2. Sound(d)
      BY PgStatements
    <2> HIDE DEF d, n
    <2> QED
      BY <2>1, <2>2, Spent
  <1>2. /\ Pg!Change(op, t, i, row) => Sound(db')
        /\ Pg!Remove(op, t, i) => Sound(db')
    BY PgStatements DEF Pg!Change, Pg!Remove, Pg!Exec
  <1> QED
    BY <1>1, <1>2

\* Reads.
LEMMA PgReads ==
    ASSUME Sound(db), NEW op, NEW arg, NEW rows
    PROVE  /\ Pg!Select(op, arg, rows) => Sound(db')
           /\ Pg!SelectOne(op, arg, rows) => Sound(db')
  BY DEF Pg!Select, Pg!SelectOne

\* Users and tokens.
LEMMA PgUsers == ASSUME Sound(db), Pg!UserStore \/ Pg!TokenStore PROVE Sound(db')
  <1>1. "users" \in RowTables /\ "tokens" \in RowTables
    BY DEF RowTables
  <1>2. CASE Pg!UserStore
    BY <1>1, <1>2, PgCalls, PgReads DEF Pg!UserStore, Pg!CreateUser, Pg!DeleteUser
  <1>3. CASE Pg!TokenStore
    <2>1. ASSUME NEW i, Pg!Exec("RevokeToken", i,
                   IF i \in DOMAIN db.tokens
                   THEN Pg!Update("tokens", i, [db.tokens[i] EXCEPT !.val = "revoked"])
                   ELSE Pg!Out(db, "none", 0),
                   Pg!requireAffected(IF i \in DOMAIN db.tokens
                   THEN Pg!Update("tokens", i, [db.tokens[i] EXCEPT !.val = "revoked"])
                   ELSE Pg!Out(db, "none", 0)))
          PROVE  Sound(db')
      BY <1>1, <2>1, PgStatements DEF Pg!Exec, Pg!Out
    <2>2. ASSUME NEW i, Pg!Exec("TouchToken", i, Pg!Out(db, "none", 0), "ok") PROVE Sound(db')
      BY <2>2 DEF Pg!Exec, Pg!Out
    <2> QED
      BY <1>1, <1>3, <2>1, <2>2, PgCalls, PgReads DEF Pg!TokenStore
  <1> QED
    BY <1>2, <1>3

\* Repositories and permissions.
LEMMA PgRepos == ASSUME Sound(db), Pg!RepoStore \/ Pg!Perms PROVE Sound(db')
  <1>1. "repos" \in RowTables
    BY DEF RowTables
  <1>2. CASE Pg!RepoStore
    BY <1>1, <1>2, PgCalls, PgReads DEF Pg!RepoStore, Pg!CreateRepo, Pg!DeleteRepo
  <1>3. CASE Pg!Perms
    BY <1>3, PgPairs, PgReads DEF Pg!Perms, Pg!Exec
  <1> QED
    BY <1>2, <1>3

\* Pins.
LEMMA PgPins == ASSUME Sound(db), Pg!PinStore PROVE Sound(db')
  BY PgPairs, PgReads DEF Pg!PinStore, Pg!Exec

\* Remotes and jobs.
LEMMA PgRemotes == ASSUME Sound(db), Pg!RemoteStore \/ Pg!JobStore PROVE Sound(db')
  <1>1. "remotes" \in RowTables /\ "jobs" \in RowTables
    BY DEF RowTables
  <1>2. CASE Pg!RemoteStore
    BY <1>1, <1>2, PgCalls, PgReads DEF Pg!RemoteStore
  <1>3. CASE Pg!JobStore
    BY <1>1, <1>3, PgCalls, PgReads DEF Pg!JobStore
  <1> QED
    BY <1>2, <1>3

\* A transaction moves on, ends or is given up without touching the tables.
LEMMA PgTransactions ==
    ASSUME Sound(db), NEW c, NEW step
    PROVE  /\ Pg!Begin(c, step) => Sound(db')
           /\ Pg!Step(c, step) => Sound(db')
           /\ Pg!GiveUp(c) => Sound(db')
  BY DEF Pg!Begin, Pg!Step, Pg!GiveUp

\* Batches write the tables of marks and counters only.
LEMMA PgBatches == ASSUME Sound(db), NEW c, Pg!AccessStore(c) \/ Pg!StatsStore(c) \/ Pg!call(c)
                    PROVE  Sound(db')
  <1>1. {"access", "stats"} \subseteq Tables \ Linked
    BY DEF Tables, Linked
  <1>2. ASSUME NEW op, Pg!BeginBatch(c, op) PROVE Sound(db')
    BY <1>2, PgTransactions DEF Pg!BeginBatch
  <1>3. ASSUME Pg!UpsertRow(c) PROVE Sound(db')
    BY <1>3, PgTransactions DEF Pg!UpsertRow
  <1>4. ASSUME Pg!CommitBatch(c) PROVE Sound(db')
    <2>1. Pg!BatchTable(c) \in {"access", "stats"}
      BY DEF Pg!BatchTable
    <2>2. PICK t \in {"access", "stats"} : t = Pg!BatchTable(c)
      BY <2>1
    <2> DEFINE v == [k \in DOMAIN db[t] \cup DOMAIN txn[c].buf |->
                        IF k \in DOMAIN txn[c].buf THEN txn[c].buf[k] ELSE db[t][k]]
    <2>3. db' = [db EXCEPT ![t] = v]
      BY <1>4, <2>2 DEF Pg!CommitBatch
    <2> HIDE DEF v
    <2> QED
      BY <1>1, <2>3, BesideOne
  <1>5. ASSUME Pg!RestartBatch(c) PROVE Sound(db')
    BY <1>5, PgTransactions DEF Pg!RestartBatch
  <1>6. ASSUME NEW op, NEW arg, NEW code,
               Pg!Exec(op, arg, Pg!Out([db EXCEPT !.stats = Pg!NoRows], "none", 0), code)
        PROVE  Sound(db')
    <2>1. db' = [db EXCEPT !["stats"] = Pg!NoRows]
      BY <1>6 DEF Pg!Exec, Pg!Out
    <2> QED
      BY <1>1, <2>1, BesideOne
  <1>7. CASE Pg!AccessStore(c)
    BY <1>2, <1>3, <1>4, <1>7, PgReads DEF Pg!AccessStore
  <1>8. CASE Pg!StatsStore(c)
    BY <1>2, <1>3, <1>4, <1>6, <1>8, PgReads DEF Pg!StatsStore
  <1>9. CASE Pg!call(c)
    BY <1>5, <1>9 DEF Pg!call
  <1> QED
    BY <1>7, <1>8, <1>9

\* Revocations write their own table only.
LEMMA PgRevocations == ASSUME Sound(db), NEW c, Pg!Revocations(c) PROVE Sound(db')
  <1>1. "revs" \in Tables \ Linked
    BY DEF Tables, Linked
  <1>2. ASSUME NEW v, db' = [db EXCEPT !["revs"] = v] PROVE Sound(db')
    BY <1>1, <1>2, BesideOne
  <1>3. CASE db' = [db EXCEPT !.revs = Pg!Drop(@, {j \in DOMAIN @ : @[j] < txn[c].at})]
    BY <1>2, <1>3
  <1>4. CASE db' = [db EXCEPT !.revs = Pg!Put(@, txn[c].jti, txn[c].exp)]
    BY <1>2, <1>4
  <1> QED
    BY <1>3, <1>4, PgTransactions, PgReads DEF Pg!Revocations

\* The object index and the settings.
LEMMA PgIndex == ASSUME Sound(db), Pg!ObjectIndex \/ Pg!Settings PROVE Sound(db')
  <1>1. {"index", "proxy"} \subseteq Tables \ Linked
    BY DEF Tables, Linked
  <1>2. ASSUME NEW t \in {"index", "proxy"}, NEW op, NEW arg, NEW v, NEW code,
               Pg!Exec(op, arg, Pg!Out([db EXCEPT ![t] = v], "none", 1), code)
        PROVE  Sound(db')
    <2>1. db' = [db EXCEPT ![t] = v]
      BY <1>2 DEF Pg!Exec, Pg!Out
    <2> QED
      BY <1>1, <2>1, BesideOne
  <1>3. CASE Pg!ObjectIndex
    BY <1>2, <1>3, PgReads DEF Pg!ObjectIndex
  <1>4. CASE Pg!Settings
    BY <1>2, <1>4, PgReads DEF Pg!Settings
  <1> QED
    BY <1>3, <1>4

\* The audit log.
LEMMA PgAudit == ASSUME Sound(db), NEW c, Pg!AuditLog(c) PROVE Sound(db')
  <1>1. "audit" \in Tables \ Linked
    BY DEF Tables, Linked
  <1>2. ASSUME NEW v, db' = [db EXCEPT !["audit"] = v] PROVE Sound(db')
    BY <1>1, <1>2, BesideOne
  <1>3. CASE db' = [db EXCEPT !.audit = @ \cup {txn[c].id}]
    BY <1>2, <1>3
  <1>4. CASE db' = [db EXCEPT !.seq["audit"] = Pg!NewId("audit")]
    BY <1>4, Spent
  <1> QED
    BY <1>3, <1>4, PgTransactions, PgReads DEF Pg!AuditLog

\* The first user: a row without a parent.
LEMMA PgFirst == ASSUME Sound(db), NEW c, Pg!EnsureFirstUser(c) PROVE Sound(db')
  <1>1. ASSUME db' = [db EXCEPT !.users = Pg!Put(@, Pg!NewId("users"), Pg!UserRow(txn[c].name)),
                                !.seq["users"] = Pg!NewId("users")]
        PROVE  Sound(db')
    <2> DEFINE i == Pg!NewId("users")
               d == [db EXCEPT !["users"] = Put(@, i, UserOf(txn[c].name))]
    <2>1. "users" \in RowTables /\ ~Dangling("users", UserOf(txn[c].name).ref)
      BY DEF RowTables, Dangling
    <2>2. Sound(d)
      BY <2>1, PutSound
    <2>3. db' = [d EXCEPT !.seq["users"] = i]
      <3>1. Pg!Put(db.users, i, Pg!UserRow(txn[c].name)) = Put(db.users, i, UserOf(txn[c].name))
        BY DEF Pg!Put, Put, Pg!UserRow, UserOf
      <3> QED
        BY <1>1, <3>1
    <2> HIDE DEF d, i
    <2> QED
      BY <2>2, <2>3, Spent
  <1> QED
    BY <1>1, PgTransactions DEF Pg!EnsureFirstUser

\* Every call of the driver.
LEMMA PostgresSound == ASSUME Sound(db), NEW c \in Clients, Postgres(c) PROVE Sound(db')
  BY PgFirst, PgUsers, PgRepos, PgPins, PgRemotes, PgAudit, PgIndex,
     PgRevocations, PgBatches
     DEF Postgres, Pg!UserStore, Pg!RepoStore

-----------------------------------------------------------------------------
(* MariaDB *)

\* The statements of the driver are those of SqlTables.
LEMMA MyStatements ==
    ASSUME Sound(db), NEW t \in RowTables, NEW i, NEW row
    PROVE  /\ Sound(My!Insert(t, i, row).db)
           /\ Sound(My!Update(t, i, row).db)
           /\ Sound(My!Delete(t, i).db)
  <1>1. My!Insert(t, i, row) = Insert(t, i, row)
    BY DEF My!Insert, Insert, My!Taken, Taken, My!Dangling, Dangling, My!Out, Out,
           My!Put, Put
  <1>2. My!Update(t, i, row) = Update(t, i, row)
    BY DEF My!Update, Update, My!Taken, Taken, My!Dangling, Dangling, My!Out, Out,
           My!Put, Put
  <1>3. My!Delete(t, i) = Delete(t, i)
    BY DEF My!Delete, Delete, My!Cascade, Cascade, My!Naming, Naming, My!Out, Out,
           My!Drop, Drop
  <1> QED
    BY <1>1, <1>2, <1>3, InsertSound, UpdateSound, DeleteSound

\* Permissions and pins.
LEMMA MyPairs ==
    ASSUME Sound(db), NEW t \in {"perms", "pins"}, NEW r, NEW x
    PROVE  Sound(My!InsertPair(t, r, x).db) /\ Sound(My!DeletePair(t, r, x).db)
  <1>1. My!InsertPair(t, r, x) = InsertPair(t, r, x)
    BY DEF My!InsertPair, InsertPair, My!Out, Out
  <1>2. My!DeletePair(t, r, x) = DeletePair(t, r, x)
    BY DEF My!DeletePair, DeletePair, My!Out, Out
  <1> QED
    BY <1>1, <1>2, InsertPairSound, DeletePairSound

\* Calls of one statement.
LEMMA MyCalls ==
    ASSUME Sound(db), NEW t \in RowTables, NEW op, NEW i, NEW row
    PROVE  /\ My!Create(op, t, row) => Sound(db')
           /\ My!Change(op, t, i, row) => Sound(db')
           /\ My!Remove(op, t, i) => Sound(db')
  <1>1. ASSUME My!Create(op, t, row) PROVE Sound(db')
    <2> DEFINE n == My!NewId(t)
               d == My!Insert(t, n, row).db
    <2>1. db' = [d EXCEPT !.seq[t] = n]
      BY <1>1 DEF My!Create
    <2>2. Sound(d)
      BY MyStatements
    <2> HIDE DEF d, n
    <2> QED
      BY <2>1, <2>2, Spent
  <1>2. /\ My!Change(op, t, i, row) => Sound(db')
        /\ My!Remove(op, t, i) => Sound(db')
    BY MyStatements DEF My!Change, My!Remove, My!Exec
  <1> QED
    BY <1>1, <1>2

\* Reads.
LEMMA MyReads ==
    ASSUME Sound(db), NEW op, NEW arg, NEW rows
    PROVE  /\ My!Select(op, arg, rows) => Sound(db')
           /\ My!SelectOne(op, arg, rows) => Sound(db')
  BY DEF My!Select, My!SelectOne

\* Users and tokens.
LEMMA MyUsers == ASSUME Sound(db), My!UserStore \/ My!TokenStore PROVE Sound(db')
  <1>1. "users" \in RowTables /\ "tokens" \in RowTables
    BY DEF RowTables
  <1>2. CASE My!UserStore
    BY <1>1, <1>2, MyCalls, MyReads DEF My!UserStore, My!CreateUser, My!DeleteUser
  <1>3. CASE My!TokenStore
    <2>1. ASSUME NEW i, My!Exec("RevokeToken", i,
                   IF i \in DOMAIN db.tokens
                   THEN My!Update("tokens", i, [db.tokens[i] EXCEPT !.val = "revoked"])
                   ELSE My!Out(db, "none", 0),
                   My!requireAffected(IF i \in DOMAIN db.tokens
                   THEN My!Update("tokens", i, [db.tokens[i] EXCEPT !.val = "revoked"])
                   ELSE My!Out(db, "none", 0)))
          PROVE  Sound(db')
      BY <1>1, <2>1, MyStatements DEF My!Exec, My!Out
    <2>2. ASSUME NEW i, My!Exec("TouchToken", i, My!Out(db, "none", 0), "ok") PROVE Sound(db')
      BY <2>2 DEF My!Exec, My!Out
    <2> QED
      BY <1>1, <1>3, <2>1, <2>2, MyCalls, MyReads DEF My!TokenStore
  <1> QED
    BY <1>2, <1>3

\* Repositories and permissions.
LEMMA MyRepos == ASSUME Sound(db), My!RepoStore \/ My!Perms PROVE Sound(db')
  <1>1. "repos" \in RowTables
    BY DEF RowTables
  <1>2. CASE My!RepoStore
    BY <1>1, <1>2, MyCalls, MyReads DEF My!RepoStore, My!CreateRepo, My!DeleteRepo
  <1>3. CASE My!Perms
    BY <1>3, MyPairs, MyReads DEF My!Perms, My!Exec
  <1> QED
    BY <1>2, <1>3

\* Pins.
LEMMA MyPins == ASSUME Sound(db), My!PinStore PROVE Sound(db')
  BY MyPairs, MyReads DEF My!PinStore, My!Exec, My!Out

\* Remotes and jobs.
LEMMA MyRemotes == ASSUME Sound(db), My!RemoteStore \/ My!JobStore PROVE Sound(db')
  <1>1. "remotes" \in RowTables /\ "jobs" \in RowTables
    BY DEF RowTables
  <1>2. CASE My!RemoteStore
    BY <1>1, <1>2, MyCalls, MyReads DEF My!RemoteStore
  <1>3. CASE My!JobStore
    BY <1>1, <1>3, MyCalls, MyReads DEF My!JobStore
  <1> QED
    BY <1>2, <1>3

\* A transaction moves on, ends or is given up without touching the tables.
LEMMA MyTransactions ==
    ASSUME Sound(db), NEW c, NEW step
    PROVE  /\ My!Begin(c, step) => Sound(db')
           /\ My!Step(c, step) => Sound(db')
           /\ My!GiveUp(c) => Sound(db')
  BY DEF My!Begin, My!Step, My!GiveUp

\* Batches write the tables of marks and counters only.
LEMMA MyBatches == ASSUME Sound(db), NEW c, My!AccessStore(c) \/ My!StatsStore(c) \/ My!call(c)
                    PROVE  Sound(db')
  <1>1. {"access", "stats"} \subseteq Tables \ Linked
    BY DEF Tables, Linked
  <1>2. ASSUME NEW op, My!BeginBatch(c, op) PROVE Sound(db')
    BY <1>2, MyTransactions DEF My!BeginBatch
  <1>3. ASSUME My!UpsertRow(c) PROVE Sound(db')
    BY <1>3, MyTransactions DEF My!UpsertRow
  <1>4. ASSUME My!CommitBatch(c) PROVE Sound(db')
    <2>1. My!BatchTable(c) \in {"access", "stats"}
      BY DEF My!BatchTable
    <2>2. PICK t \in {"access", "stats"} : t = My!BatchTable(c)
      BY <2>1
    <2> DEFINE v == [k \in DOMAIN db[t] \cup DOMAIN txn[c].buf |->
                        IF k \in DOMAIN txn[c].buf THEN txn[c].buf[k] ELSE db[t][k]]
    <2>3. db' = [db EXCEPT ![t] = v]
      BY <1>4, <2>2 DEF My!CommitBatch
    <2> HIDE DEF v
    <2> QED
      BY <1>1, <2>3, BesideOne
  <1>5. ASSUME My!RestartBatch(c) PROVE Sound(db')
    BY <1>5, MyTransactions DEF My!RestartBatch
  <1>6. ASSUME NEW op, NEW arg, NEW code,
               My!Exec(op, arg, My!Out([db EXCEPT !.stats = My!NoRows], "none", 0), code)
        PROVE  Sound(db')
    <2>1. db' = [db EXCEPT !["stats"] = My!NoRows]
      BY <1>6 DEF My!Exec, My!Out
    <2> QED
      BY <1>1, <2>1, BesideOne
  <1>7. CASE My!AccessStore(c)
    BY <1>2, <1>3, <1>4, <1>7, MyReads DEF My!AccessStore, My!Return
  <1>8. CASE My!StatsStore(c)
    BY <1>2, <1>3, <1>4, <1>6, <1>8, MyReads DEF My!StatsStore
  <1>9. CASE My!call(c)
    BY <1>5, <1>9 DEF My!call
  <1> QED
    BY <1>7, <1>8, <1>9

\* Revocations write their own table only.
LEMMA MyRevocations == ASSUME Sound(db), NEW c, My!Revocations(c) PROVE Sound(db')
  <1>1. "revs" \in Tables \ Linked
    BY DEF Tables, Linked
  <1>2. ASSUME NEW v, db' = [db EXCEPT !["revs"] = v] PROVE Sound(db')
    BY <1>1, <1>2, BesideOne
  <1>3. CASE db' = [db EXCEPT !.revs = My!Drop(@, {j \in DOMAIN @ : @[j] < txn[c].at})]
    BY <1>2, <1>3
  <1>4. CASE db' = [db EXCEPT !.revs = My!Put(@, txn[c].jti, txn[c].exp)]
    BY <1>2, <1>4
  <1> QED
    BY <1>3, <1>4, MyTransactions, MyReads DEF My!Revocations

\* The object index and the settings.
LEMMA MyIndex == ASSUME Sound(db), My!ObjectIndex \/ My!Settings PROVE Sound(db')
  <1>1. {"index", "proxy"} \subseteq Tables \ Linked
    BY DEF Tables, Linked
  <1>2. ASSUME NEW t \in {"index", "proxy"}, NEW op, NEW arg, NEW v, NEW code,
               My!Exec(op, arg, My!Out([db EXCEPT ![t] = v], "none", 1), code)
        PROVE  Sound(db')
    <2>1. db' = [db EXCEPT ![t] = v]
      BY <1>2 DEF My!Exec, My!Out
    <2> QED
      BY <1>1, <2>1, BesideOne
  <1>3. CASE My!ObjectIndex
    BY <1>2, <1>3, MyReads DEF My!ObjectIndex
  <1>4. CASE My!Settings
    BY <1>2, <1>4, MyReads DEF My!Settings
  <1> QED
    BY <1>3, <1>4

\* The audit log.
LEMMA MyAudit == ASSUME Sound(db), NEW c, My!AuditLog(c) PROVE Sound(db')
  <1>1. "audit" \in Tables \ Linked
    BY DEF Tables, Linked
  <1>2. ASSUME NEW v, db' = [db EXCEPT !["audit"] = v] PROVE Sound(db')
    BY <1>1, <1>2, BesideOne
  <1>3. CASE db' = [db EXCEPT !.audit = @ \cup {txn[c].id}]
    BY <1>2, <1>3
  <1>4. CASE db' = [db EXCEPT !.seq["audit"] = My!NewId("audit")]
    BY <1>4, Spent
  <1> QED
    BY <1>3, <1>4, MyTransactions, MyReads DEF My!AuditLog

\* The first user: a row without a parent.
LEMMA MyFirst == ASSUME Sound(db), NEW c, My!EnsureFirstUser(c) PROVE Sound(db')
  <1>1. ASSUME db' = [db EXCEPT !.users = My!Put(@, My!NewId("users"), My!UserRow(txn[c].name)),
                                !.seq["users"] = My!NewId("users")]
        PROVE  Sound(db')
    <2> DEFINE i == My!NewId("users")
               d == [db EXCEPT !["users"] = Put(@, i, UserOf(txn[c].name))]
    <2>1. "users" \in RowTables /\ ~Dangling("users", UserOf(txn[c].name).ref)
      BY DEF RowTables, Dangling
    <2>2. Sound(d)
      BY <2>1, PutSound
    <2>3. db' = [d EXCEPT !.seq["users"] = i]
      <3>1. My!Put(db.users, i, My!UserRow(txn[c].name)) = Put(db.users, i, UserOf(txn[c].name))
        BY DEF My!Put, Put, My!UserRow, UserOf
      <3> QED
        BY <1>1, <3>1
    <2> HIDE DEF d, i
    <2> QED
      BY <2>2, <2>3, Spent
  <1>2. ASSUME db' = db PROVE Sound(db')
    BY <1>2
  <1> QED
    BY <1>1, <1>2, MyTransactions DEF My!EnsureFirstUser

\* Every call of the driver.
LEMMA MariadbSound == ASSUME Sound(db), NEW c \in Clients, Mariadb(c) PROVE Sound(db')
  BY MyFirst, MyUsers, MyRepos, MyPins, MyRemotes, MyAudit, MyIndex,
     MyRevocations, MyBatches
     DEF Mariadb, My!UserStore, My!RepoStore

-----------------------------------------------------------------------------
(* All drivers *)

\* A step of any driver but the fakes.
LEMMA DriverSound ==
    ASSUME driver # "fake" => Sound(db), [Next]_vars
    PROVE  (driver # "fake" => Sound(db))'
  <1>1. driver' = driver
    BY DEF Next, vars
  <1> SUFFICES ASSUME driver # "fake" PROVE Sound(db')
    BY <1>1
  <1>2. CASE UNCHANGED vars
    BY <1>2 DEF vars
  <1>3. CASE \E c \in Clients : Sqlite(c) \/ Postgres(c) \/ Mariadb(c)
    BY <1>3, SqliteSound, PostgresSound, MariadbSound
  <1>4. CASE Unavailable \/ Collect \/ Tick
    BY <1>4 DEF Unavailable, Collect, Tick
  <1> QED
    BY <1>2, <1>3, <1>4 DEF Next

\* On every SQL driver, whatever calls are interleaved, retried or given up:
\* a token and a repository name a user that is there, a job a remote, a
\* permission and a pin a repository.
THEOREM ReferencesHold == Spec => []ReferencesResolve
  <1> DEFINE Inv == driver # "fake" => Sound(db)
  <1>1. Init => Inv
    <2> SUFFICES ASSUME Init PROVE Sound(db)
      OBVIOUS
    <2>1. db = EmptyDb
      BY DEF Init, SqlInit
    <2>2. Whole(EmptyDb)
      BY DEF Whole, EmptyDb, Tables
    <2>3. Resolves(EmptyDb)
      BY DEF Resolves, EmptyDb, NoRows
    <2> QED
      BY <2>1, <2>2, <2>3 DEF Sound
  <1>2. Inv /\ [Next]_vars => Inv'
    BY DriverSound
  <1>3. Inv => ReferencesResolve
    BY DEF Sound, ReferencesResolve
  <1> HIDE DEF Inv
  <1> QED
    BY <1>1, <1>2, <1>3, PTL DEF Spec
=============================================================================
