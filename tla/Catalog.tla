-------------------------------- MODULE Catalog --------------------------------
(***************************************************************************)
(* What the catalogue promises to the engines (port/catalog.go, checked    *)
(* against every driver by the suites of internal/contract/catalog.go):    *)
(* each operation takes effect at once or not at all, a name in use and a  *)
(* missing parent are conflicts, a missing row is NotFound, and an answer  *)
(* that is an error says nothing about the effect.                         *)
(*                                                                         *)
(* Tables are sets of rows <<id, uniq, ref, val>>.  References are checked *)
(* when refs is TRUE; the in-memory fakes keep none.                       *)
(***************************************************************************)
EXTENDS Integers, FiniteSets, Sequences

CONSTANTS Names, Keys, Ids, Times, Batches

VARIABLES
    cat,     \* the tables as a reader sees them
    clock,
    reply,   \* the last answer
    refs     \* whether references between tables are kept

catVars == <<cat, clock, reply, refs>>

Error == <<"call", 0, "error", {}>>
Quiet == <<"none", 0, "ok", {}>>
Nobody == [ users |-> {}, tokens |-> {}, repos |-> {}, remotes |-> {}, jobs |-> {},
            perms |-> {}, pins |-> {}, audit |-> {}, index |-> {}, revoked |-> {},
            access |-> {}, stats |-> {}, proxy |-> "direct" ]
CatInit == cat = Nobody /\ clock = 0 /\ reply = Quiet

Becomes(c) == cat' = c /\ UNCHANGED <<clock, refs>>
Says(op, arg, code, rows) == reply' = <<op, arg, code, rows>> \/ reply' = Error
Reads(op, arg, code, rows) == Says(op, arg, code, rows) /\ UNCHANGED <<cat, clock, refs>>

Has(t, i) == \E r \in cat[t] : r[1] = i
Uses(t, n, but) == \E r \in cat[t] : r[2] = n /\ r[1] # but
At(t, i) == {r \in cat[t] : r[1] = i}
\* A parent is missing: of a token or a repository the user, of a job the remote.
Orphan(t, p) ==
    refs /\ \/ t \in {"tokens", "repos"} /\ ~Has("users", p)
            \/ t = "jobs" /\ ~Has("remotes", p)

Creates(op, t, row) ==
    LET bad == (t # "jobs" /\ Uses(t, row.uniq, 0)) \/ Orphan(t, row.ref) IN
    \/ Says(op, row, "conflict", {}) /\ bad /\ Becomes(cat)
    \/ \E i \in Ids : /\ Says(op, row, "ok", {i})
                      /\ ~bad /\ ~Has(t, i)
                      /\ Becomes([cat EXCEPT ![t] = @ \cup {<<i, row.uniq, row.ref, row.val>>}])

Changes(op, t, i, row) ==
    LET bad == (t # "jobs" /\ Uses(t, row.uniq, i)) \/ Orphan(t, row.ref) IN
    \/ Says(op, <<i, row>>, "notfound", {}) /\ ~Has(t, i) /\ Becomes(cat)
    \/ Says(op, <<i, row>>, "conflict", {}) /\ Has(t, i) /\ bad /\ Becomes(cat)
    \/ /\ Says(op, <<i, row>>, "ok", {})
       /\ Has(t, i) /\ ~bad
       /\ Becomes([cat EXCEPT ![t] = (@ \ At(t, i)) \cup {<<i, row.uniq, row.ref, row.val>>}])

Deletes(op, t, i, after) ==
    \/ Says(op, i, "notfound", {}) /\ ~Has(t, i) /\ Becomes(cat)
    \/ Says(op, i, "ok", {}) /\ Has(t, i) /\ Becomes(after)

Finds(op, arg, rows) == Reads(op, arg, IF rows = {} THEN "notfound" ELSE "ok", rows)

-----------------------------------------------------------------------------
User(n) == [uniq |-> n, ref |-> 0, val |-> "plain"]

\* A user with repositories cannot go; the tokens and the permissions of a
\* user that goes, go along.
DeletesUser(i) ==
    LET owns == \E r \in cat.repos : r[3] = i IN
    \/ Says("DeleteUser", i, "conflict", {}) /\ Has("users", i) /\ owns /\ refs /\ Becomes(cat)
    \/ /\ ~(Has("users", i) /\ owns /\ refs)
       /\ Deletes("DeleteUser", "users", i,
             [cat EXCEPT !.users = @ \ At("users", i),
                         !.tokens = {r \in @ : refs => r[3] # i},
                         !.perms = {p \in @ : refs => p[2] # i}])

userSuite ==
    \/ \E n \in Names : Creates("CreateUser", "users", User(n))
    \/ \E i \in Ids, n \in Names : Changes("UpdateUser", "users", i, User(n))
    \/ \E i \in Ids : DeletesUser(i)
    \/ \E i \in Ids : Finds("User", i, At("users", i))
    \/ \E n \in Names : Finds("UserByUsername", n, {r \in cat.users : r[2] = n})
    \/ Reads("Users", 0, "ok", cat.users)

\* Of the callers that meet an empty table exactly one creates; the others are
\* told that they did not, without an error.
firstUserAtomicSuite ==
    \E n \in Names :
        \/ \E i \in Ids : /\ Says("EnsureFirstUser", n, "ok", {i})
                          /\ cat.users = {}
                          /\ Becomes([cat EXCEPT !.users = {<<i, n, 0, "plain">>}])
        \/ Reads("EnsureFirstUser", n, "ok", {}) /\ cat.users # {}

tokenSuite ==
    \/ \E n \in Names, u \in Ids : Creates("CreateToken", "tokens", [uniq |-> n, ref |-> u, val |-> "live"])
    \/ \E i \in Ids : Deletes("DeleteToken", "tokens", i, [cat EXCEPT !.tokens = @ \ At("tokens", i)])
    \/ \E i \in Ids : Deletes("RevokeToken", "tokens", i,
           [cat EXCEPT !.tokens = {IF r[1] = i THEN <<i, r[2], r[3], "revoked">> ELSE r : r \in @}])
    \/ \E i \in Ids : Reads("TouchToken", i, "ok", {})
    \/ \E n \in Names : Finds("TokenBySHA256", n, {r \in cat.tokens : r[2] = n})
    \/ \E u \in Ids : Reads("TokensByUser", u, "ok", {r \in cat.tokens : r[3] = u})

\* A second grant is a conflict and a second revocation NotFound; without
\* references both are accepted.
repoSuite ==
    \/ \E n \in Names, u \in Ids : Creates("CreateRepo", "repos", [uniq |-> n, ref |-> u, val |-> "plain"])
    \/ \E i \in Ids, n \in Names, u \in Ids : Changes("UpdateRepo", "repos", i, [uniq |-> n, ref |-> u, val |-> "kept"])
    \/ \E i \in Ids : Deletes("DeleteRepo", "repos", i,
           [cat EXCEPT !.repos = @ \ At("repos", i), !.perms = {p \in @ : p[1] # i},
                       !.pins = {p \in @ : refs => p[1] # i}])
    \/ \E r \in Ids, u \in Ids :
           LET bad == refs /\ (<<r, u>> \in cat.perms \/ ~Has("repos", r) \/ ~Has("users", u)) IN
           /\ Says("Grant", <<r, u>>, IF bad THEN "conflict" ELSE "ok", {})
           /\ Becomes(IF bad THEN cat ELSE [cat EXCEPT !.perms = @ \cup {<<r, u>>}])
    \/ \E r \in Ids, u \in Ids :
           /\ Says("Revoke", <<r, u>>, IF refs /\ <<r, u>> \notin cat.perms THEN "notfound" ELSE "ok", {})
           /\ Becomes([cat EXCEPT !.perms = @ \ {<<r, u>>}])
    \/ \E n \in Names : Finds("RepoByName", n, {r \in cat.repos : r[2] = n})
    \/ \E r \in Ids : Reads("Perms", r, "ok", {p \in cat.perms : p[1] = r})

\* Pinning and unpinning are idempotent; a pin of a repository that is not
\* there is a conflict.
pinSuite ==
    \/ \E r \in Ids, k \in Keys :
           LET bad == refs /\ ~Has("repos", r) IN
           /\ Says("SetPin", <<r, k>>, IF bad THEN "conflict" ELSE "ok", {})
           /\ Becomes(IF bad THEN cat ELSE [cat EXCEPT !.pins = @ \cup {<<r, k>>}])
    \/ \E r \in Ids, k \in Keys :
           Says("UnsetPin", <<r, k>>, "ok", {}) /\ Becomes([cat EXCEPT !.pins = @ \ {<<r, k>>}])
    \/ \E r \in Ids : Reads("Pins", r, "ok", {p \in cat.pins : p[1] = r})

\* No policy and a policy of zeroes stay apart.
remoteSuite ==
    \/ \E n \in Names, v \in {"inherit", "off"} : Creates("CreateRemote", "remotes", [uniq |-> n, ref |-> 0, val |-> v])
    \/ \E i \in Ids, n \in Names, v \in {"inherit", "off"} :
           Changes("UpdateRemote", "remotes", i, [uniq |-> n, ref |-> 0, val |-> v])
    \/ \E i \in Ids : Deletes("DeleteRemote", "remotes", i,
           [cat EXCEPT !.remotes = @ \ At("remotes", i), !.jobs = {r \in @ : refs => r[3] # i}])
    \/ \E i \in Ids : Finds("Remote", i, At("remotes", i))

Job(r, s) == [uniq |-> 0, ref |-> r, val |-> s]
jobSuite ==
    \/ \E r \in Ids : Creates("CreateJob", "jobs", Job(r, "pending"))
    \/ \E i \in Ids, r \in Ids, s \in {"pending", "running"} : Changes("UpdateJob", "jobs", i, Job(r, s))
    \/ \E i \in Ids : Deletes("DeleteJob", "jobs", i, [cat EXCEPT !.jobs = @ \ At("jobs", i)])
    \/ \E i \in Ids : Finds("Job", i, At("jobs", i))

\* JobByRemote: one of the jobs of the remote, NotFound when it has none.
jobByRemoteSuite ==
    \E r \in Ids :
        LET js == {j \in cat.jobs : j[3] = r} IN
        \/ js = {} /\ Finds("JobByRemote", r, {})
        \/ \E j \in js : Finds("JobByRemote", r, {j})

\* A page is the next entry after the last one seen.
auditSuite ==
    \/ \E i \in Ids \ cat.audit : Says("Record", 0, "ok", {}) /\ Becomes([cat EXCEPT !.audit = @ \cup {i}])
    \/ \E after \in {0} \cup Ids :
           Reads("AuditEntries", after, "ok", {i \in cat.audit : i > after /\ \A j \in cat.audit : j > after => i <= j})

\* The row is one of the versions written, whole.
objectIndexSuite ==
    \/ \E k \in Keys, v \in {"v1", "v2"} :
           /\ Says("PutObjectMeta", <<k, v>>, "ok", {})
           /\ Becomes([cat EXCEPT !.index = {r \in @ : r[1] # k} \cup {<<k, v>>}])
    \/ \E k \in Keys : /\ Says("DeleteObjectMeta", k, "ok", {})
                       /\ Becomes([cat EXCEPT !.index = {r \in @ : r[1] # k}])
    \/ \E k \in Keys : Finds("ObjectMeta", k, {r \in cat.index : r[1] = k})
    \/ Reads("ForEachObjectMeta", 0, "ok", cat.index)

\* A revocation is in force through its expiry.
revocationsSuite ==
    \/ \E j \in Names, e \in Times :
           /\ Says("InsertRevocation", <<j, e>>, "ok", {})
           /\ Becomes([cat EXCEPT !.revoked = {r \in @ : r[1] # j} \cup {x \in {<<j, e>>} : e >= clock}])
    \/ \E j \in Names : Reads("IsRevoked", j, "ok", {x \in {r[1] : r \in cat.revoked} : x = j})

\* The rows of the slice added to the table, in the order of the slice: the
\* latest time and the sum of the hits.
Mark(T, k) == IF \E r \in T : r[1] = k THEN CHOOSE r \in T : r[1] = k ELSE <<k, 0, 0>>
Add(T, r) ==
    LET old == Mark(T, r.key) IN
    (T \ {old}) \cup {<<r.key, IF r.at > old[2] THEN r.at ELSE old[2], old[3] + 1>>}
AddAll(T, b) ==
    LET f[n \in 0 .. Len(b)] == IF n = 0 THEN T ELSE Add(f[n - 1], b[n]) IN f[Len(b)]

accessMergeSuite ==
    \/ \E b \in Batches : /\ Says("MergeAccess", b, "ok", {})
                          /\ Becomes([cat EXCEPT !.access = AddAll(@, b)])
    \/ Reads("AccessByPrefix", 0, "ok", cat.access)
    \/ \E k \in Keys : Finds("AccessEntry", k, {r \in cat.access : r[1] = k})

\* A snapshot overwrites the rows it names, all of them at once.
LastOf(b, k) == b[CHOOSE n \in 1 .. Len(b) : b[n].key = k /\ \A x \in n + 1 .. Len(b) : b[x].key # k].at
statsSnapshotSuite ==
    \/ \E b \in Batches :
           LET ks == {b[n].key : n \in 1 .. Len(b)} IN
           /\ Says("SaveStatsSnapshot", b, "ok", {})
           /\ Becomes([cat EXCEPT !.stats = {r \in @ : r[1] \notin ks} \cup {<<k, LastOf(b, k)>> : k \in ks}])
    \/ Says("ResetStats", 0, "ok", {}) /\ Becomes([cat EXCEPT !.stats = {}])
    \/ Reads("StatsSnapshot", 0, "ok", cat.stats)

settingsSuite ==
    \/ \E v \in {"direct", "proxy"} : Says("SetUpstreamProxy", v, "ok", {}) /\ Becomes([cat EXCEPT !.proxy = v])
    \/ Reads("UpstreamProxy", 0, "ok", {cat.proxy})

Passes == /\ clock' = clock + 1
          /\ cat' = [cat EXCEPT !.revoked = {r \in @ : r[2] >= clock'}]
          /\ UNCHANGED <<reply, refs>>

CatNext ==
    \/ userSuite \/ firstUserAtomicSuite \/ tokenSuite \/ repoSuite \/ pinSuite
    \/ remoteSuite \/ jobSuite \/ jobByRemoteSuite \/ auditSuite \/ objectIndexSuite
    \/ revocationsSuite \/ accessMergeSuite \/ statsSnapshotSuite \/ settingsSuite
    \/ Passes
    \/ reply' \in {Error, Quiet} /\ UNCHANGED <<cat, clock, refs>>

CatSpec == CatInit /\ [][CatNext]_catVars
=============================================================================
