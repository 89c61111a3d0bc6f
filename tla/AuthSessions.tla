----------------------------- MODULE AuthSessions -----------------------------
(***************************************************************************)
(* Authentication (core/engine/auth, core/web/middleware): the sessions    *)
(* and the API tokens of one account.                                      *)
(*                                                                         *)
(* A session is a signed token: it names the version of the account's row  *)
(* that it was issued from, and nothing on the server holds it.  It ends   *)
(* by its time, by a logout (a row of revoked_sessions and an entry in     *)
(* memory), or by a change of the row that raises the version.  Every      *)
(* request reads the row, the memory and the table in separate steps, and  *)
(* the changes of the row are a read and a later write of the whole row,   *)
(* without a lock.                                                         *)
(***************************************************************************)
EXTENDS Integers, FiniteSets

CONSTANTS
    Jtis,          \* identifiers of sessions
    Toks,          \* API tokens
    Requests,      \* HTTP requests in progress
    Passwords,
    NoPassword,    \* where there is none
    TTL,           \* auth.session_ttl
    TouchInterval, \* auth.touch_interval, 0: every request
    MaxMem,        \* maxRevokedMemory
    MaxTouch,      \* maxTouchMemory
    MaxCalls,      \* bound: requests in all
    MaxClock,      \* bound: time
    MaxVersion,    \* bound: changes of the row
    MaxFaults      \* bound: failures of the catalogue and restarts

ASSUME AuthAssumption ==
    /\ NoPassword \notin Passwords /\ Jtis \cap Toks = {}
    /\ TTL \in Nat \ {0} /\ TouchInterval \in Nat
    /\ MaxMem \in Nat \ {0} /\ MaxTouch \in Nat \ {0}
    /\ MaxCalls \in Nat /\ MaxClock \in Nat /\ MaxVersion \in Nat /\ MaxFaults \in Nat

VARIABLES
    clock,
    user,      \* the row of the account
    sess,      \* sessions handed out
    revoked,   \* revoked_sessions: expires_at, 0 for no row
    mem,       \* the revocations in memory
    tok,       \* api_tokens
    lastTouch, \* when last_used was written, 0 for no entry
    req,       \* the requests
    calls,     \* the requests so far
    faults,
    ended,     \* history: sessions and tokens whose revocation was acknowledged
    tried,     \* history: sessions whose revocation was attempted
    overlap    \* history: a row was written over one that had not been read

vars == <<clock, user, sess, revoked, mem, tok, lastTouch, req, calls, faults, ended, tried, overlap>>
hist == <<ended, tried, overlap>>

\* gen counts the writes of the row (history): a stale write may repeat ver.
NoUser == [st |-> "none", pw |-> NoPassword, role |-> "user", ver |-> 0, gen |-> 0]
NoSession == [ver |-> 0, exp |-> 0, gen |-> 0]
NoToken == [st |-> "none", exp |-> 0, scope |-> "repo"]
Idle == [pc |-> "idle", op |-> "none", cred |-> "none", row |-> NoUser, pw |-> NoPassword,
         new |-> NoPassword, ok |-> TRUE, until |-> 0, was |-> FALSE, seen |-> 0]

Live == user.st = "live"
Issued(j) == sess[j].exp > 0
\* History: the credential had been ended when the request came in.
Over(c) == c \in ended \/ user.st = "deleted"

Init ==
    /\ clock = 1 /\ user = NoUser /\ sess = [j \in Jtis |-> NoSession]
    /\ revoked = [j \in Jtis |-> 0] /\ mem = [j \in Jtis |-> 0]
    /\ tok = [t \in Toks |-> NoToken] /\ lastTouch = [t \in Toks |-> 0]
    /\ req = [r \in Requests |-> Idle]
    /\ calls = 0 /\ faults = 0 /\ ended = {} /\ tried = {} /\ overlap = FALSE

-----------------------------------------------------------------------------
Store == <<user, sess, revoked, tok>>
Memory == <<mem, lastTouch>>

At(r, pc) == req[r].pc = pc
Become(r, f) == req' = [req EXCEPT ![r] = f]
Go(r, pc) == Become(r, [req[r] EXCEPT !.pc = pc])

\* The answer: 2xx, 401, 503 and the other errors.
Reply(r, code) == Become(r, [Idle EXCEPT !.pc = code, !.op = req[r].op, !.cred = req[r].cred])
Codes == {"ok", "unauthorized", "unavailable", "error"}

\* A call of the catalogue fails; nothing else changes.
StoreFails(r, code) ==
    /\ faults < MaxFaults /\ faults' = faults + 1
    /\ Reply(r, code)

\* Mutant: every error of the catalogue is a refusal.
ErrorsRefuse(r) == StoreFails(r, "unauthorized")

\* authStoreError, authReject: an error of the catalogue is 503, not 401.
authStoreError(r) == StoreFails(r, "unavailable")

Tick == clock < MaxClock /\ clock' = clock + 1 /\ UNCHANGED <<Store, Memory, req, faults, hist>>

\* The response has been written; the request is forgotten.
Finish(r) ==
    /\ req[r].pc \in Codes
    /\ Become(r, Idle)
    /\ UNCHANGED <<clock, Store, Memory, faults, hist>>

-----------------------------------------------------------------------------
(* Requests with a session: RequireSession                                 *)

SessionOps == {"use", "logout", "change"}

\* ValidateSession parses the token; the time is checked here and only here.
Parse(r, j, op, old, new) ==
    /\ At(r, "idle") /\ Issued(j)
    /\ Become(r, [Idle EXCEPT !.pc = IF clock < sess[j].exp THEN "user" ELSE "unauthorized",
                              !.op = op, !.cred = j, !.pw = old, !.new = new,
                              !.was = Over(j), !.seen = user.gen])
    /\ UNCHANGED <<clock, Store, Memory, faults, hist>>

\* The row of the user: absent or of another version is 401.
LoadUser(r) ==
    /\ At(r, "user")
    /\ \/ authStoreError(r)
       \/ /\ IF Live /\ user.ver = sess[req[r].cred].ver THEN Go(r, "memory") ELSE Reply(r, "unauthorized")
          /\ UNCHANGED faults
    /\ UNCHANGED <<clock, Store, Memory, hist>>

\* revokedInMemory: an entry that has run out is dropped.
revokedInMemory(r) ==
    LET j == req[r].cred IN
    /\ At(r, "memory")
    /\ IF clock < mem[j] THEN Reply(r, "unauthorized") ELSE Go(r, "table")
    /\ mem' = IF clock < mem[j] THEN mem ELSE [mem EXCEPT ![j] = 0]
    /\ UNCHANGED <<clock, Store, lastTouch, faults, hist>>

\* The handler that a validated request enters.
Handler(op) == CASE op = "use" -> "accepted" [] op = "logout" -> "insert" [] op = "change" -> "read"

IsRevoked(j) == revoked[j] > 0 /\ revoked[j] >= clock

CheckRevoked(r) ==
    /\ At(r, "table")
    /\ \/ authStoreError(r)
       \/ /\ IF IsRevoked(req[r].cred) THEN Reply(r, "unauthorized") ELSE Go(r, Handler(req[r].op))
          /\ UNCHANGED faults
    /\ UNCHANGED <<clock, Store, Memory, hist>>

Served(r) ==
    /\ At(r, "accepted") /\ Reply(r, "ok")
    /\ UNCHANGED <<clock, Store, Memory, faults, hist>>

-----------------------------------------------------------------------------
(* Logout                                                                  *)

\* Mutant: the logout is kept in memory only.
InsertedNothing(j) == revoked

\* InsertRevocation: the rows that have run out go, the new one comes.
Inserted(j) == [k \in Jtis |-> IF k = j THEN clock + TTL
                               ELSE IF revoked[k] < clock THEN 0 ELSE revoked[k]]

\* An error may come after the row was written.
RevokeSession(r) ==
    LET j == req[r].cred IN
    /\ At(r, "insert")
    /\ \E done \in BOOLEAN, ok \in BOOLEAN :
          /\ ok => done
          /\ ok \/ faults < MaxFaults
          /\ faults' = IF ok THEN faults ELSE faults + 1
          /\ revoked' = IF done THEN Inserted(j) ELSE revoked
          /\ Become(r, [req[r] EXCEPT !.pc = "remember", !.ok = ok, !.until = clock + TTL])
    /\ tried' = tried \cup {j}
    /\ UNCHANGED <<clock, user, sess, tok, Memory, ended, overlap>>

\* rememberRevoked: entries that have run out go, then arbitrary ones.
Kept ==
    LET alive == {k \in Jtis : clock < mem[k]}
    IN  IF Cardinality(alive) < MaxMem THEN {alive}
        ELSE {K \in SUBSET alive : Cardinality(K) = MaxMem - 1}

\* The memory is written in either case; only then the error is returned.
rememberRevoked(r) ==
    LET j == req[r].cred IN
    /\ At(r, "remember")
    /\ \E K \in Kept :
          mem' = [k \in Jtis |-> IF k = j THEN req[r].until ELSE IF k \in K THEN mem[k] ELSE 0]
    /\ Reply(r, IF req[r].ok THEN "ok" ELSE "unavailable")
    /\ ended' = IF req[r].ok THEN ended \cup {j} ELSE ended
    /\ UNCHANGED <<clock, Store, lastTouch, faults, tried, overlap>>

-----------------------------------------------------------------------------
(* Login                                                                   *)

\* IssueSession: a fresh jti, the version of the given row.
IssueSession(row) ==
    \E j \in Jtis :
       /\ ~Issued(j)
       /\ sess' = [sess EXCEPT ![j] = [ver |-> row.ver, exp |-> clock + TTL, gen |-> row.gen]]

BeginLogin(r, pw) ==
    /\ At(r, "idle") /\ user.st # "none"
    /\ Become(r, [Idle EXCEPT !.pc = "login", !.op = "login", !.pw = pw])
    /\ UNCHANGED <<clock, Store, Memory, faults, hist>>

\* VerifyPassword reads the row by name; the comparison takes its time.
VerifyPassword(r, next, refuse) ==
    \/ authStoreError(r)
    \/ /\ IF Live /\ user.pw = req[r].pw
          THEN Become(r, [req[r] EXCEPT !.pc = next, !.row = IF req[r].op = "login" THEN user ELSE @])
          ELSE Reply(r, refuse)
       /\ UNCHANGED faults

Login(r) ==
    /\ At(r, "login")
    /\ VerifyPassword(r, "issue", "unauthorized")
    /\ UNCHANGED <<clock, Store, Memory, hist>>

\* The token of a login, and the fresh one that a change of password answers with.
Issue(r) ==
    /\ At(r, "issue")
    /\ IssueSession(req[r].row)
    /\ Reply(r, "ok")
    /\ UNCHANGED <<clock, user, revoked, tok, Memory, faults, hist>>

-----------------------------------------------------------------------------
(* Changes of the row                                                      *)

\* CreateUser, EnsureFirstAdmin.  Ids are not used again.
CreateUser(role, pw) ==
    /\ user.st = "none"
    /\ user' = [st |-> "live", pw |-> pw, role |-> role, ver |-> 1, gen |-> 1]
    /\ UNCHANGED <<clock, sess, revoked, tok, Memory, req, faults, hist>>

\* handleUserPassword, handleDeleteUser: an administrator sends them.
BeginAdmin(r, op, new) ==
    /\ At(r, "idle") /\ user.st # "none"
    /\ Become(r, [Idle EXCEPT !.pc = "read", !.op = op, !.new = new])
    /\ UNCHANGED <<clock, Store, Memory, faults, hist>>

\* The row is read; ChangePassword then checks the old password.
ReadRow(r) ==
    /\ At(r, "read")
    /\ \/ StoreFails(r, "error")
       \/ /\ IF Live
             THEN Become(r, [req[r] EXCEPT !.pc = IF req[r].op = "change" THEN "verify" ELSE "write", !.row = user])
             ELSE Reply(r, "error")
          /\ UNCHANGED faults
    /\ UNCHANGED <<clock, Store, Memory, hist>>

VerifyOld(r) ==
    /\ At(r, "verify")
    /\ VerifyPassword(r, "write", "error")
    /\ UNCHANGED <<clock, Store, Memory, hist>>

\* Mutant: the version is raised only where the account is deleted.
ChangedSameVersion(row, op, new) ==
    [row EXCEPT !.pw = IF op = "delete" THEN @ ELSE new, !.ver = IF op = "delete" THEN @ + 1 ELSE @, !.gen = user.gen + 1]

\* The row to be written: another password, the next version.
Changed(row, op, new) ==
    [row EXCEPT !.pw = IF op = "delete" THEN @ ELSE new, !.ver = @ + 1, !.gen = user.gen + 1]

AfterWrite(op) == CASE op = "change" -> "issue" [] op = "set" -> "ok" [] op = "delete" -> "reread"

\* UpdateUser: the whole row, by its id.
UpdateUser(r) ==
    LET op == req[r].op
        row == Changed(req[r].row, op, req[r].new)
    IN  /\ At(r, "write") /\ user.gen < MaxVersion
        /\ \/ StoreFails(r, "error") /\ UNCHANGED <<user, overlap>>
           \/ /\ ~Live /\ Reply(r, "error") /\ UNCHANGED <<user, faults, overlap>>
           \/ /\ Live /\ user' = row
              /\ Become(r, [req[r] EXCEPT !.pc = AfterWrite(op), !.row = row])
              /\ overlap' = (overlap \/ user # req[r].row)
              /\ UNCHANGED faults
        /\ UNCHANGED <<clock, sess, revoked, tok, Memory, ended, tried>>

\* The change is written and its answer is lost.
UpdateUserLost(r) ==
    /\ At(r, "write") /\ user.gen < MaxVersion /\ Live
    /\ StoreFails(r, "error")
    /\ user' = Changed(req[r].row, req[r].op, req[r].new)
    /\ overlap' = (overlap \/ user # req[r].row)
    /\ UNCHANGED <<clock, sess, revoked, tok, Memory, ended, tried>>

\* DeleteUser reads the row once more for the audit.
Reread(r) ==
    /\ At(r, "reread")
    /\ \/ StoreFails(r, "error")
       \/ (IF Live THEN Go(r, "remove") ELSE Reply(r, "error")) /\ UNCHANGED faults
    /\ UNCHANGED <<clock, Store, Memory, hist>>

\* DeleteUser of the catalogue: the tokens go with the account.
DeleteUser(r) ==
    /\ At(r, "remove")
    /\ \/ StoreFails(r, "error") /\ UNCHANGED <<user, tok>>
       \/ /\ ~Live /\ Reply(r, "error") /\ UNCHANGED <<user, tok, faults>>
       \/ /\ Live /\ Reply(r, "ok")
          /\ user' = [user EXCEPT !.st = "deleted"]
          /\ tok' = [t \in Toks |-> IF tok[t].st = "none" THEN tok[t] ELSE [tok[t] EXCEPT !.st = "gone"]]
          /\ UNCHANGED faults
    /\ UNCHANGED <<clock, sess, revoked, Memory, hist>>

-----------------------------------------------------------------------------
(* API tokens: RequireAPIToken                                             *)

\* handleCreateToken, IssueAPIToken: the owner is read first, and the
\* foreign key refuses the token of an account deleted since.
BeginCreateToken(r) ==
    /\ At(r, "idle") /\ Live
    /\ Become(r, [Idle EXCEPT !.pc = "create", !.op = "create"])
    /\ UNCHANGED <<clock, Store, Memory, faults, hist>>

IssueAPIToken(r, t, scope, ttl) ==
    /\ At(r, "create") /\ tok[t].st = "none"
    /\ \/ StoreFails(r, "error") /\ UNCHANGED tok
       \/ /\ tok' = IF Live THEN [tok EXCEPT ![t] = [st |-> "live", exp |-> IF ttl > 0 THEN clock + ttl ELSE 0, scope |-> scope]]
                            ELSE tok
          /\ Reply(r, IF Live THEN "ok" ELSE "error") /\ UNCHANGED faults
    /\ UNCHANGED <<clock, user, sess, revoked, Memory, hist>>

\* VerifyAPIToken: the row of the token, revoked or run out is 401.
LookupToken(r, t) ==
    /\ At(r, "idle") /\ tok[t].st # "none"
    /\ LET begun == [Idle EXCEPT !.op = "token", !.cred = t, !.was = Over(t)]
           valid == tok[t].st = "live" /\ (tok[t].exp = 0 \/ clock < tok[t].exp)
       IN  \/ /\ faults < MaxFaults /\ faults' = faults + 1
              /\ Become(r, [begun EXCEPT !.pc = "unavailable"])
           \/ /\ Become(r, [begun EXCEPT !.pc = IF valid THEN "owner" ELSE "unauthorized"])
              /\ UNCHANGED faults
    /\ UNCHANGED <<clock, Store, Memory, hist>>

adminScopeRequiresLiveAdmin(t) == tok[t].scope = "admin" /\ user.role # "admin"

LoadOwner(r) ==
    /\ At(r, "owner")
    /\ \/ authStoreError(r)
       \/ /\ IF Live /\ ~adminScopeRequiresLiveAdmin(req[r].cred) THEN Go(r, "touch") ELSE Reply(r, "unauthorized")
          /\ UNCHANGED faults
    /\ UNCHANGED <<clock, Store, Memory, hist>>

touchThrottled(t) == TouchInterval > 0 /\ lastTouch[t] > 0 /\ clock - lastTouch[t] < TouchInterval

\* recordTouch: a full table is emptied.
recordTouch(t) ==
    LET full == Cardinality({k \in Toks : lastTouch[k] > 0}) >= MaxTouch
    IN  [k \in Toks |-> IF k = t THEN clock ELSE IF full THEN 0 ELSE lastTouch[k]]

\* TouchToken: its failure does not refuse the token.
Touch(r) ==
    LET t == req[r].cred IN
    /\ At(r, "touch")
    /\ \/ touchThrottled(t) /\ UNCHANGED <<lastTouch, faults>>
       \/ ~touchThrottled(t) /\ faults < MaxFaults /\ faults' = faults + 1 /\ UNCHANGED lastTouch
       \/ /\ ~touchThrottled(t) /\ UNCHANGED faults
          /\ lastTouch' = IF TouchInterval > 0 THEN recordTouch(t) ELSE lastTouch
    /\ Go(r, "accepted")
    /\ UNCHANGED <<clock, Store, mem, hist>>

\* handleRevokeToken: the tokens of the user are listed, then the row is updated.
BeginRevokeToken(r, t) ==
    /\ At(r, "idle") /\ tok[t].st # "none"
    /\ Become(r, [Idle EXCEPT !.pc = IF tok[t].st = "gone" THEN "error" ELSE "revoke", !.op = "revoke", !.cred = t])
    /\ UNCHANGED <<clock, Store, Memory, faults, hist>>

RevokeToken(r) ==
    LET t == req[r].cred IN
    /\ At(r, "revoke")
    /\ \/ StoreFails(r, "error") /\ UNCHANGED <<tok, ended>>
       \/ /\ tok[t].st = "gone" /\ Reply(r, "error") /\ UNCHANGED <<tok, faults, ended>>
       \/ /\ tok[t].st # "gone" /\ Reply(r, "ok") /\ UNCHANGED faults
          /\ tok' = [tok EXCEPT ![t].st = "revoked"]
          /\ ended' = ended \cup {t}
    /\ UNCHANGED <<clock, user, sess, revoked, Memory, tried, overlap>>

-----------------------------------------------------------------------------
\* The process ends and starts again: the catalogue is what is left.
Restart ==
    /\ faults < MaxFaults /\ faults' = faults + 1
    /\ mem' = [j \in Jtis |-> 0] /\ lastTouch' = [t \in Toks |-> 0]
    /\ req' = [r \in Requests |-> Idle]
    /\ UNCHANGED <<clock, Store, hist>>

\* A request comes in.
Arrive(r) ==
    \/ \E j \in Jtis, op \in {"use", "logout"} : Parse(r, j, op, NoPassword, NoPassword)
    \/ \E j \in Jtis, old, new \in Passwords : Parse(r, j, "change", old, new)
    \/ \E pw \in Passwords : BeginLogin(r, pw) \/ BeginAdmin(r, "set", pw)
    \/ BeginAdmin(r, "delete", NoPassword)
    \/ BeginCreateToken(r)
    \/ \E t \in Toks : LookupToken(r, t) \/ BeginRevokeToken(r, t)

Step(r) ==
    \/ LoadUser(r) \/ revokedInMemory(r) \/ CheckRevoked(r) \/ Served(r)
    \/ RevokeSession(r) \/ rememberRevoked(r)
    \/ Login(r) \/ Issue(r)
    \/ ReadRow(r) \/ VerifyOld(r) \/ UpdateUser(r) \/ UpdateUserLost(r) \/ Reread(r) \/ DeleteUser(r)
    \/ \E t \in Toks, scope \in {"admin", "repo"}, ttl \in {0, TTL} : IssueAPIToken(r, t, scope, ttl)
    \/ LoadOwner(r) \/ Touch(r) \/ RevokeToken(r)
    \/ Finish(r)

Next ==
    \/ /\ UNCHANGED calls
       /\ \/ Tick \/ Restart
          \/ \E role \in {"admin", "user"}, pw \in Passwords : CreateUser(role, pw)
          \/ \E r \in Requests : Step(r)
    \/ /\ calls < MaxCalls /\ calls' = calls + 1
       /\ \E r \in Requests : Arrive(r)

Spec == Init /\ [][Next]_vars

-----------------------------------------------------------------------------
(* Properties                                                              *)

\* Request r has been let through to its handler.
Accepted(r) ==
    /\ req[r].pc \in {"table", "touch"}
    /\ req'[r].pc \in {"accepted", "insert", "read"}

\* A session whose logout was answered with 204, a token whose revocation
\* was, and any credential of a deleted account, are refused to every later
\* request, whatever a restart or a full table has done to the memory
\* (RevokeSession, ValidateSession, VerifyAPIToken).  The one exception: a
\* session that runs out while its request is being validated may be let
\* through, since the revocation is kept no longer than the session.
EndedRefused ==
    [][\A r \in Requests : (Accepted(r) /\ req[r].was) =>
          req[r].op \in SessionOps /\ clock >= sess[req[r].cred].exp]_vars

\* A request that comes in after a change of the row is not let through with
\* a session issued from an earlier row (ChangePassword, AdminSetPassword,
\* DeleteUser: all sessions end), unless two changes have overlapped: the
\* second one writes the version that it read before the first.
ChangeEndsSessions ==
    [][\A r \in Requests : (Accepted(r) /\ req[r].op \in SessionOps /\ req[r].seen > sess[req[r].cred].gen)
          => overlap]_vars

SessionOver(j) == clock >= sess[j].exp \/ j \in tried \/ sess[j].gen < user.gen \/ ~Live
TokenOver(t) ==
    \/ tok[t].st # "live" \/ ~Live
    \/ tok[t].exp > 0 /\ clock >= tok[t].exp
    \/ adminScopeRequiresLiveAdmin(t)

\* 401 means that the credential is over, never that the catalogue failed
\* (authStoreError): a session that a login or a change of password has just
\* handed out works until it ends.
RefusedForCause ==
    [][\A r \in Requests : (req'[r].pc = "unauthorized" /\ req[r].pc # "unauthorized") =>
          /\ req'[r].op \in SessionOps => SessionOver(req'[r].cred)
          /\ req'[r].op = "token" => TokenOver(req'[r].cred)]_vars

-----------------------------------------------------------------------------
\* What the argument for all three rests on.
UserRow == [st : {"none", "live", "deleted"}, pw : Passwords \cup {NoPassword}, role : {"admin", "user"},
            ver : Nat, gen : Nat]
Ops == SessionOps \cup {"none", "login", "set", "delete", "create", "token", "revoke"}
Places == Codes \cup {"idle", "user", "memory", "table", "accepted", "insert", "remember", "login", "issue",
                      "read", "verify", "write", "reread", "remove", "create", "owner", "touch", "revoke"}
Request == [pc : Places, op : Ops, cred : Jtis \cup Toks \cup {"none"}, row : UserRow,
            pw : Passwords \cup {NoPassword}, new : Passwords \cup {NoPassword}, ok : BOOLEAN,
            until : Nat, was : BOOLEAN, seen : Nat]

AuthTypeOK ==
    /\ clock \in Nat /\ user \in UserRow
    /\ sess \in [Jtis -> [ver : Nat, exp : Nat, gen : Nat]]
    /\ revoked \in [Jtis -> Nat] /\ mem \in [Jtis -> Nat]
    /\ tok \in [Toks -> [st : {"none", "live", "revoked", "gone"}, exp : Nat, scope : {"admin", "repo"}]]
    /\ req \in [Requests -> Request]
    /\ ended \in SUBSET (Jtis \cup Toks) /\ tried \in SUBSET Jtis /\ overlap \in BOOLEAN

\* The table outlives the session it ends.
Recorded(j) == revoked[j] >= sess[j].exp \/ clock >= sess[j].exp

\* A version that was read or handed out is not ahead of the row, and tells
\* its writes apart as long as none has been written over.
NotAhead(v) ==
    /\ v.gen <= user.gen /\ (v.gen = user.gen => v.ver = user.ver)
    /\ ~overlap => v.ver = v.gen

StoreKnown ==
    /\ NotAhead(NoUser) /\ (user.st = "none" => user = NoUser)
    /\ ~overlap => user.ver = user.gen
    /\ \A j \in Jtis :
          /\ sess[j].exp <= clock + TTL /\ NotAhead(sess[j])
          /\ mem[j] > 0 \/ revoked[j] > 0 => j \in tried
          /\ j \in ended => Issued(j) /\ Recorded(j)
    /\ \A t \in Toks : t \in ended => tok[t].st \in {"revoked", "gone"}

\* What a request that is in progress goes by.
Known(q) ==
    /\ q.pc \in {"user", "memory", "table"} => q.op \in SessionOps /\ q.cred \in Jtis /\ Issued(q.cred)
    /\ q.pc \in {"insert", "remember"} => q.cred \in Jtis /\ Issued(q.cred)
    /\ q.pc \in {"owner", "touch"} => q.op = "token" /\ q.cred \in Toks
    /\ q.pc = "revoke" => q.cred \in Toks
    /\ q.pc = "login" => q.op = "login"
    /\ q.pc \in {"read", "verify", "write"} => q.op \in {"change", "set", "delete"}
    /\ q.pc \in {"verify", "write"} => q.row.st = "live"
    /\ q.pc = "remember" => q.cred \in tried /\ (q.ok => Recorded(q.cred))
    /\ q.was => /\ q.pc = "user" => q.cred \in ended \/ user.st = "deleted"
                /\ q.pc \in {"memory", "table"} => q.cred \in ended
                /\ q.pc = "owner" => user.st = "deleted"
                /\ q.pc # "touch"
    /\ NotAhead(q.row)
    /\ q.seen <= user.gen
    /\ ~overlap /\ q.pc \in {"memory", "table"} => q.seen <= sess[q.cred].gen

AuthInv == AuthTypeOK /\ StoreKnown /\ \A r \in Requests : Known(req[r])
=============================================================================
