-------------------------- MODULE AuthSessionsProofs --------------------------
(***************************************************************************)
(* What ends a credential ends it for every later request, and nothing     *)
(* else does: the theorems of AuthSessions, for any numbers of sessions,   *)
(* tokens and requests, any life times and any limits of the memory.       *)
(***************************************************************************)
EXTENDS AuthSessions, TLAPS

\* What a step owes to the requests that it does not move.
Forward ==
    /\ clock' >= clock
    /\ \A j \in Jtis : Issued(j) => sess'[j] = sess[j] /\ (Recorded(j) => Recorded(j)')
    /\ ended \subseteq ended' /\ tried \subseteq tried' /\ (overlap => overlap')
    /\ user.st = "deleted" => user'.st = "deleted"
    /\ user.gen <= user'.gen /\ (user'.gen = user.gen => user'.ver = user.ver)

LEMMA KnownKept ==
    ASSUME AuthTypeOK, AuthTypeOK', Forward, NEW q \in Request, Known(q)
    PROVE  Known(q)'
<1>1. /\ user.gen \in Nat /\ user.ver \in Nat /\ user'.gen \in Nat /\ user'.ver \in Nat
      /\ q.row.gen \in Nat /\ q.row.ver \in Nat /\ q.seen \in Nat
  BY DEF AuthTypeOK, UserRow, Request
<1>2. NotAhead(q.row)'
  BY <1>1 DEF Known, NotAhead, Forward
<1>3. q.seen <= user'.gen
  BY <1>1 DEF Known, Forward
<1>4. \A j \in Jtis : Issued(j) => Issued(j)' /\ sess'[j] = sess[j]
  BY DEF Forward, Issued
<1>5. q.pc \in {"user", "memory", "table"} => q.op \in SessionOps /\ q.cred \in Jtis /\ Issued(q.cred)
  BY DEF Known
<1>6. (~overlap' /\ q.pc \in {"memory", "table"}) => q.seen <= sess'[q.cred].gen
  BY <1>4, <1>5 DEF Known, Forward
<1>7. q.pc \in {"insert", "remember"} => q.cred \in Jtis /\ Issued(q.cred)
  BY DEF Known
<1>8. q.pc = "remember" => q.cred \in tried' /\ (q.ok => Recorded(q.cred)')
  BY <1>7 DEF Known, Forward
<1>9. q.was => /\ q.pc = "user" => q.cred \in ended' \/ user'.st = "deleted"
               /\ q.pc \in {"memory", "table"} => q.cred \in ended'
               /\ q.pc = "owner" => user'.st = "deleted"
               /\ q.pc # "touch"
  BY DEF Known, Forward
<1> QED BY <1>2, <1>3, <1>4, <1>5, <1>6, <1>7, <1>8, <1>9 DEF Known

\* One request moves, the store goes forward.
LEMMA OneMoves ==
    ASSUME AuthInv, AuthTypeOK', StoreKnown', Forward,
           NEW r \in Requests, NEW q \in Request, req' = [req EXCEPT ![r] = q], Known(q)'
    PROVE  AuthInv'
<1>1. ASSUME NEW s \in Requests PROVE Known(req[s])'
  <2>1. CASE s = r
    BY <2>1 DEF AuthInv, AuthTypeOK
  <2>2. CASE s # r
    <3>1. req'[s] = req[s] /\ req[s] \in Request /\ Known(req[s])
      BY <2>2 DEF AuthInv, AuthTypeOK
    <3>2. \A x \in Request : Known(x) => Known(x)'
      BY KnownKept DEF AuthInv
    <3> QED BY <3>1, <3>2
  <2> QED BY <2>1, <2>2
<1> QED BY <1>1 DEF AuthInv

\* A step that leaves the rows as they are; an entry of the memory may go.
Quiet ==
    /\ UNCHANGED <<clock, Store, hist>>
    /\ mem' \in [Jtis -> Nat] /\ \A j \in Jtis : mem'[j] \in {0, mem[j]}

LEMMA QuietStep ==
    ASSUME AuthInv, Quiet, NEW r \in Requests, NEW q \in Request, req' = [req EXCEPT ![r] = q], Known(q)
    PROVE  AuthInv'
<1>1. UNCHANGED <<clock, user, sess, revoked, tok, ended, tried, overlap>>
  BY DEF Quiet, Store, hist
<1>2. AuthTypeOK'
  BY <1>1 DEF AuthInv, AuthTypeOK, Quiet
<1>3. StoreKnown'
  BY <1>1 DEF AuthInv, StoreKnown, NotAhead, Recorded, Issued, Quiet
<1>4. Forward
  BY <1>1 DEF AuthInv, AuthTypeOK, UserRow, Forward, Recorded
<1>5. Known(q)'
  BY <1>2, <1>4, KnownKept DEF AuthInv
<1> QED BY <1>2, <1>3, <1>4, <1>5, OneMoves

\* The records that a request may become.
LEMMA IdleKnown == ASSUME AuthInv PROVE Idle \in Request /\ Known(Idle) /\ NoUser \in UserRow
<1>1. NoUser \in UserRow
  BY DEF NoUser, UserRow
<1>2. Idle \in Request
  BY <1>1 DEF Idle, Request, Places, Ops, SessionOps
<1>3. user.gen \in Nat
  BY DEF AuthInv, AuthTypeOK, UserRow
<1>4. NotAhead(NoUser)
  BY DEF AuthInv, StoreKnown
<1>5. Idle.pc = "idle" /\ Idle.row = NoUser /\ Idle.seen = 0 /\ Idle.was = FALSE
  BY DEF Idle
<1> QED BY <1>1, <1>2, <1>3, <1>4, <1>5 DEF Known

\* A request at the beginning, or answered.
LEMMA FreshKnown ==
    ASSUME AuthInv, NEW q, q \in Request, q.row = NoUser, q.seen <= user.gen,
           q.pc \notin {"user", "memory", "table", "insert", "remember", "owner", "touch", "revoke", "login",
                        "read", "verify", "write"}
    PROVE  Known(q)
BY DEF AuthInv, StoreKnown, Known

LEMMA ReplyStep ==
    ASSUME AuthInv, Quiet, NEW r \in Requests, NEW code \in Codes, Reply(r, code)
    PROVE  AuthInv'
<1> DEFINE q == [Idle EXCEPT !.pc = code, !.op = req[r].op, !.cred = req[r].cred]
<1>1. req[r] \in Request /\ Idle \in Request /\ user.gen \in Nat
  BY IdleKnown DEF AuthInv, AuthTypeOK, UserRow
<1>2. q \in Request
  BY <1>1 DEF Request, Places
<1>3. q.row = NoUser /\ q.seen = 0 /\ q.pc \in Codes
  BY DEF Idle
<1>4. req' = [req EXCEPT ![r] = q]
  BY DEF Reply, Become
<1> HIDE DEF q
<1>5. Known(q)
  BY <1>1, <1>2, <1>3, FreshKnown DEF Codes
<1> QED BY <1>2, <1>4, <1>5, QuietStep

\* A request goes on and keeps what it carries.
LEMMA GoStep ==
    ASSUME AuthInv, Quiet, NEW r \in Requests, NEW p \in Places, Go(r, p), Known([req[r] EXCEPT !.pc = p])
    PROVE  AuthInv'
<1>1. req[r] \in Request
  BY DEF AuthInv, AuthTypeOK
<1>2. [req[r] EXCEPT !.pc = p] \in Request
  BY <1>1 DEF Request
<1> QED BY <1>2, QuietStep DEF Go, Become

LEMMA SameIsQuiet ==
    ASSUME AuthInv, UNCHANGED <<clock, Store, mem, hist>> PROVE Quiet
BY DEF AuthInv, AuthTypeOK, Quiet, Store, hist

LEMMA FailStep ==
    ASSUME AuthInv, Quiet, NEW r \in Requests, NEW code \in Codes, StoreFails(r, code)
    PROVE  AuthInv'
BY ReplyStep DEF StoreFails

\* The validation of a session.
LEMMA ValidateSteps ==
    ASSUME AuthInv, NEW r \in Requests,
           LoadUser(r) \/ revokedInMemory(r) \/ CheckRevoked(r) \/ Served(r)
    PROVE  AuthInv'
<1> DEFINE q == req[r]
<1>0. q \in Request /\ Known(q) /\ user.gen \in Nat /\ user.ver \in Nat
  BY DEF AuthInv, AuthTypeOK, UserRow
<1>1. Quiet
  <2>1. CASE revokedInMemory(r)
    BY <2>1 DEF AuthInv, AuthTypeOK, Quiet, revokedInMemory, Store, hist
  <2>2. CASE LoadUser(r) \/ CheckRevoked(r) \/ Served(r)
    BY <2>2, SameIsQuiet DEF LoadUser, CheckRevoked, Served, Memory
  <2> QED BY <2>1, <2>2
<1>2. Codes \subseteq Places /\ {"ok", "unauthorized", "unavailable", "error"} \subseteq Codes
  BY DEF Codes, Places
<1>3. ASSUME NEW p \in Places
      PROVE  LET g == [q EXCEPT !.pc = p] IN
             /\ g.pc = p /\ g.op = q.op /\ g.cred = q.cred /\ g.was = q.was /\ g.row = q.row /\ g.seen = q.seen
             /\ g.ok = q.ok
  BY <1>0 DEF Request
<1>4. CASE LoadUser(r)
  <2>1. q.pc = "user" /\ q.op \in SessionOps /\ q.cred \in Jtis /\ Issued(q.cred)
    BY <1>0, <1>4 DEF LoadUser, At, Known
  <2>2. \/ StoreFails(r, "unavailable") \/ Reply(r, "unauthorized")
        \/ Live /\ user.ver = sess[q.cred].ver /\ Go(r, "memory")
    BY <1>4 DEF LoadUser, authStoreError
  <2>3. CASE Live /\ user.ver = sess[q.cred].ver /\ Go(r, "memory")
    <3> DEFINE g == [q EXCEPT !.pc = "memory"]
    <3>1. /\ g.pc = "memory" /\ g.op = q.op /\ g.cred = q.cred /\ g.was = q.was /\ g.row = q.row /\ g.seen = q.seen
      BY <1>3 DEF Places
    <3> HIDE DEF g
    <3>2. q.was => q.cred \in ended
      BY <1>0, <2>1, <2>3 DEF Known, Live
    <3>3. ~overlap => q.seen <= sess[q.cred].gen
      <4>1. ~overlap => user.ver = user.gen /\ sess[q.cred].ver = sess[q.cred].gen
        BY <2>1 DEF AuthInv, StoreKnown, NotAhead
      <4>2. q.seen <= user.gen
        BY <1>0 DEF Known
      <4> QED BY <2>3, <4>1, <4>2
    <3>4. Known(g)
      BY <1>0, <2>1, <3>1, <3>2, <3>3 DEF Known
    <3> QED BY <1>1, <2>3, <3>4, GoStep DEF Places, g
  <2> QED BY <1>1, <1>2, <2>2, <2>3, FailStep, ReplyStep
<1>5. CASE revokedInMemory(r)
  <2>1. q.pc = "memory" /\ (Reply(r, "unauthorized") \/ Go(r, "table"))
    BY <1>5 DEF revokedInMemory, At
  <2>2. CASE Go(r, "table")
    <3> DEFINE g == [q EXCEPT !.pc = "table"]
    <3>1. /\ g.pc = "table" /\ g.op = q.op /\ g.cred = q.cred /\ g.was = q.was /\ g.row = q.row /\ g.seen = q.seen
      BY <1>3 DEF Places
    <3> HIDE DEF g
    <3>2. Known(g)
      BY <1>0, <2>1, <3>1 DEF Known
    <3> QED BY <1>1, <2>2, <3>2, GoStep DEF Places, g
  <2> QED BY <1>1, <1>2, <2>1, <2>2, ReplyStep
<1>6. CASE CheckRevoked(r)
  <2>1. /\ q.pc = "table" /\ q.op \in SessionOps /\ q.cred \in Jtis /\ Issued(q.cred)
    BY <1>0, <1>6 DEF CheckRevoked, At, Known
  <2>2. StoreFails(r, "unavailable") \/ Reply(r, "unauthorized") \/ Go(r, Handler(q.op))
    BY <1>6 DEF CheckRevoked, authStoreError
  <2>3. CASE Go(r, Handler(q.op))
    <3> DEFINE p == Handler(q.op)
               g == [q EXCEPT !.pc = p]
    <3>1. p \in {"accepted", "insert", "read"} /\ (p = "read" => q.op = "change")
      BY <2>1 DEF SessionOps, Handler
    <3>2. p \in Places
      BY <3>1 DEF Places
    <3> HIDE DEF p
    <3>3. /\ g.pc = p /\ g.op = q.op /\ g.cred = q.cred /\ g.was = q.was /\ g.row = q.row /\ g.seen = q.seen
      BY <1>3, <3>2
    <3> HIDE DEF g
    <3>4. Known(g)
      BY <1>0, <2>1, <3>1, <3>3 DEF Known
    <3>5. Known([req[r] EXCEPT !.pc = p]) /\ Go(r, p)
      BY <2>3, <3>4 DEF g, p
    <3> QED BY <1>1, <3>2, <3>5, GoStep
  <2> QED BY <1>1, <1>2, <2>2, <2>3, FailStep, ReplyStep
<1>7. CASE Served(r)
  BY <1>1, <1>2, <1>7, ReplyStep DEF Served
<1> QED BY <1>4, <1>5, <1>6, <1>7

\* A request comes in.
LEMMA ArriveSteps ==
    ASSUME AuthInv, NEW r \in Requests, Arrive(r)
    PROVE  AuthInv'
<1>0. /\ user.gen \in Nat /\ Idle \in Request /\ user.st \in {"none", "live", "deleted"}
      /\ NotAhead(NoUser) /\ clock \in Nat
  BY IdleKnown DEF AuthInv, AuthTypeOK, UserRow, StoreKnown
<1>1. ASSUME NEW j \in Jtis, NEW op \in SessionOps,
             NEW old \in Passwords \cup {NoPassword}, NEW new \in Passwords \cup {NoPassword},
             Parse(r, j, op, old, new)
      PROVE  AuthInv'
  <2> DEFINE p == IF clock < sess[j].exp THEN "user" ELSE "unauthorized"
             b == Over(j)
             q == [Idle EXCEPT !.pc = p, !.op = op, !.cred = j, !.pw = old, !.new = new,
                               !.was = b, !.seen = user.gen]
  <2>1. Quiet /\ req' = [req EXCEPT ![r] = q] /\ Issued(j)
    BY <1>1, SameIsQuiet DEF Parse, Become, Memory
  <2>2. p \in {"user", "unauthorized"} /\ b \in BOOLEAN /\ (b => j \in ended \/ user.st = "deleted")
    BY DEF Over
  <2> HIDE DEF p, b
  <2>3. q \in Request
    <3>1. p \in Places /\ op \in Ops /\ j \in Jtis \cup Toks \cup {"none"}
      BY <2>2 DEF Places, Codes, Ops
    <3> QED BY <1>0, <2>2, <3>1 DEF Request
  <2>4. /\ q.pc = p /\ q.op = op /\ q.cred = j /\ q.was = b /\ q.seen = user.gen /\ q.row = NoUser
    BY DEF Idle
  <2> HIDE DEF q
  <2>5. Known(q)
    <3>1. q.seen <= user.gen
      BY <1>0, <2>4
    <3> QED BY <1>0, <2>1, <2>2, <2>4, <3>1 DEF Known
  <2> QED BY <2>1, <2>3, <2>5, QuietStep
<1>2. ASSUME NEW pw \in Passwords, BeginLogin(r, pw)
      PROVE  AuthInv'
  <2> DEFINE q == [Idle EXCEPT !.pc = "login", !.op = "login", !.pw = pw]
  <2>1. Quiet /\ req' = [req EXCEPT ![r] = q]
    BY <1>2, SameIsQuiet DEF BeginLogin, Become, Memory
  <2>2. q \in Request
    BY <1>0 DEF Request, Places, Ops
  <2>3. q.pc = "login" /\ q.op = "login" /\ q.was = FALSE /\ q.seen = 0 /\ q.row = NoUser
    BY DEF Idle
  <2> HIDE DEF q
  <2>4. Known(q)
    BY <1>0, <2>3 DEF Known
  <2> QED BY <2>1, <2>2, <2>4, QuietStep
<1>3. ASSUME NEW op \in {"set", "delete"}, NEW new \in Passwords \cup {NoPassword}, BeginAdmin(r, op, new)
      PROVE  AuthInv'
  <2> DEFINE q == [Idle EXCEPT !.pc = "read", !.op = op, !.new = new]
  <2>1. Quiet /\ req' = [req EXCEPT ![r] = q]
    BY <1>3, SameIsQuiet DEF BeginAdmin, Become, Memory
  <2>2. q \in Request
    BY <1>0 DEF Request, Places, Ops
  <2>3. q.pc = "read" /\ q.op = op /\ q.was = FALSE /\ q.seen = 0 /\ q.row = NoUser
    BY DEF Idle
  <2> HIDE DEF q
  <2>4. Known(q)
    BY <1>0, <2>3 DEF Known
  <2> QED BY <2>1, <2>2, <2>4, QuietStep
<1>4. CASE BeginCreateToken(r)
  <2> DEFINE q == [Idle EXCEPT !.pc = "create", !.op = "create"]
  <2>1. Quiet /\ req' = [req EXCEPT ![r] = q]
    BY <1>4, SameIsQuiet DEF BeginCreateToken, Become, Memory
  <2>2. q \in Request
    BY <1>0 DEF Request, Places, Ops
  <2>3. q.pc = "create" /\ q.was = FALSE /\ q.seen = 0 /\ q.row = NoUser
    BY DEF Idle
  <2> HIDE DEF q
  <2>4. Known(q)
    BY <1>0, <2>3 DEF Known
  <2> QED BY <2>1, <2>2, <2>4, QuietStep
<1>5. ASSUME NEW t \in Toks, LookupToken(r, t)
      PROVE  AuthInv'
  <2> DEFINE b == Over(t)
             begun == [Idle EXCEPT !.op = "token", !.cred = t, !.was = b]
  <2>1. PICK p \in {"owner", "unavailable", "unauthorized"} :
          (p = "owner" => tok[t].st = "live") /\ Become(r, [begun EXCEPT !.pc = p])
    BY <1>5 DEF LookupToken
  <2> DEFINE q == [begun EXCEPT !.pc = p]
  <2>2. Quiet /\ req' = [req EXCEPT ![r] = q]
    BY <1>5, <2>1, SameIsQuiet DEF LookupToken, Become, Memory
  <2>3. b \in BOOLEAN /\ (p = "owner" /\ b => user.st = "deleted")
    BY <2>1 DEF Over, AuthInv, StoreKnown
  <2> HIDE DEF b
  <2>4. q \in Request
    <3>1. p \in Places /\ "token" \in Ops /\ t \in Jtis \cup Toks \cup {"none"}
      BY DEF Places, Codes, Ops
    <3> QED BY <1>0, <2>3, <3>1 DEF Request
  <2>5. q.pc = p /\ q.op = "token" /\ q.cred = t /\ q.was = b /\ q.seen = 0 /\ q.row = NoUser
    BY DEF Idle
  <2> HIDE DEF q
  <2>6. Known(q)
    BY <1>0, <2>3, <2>5 DEF Known
  <2> QED BY <2>2, <2>4, <2>6, QuietStep
<1>6. ASSUME NEW t \in Toks, BeginRevokeToken(r, t)
      PROVE  AuthInv'
  <2> DEFINE p == IF tok[t].st = "gone" THEN "error" ELSE "revoke"
             q == [Idle EXCEPT !.pc = p, !.op = "revoke", !.cred = t]
  <2>1. Quiet /\ req' = [req EXCEPT ![r] = q]
    BY <1>6, SameIsQuiet DEF BeginRevokeToken, Become, Memory
  <2>0. p \in {"error", "revoke"}
    OBVIOUS
  <2> HIDE DEF p
  <2>2. q \in Request
    <3>1. p \in Places /\ "revoke" \in Ops /\ t \in Jtis \cup Toks \cup {"none"}
      BY <2>0 DEF Places, Codes, Ops
    <3> QED BY <1>0, <3>1 DEF Request
  <2>3. q.pc \in {"error", "revoke"} /\ q.cred = t /\ q.was = FALSE /\ q.seen = 0 /\ q.row = NoUser
    BY <2>0 DEF Idle
  <2> HIDE DEF q
  <2>4. Known(q)
    BY <1>0, <2>3 DEF Known
  <2> QED BY <2>1, <2>2, <2>4, QuietStep
<1>7. {"use", "logout"} \subseteq SessionOps /\ "change" \in SessionOps
  BY DEF SessionOps
<1> QED BY <1>1, <1>2, <1>3, <1>4, <1>5, <1>6, <1>7 DEF Arrive

\* The other steps that leave the store as it is.
LEMMA ReadSteps ==
    ASSUME AuthInv, NEW r \in Requests,
           Login(r) \/ ReadRow(r) \/ VerifyOld(r) \/ Reread(r) \/ LoadOwner(r) \/ Touch(r) \/ Finish(r)
    PROVE  AuthInv'
<1> DEFINE q == req[r]
<1>0. q \in Request /\ Known(q) /\ user \in UserRow /\ user.gen \in Nat
  BY DEF AuthInv, AuthTypeOK, UserRow
<1>1. Quiet
  BY SameIsQuiet DEF Login, ReadRow, VerifyOld, Reread, LoadOwner, Touch, Finish, Memory
<1>2. Codes \subseteq Places /\ {"ok", "unauthorized", "unavailable", "error"} \subseteq Codes
  BY DEF Codes, Places
<1>3. NotAhead(user)
  BY <1>0 DEF AuthInv, StoreKnown, NotAhead
<1>4. ASSUME NEW p \in Places,
             p \in {"issue", "verify", "write", "remove", "accepted", "touch"},
             p \in {"verify", "write"} => q.op \in {"change", "set", "delete"},
             p = "touch" => q.op = "token" /\ q.cred \in Toks /\ ~q.was,
             \/ Go(r, p) /\ (p \in {"verify", "write"} => q.row.st = "live")
             \/ /\ req' = [req EXCEPT ![r] = [q EXCEPT !.pc = p, !.row = user]]
                /\ p \in {"verify", "write"} => Live
      PROVE  AuthInv'
  <2>1. PICK w \in {q.row, user} : /\ req' = [req EXCEPT ![r] = [q EXCEPT !.pc = p, !.row = w]]
                                   /\ p \in {"verify", "write"} => w.st = "live"
    <3>1. [q EXCEPT !.pc = p] = [q EXCEPT !.pc = p, !.row = q.row]
      BY <1>0 DEF Request
    <3> QED BY <1>4, <3>1 DEF Go, Become, Live
  <2> DEFINE g == [q EXCEPT !.pc = p, !.row = w]
  <2>2. w \in UserRow /\ NotAhead(w)
    BY <1>0, <1>3 DEF Request, Known
  <2>3. /\ g \in Request /\ g.pc = p /\ g.op = q.op /\ g.cred = q.cred /\ g.was = q.was /\ g.row = w
        /\ g.seen = q.seen
    BY <1>0, <2>2 DEF Request
  <2> HIDE DEF g
  <2>4. Known(g)
    BY <1>0, <1>4, <2>1, <2>2, <2>3 DEF Known
  <2>5. req' = [req EXCEPT ![r] = g]
    BY <2>1 DEF g
  <2> QED BY <1>1, <2>3, <2>4, <2>5, QuietStep
<1>5. {"issue", "verify", "write", "remove", "accepted", "touch"} \subseteq Places
  BY DEF Places
<1>6. ASSUME NEW code \in Codes, StoreFails(r, code) \/ Reply(r, code)
      PROVE  AuthInv'
  BY <1>1, <1>6, FailStep, ReplyStep
<1>7. CASE Login(r)
  <2>1. q.pc = "login" /\ q.op = "login"
    BY <1>0, <1>7 DEF Login, At, Known
  <2>2. \/ StoreFails(r, "unavailable") \/ Reply(r, "unauthorized")
        \/ req' = [req EXCEPT ![r] = [q EXCEPT !.pc = "issue", !.row = user]]
    BY <1>7, <2>1 DEF Login, VerifyPassword, authStoreError, Become
  <2> QED BY <1>2, <1>4, <1>5, <1>6, <2>2
<1>8. CASE ReadRow(r)
  <2>1. q.pc = "read" /\ q.op \in {"change", "set", "delete"}
    BY <1>0, <1>8 DEF ReadRow, At, Known
  <2>2. \/ StoreFails(r, "error") \/ Reply(r, "error")
        \/ Live /\ \E p \in {"verify", "write"} : req' = [req EXCEPT ![r] = [q EXCEPT !.pc = p, !.row = user]]
    BY <1>8 DEF ReadRow, Become
  <2> QED BY <1>2, <1>4, <1>5, <1>6, <2>1, <2>2
<1>9. CASE VerifyOld(r)
  <2>1. q.pc = "verify" /\ q.op \in {"change", "set", "delete"} /\ q.row.st = "live"
    BY <1>0, <1>9 DEF VerifyOld, At, Known
  <2>2. [q EXCEPT !.pc = "write", !.row = q.row] = [q EXCEPT !.pc = "write"]
    BY <1>0 DEF Request
  <2>3. StoreFails(r, "unavailable") \/ Reply(r, "error") \/ Go(r, "write")
    BY <1>9, <2>1, <2>2 DEF VerifyOld, VerifyPassword, authStoreError, Become, Go
  <2> QED BY <1>2, <1>4, <1>5, <1>6, <2>1, <2>3
<1>10. CASE Reread(r)
  <2>1. StoreFails(r, "error") \/ Reply(r, "error") \/ Go(r, "remove")
    BY <1>10 DEF Reread
  <2> QED BY <1>2, <1>4, <1>5, <1>6, <2>1
<1>11. CASE LoadOwner(r)
  <2>1. q.pc = "owner" /\ q.op = "token" /\ q.cred \in Toks /\ (q.was => user.st = "deleted")
    BY <1>0, <1>11 DEF LoadOwner, At, Known
  <2>2. StoreFails(r, "unavailable") \/ Reply(r, "unauthorized") \/ (Live /\ Go(r, "touch"))
    BY <1>11 DEF LoadOwner, authStoreError
  <2> QED BY <1>2, <1>4, <1>5, <1>6, <2>1, <2>2 DEF Live
<1>12. CASE Touch(r)
  BY <1>4, <1>5, <1>12 DEF Touch
<1>13. CASE Finish(r)
  BY <1>1, <1>13, IdleKnown, QuietStep DEF Finish, Become
<1> QED BY <1>7, <1>8, <1>9, <1>10, <1>11, <1>12, <1>13

-----------------------------------------------------------------------------
\* What a reply carries.
LEMMA ReplyRecord ==
    ASSUME AuthInv, NEW r \in Requests, NEW code \in Codes, Reply(r, code)
    PROVE  \E q \in Request : /\ req' = [req EXCEPT ![r] = q]
                              /\ q.pc = code /\ q.row = NoUser /\ q.seen = 0 /\ q.was = FALSE
<1> DEFINE q == [Idle EXCEPT !.pc = code, !.op = req[r].op, !.cred = req[r].cred]
<1>1. req[r] \in Request /\ Idle \in Request
  BY IdleKnown DEF AuthInv, AuthTypeOK
<1>2. q \in Request
  BY <1>1 DEF Request, Places
<1>3. q.row = NoUser /\ q.seen = 0 /\ q.pc = code /\ q.was = FALSE
  BY DEF Idle
<1> QED BY <1>2, <1>3 DEF Reply, Become

\* An answered request knows nothing that could become untrue.
LEMMA AnsweredKnown ==
    ASSUME AuthTypeOK', StoreKnown', NEW q \in Request, q.pc \in Codes,
           q.row = NoUser, q.seen = 0
    PROVE  Known(q)'
<1>1. user'.gen \in Nat /\ NotAhead(NoUser)'
  BY DEF AuthTypeOK, UserRow, StoreKnown
<1>2. q.seen <= user'.gen
  BY <1>1
<1> QED BY <1>1, <1>2 DEF Known, Codes

LEMMA ReplyMoves ==
    ASSUME AuthInv, AuthTypeOK', StoreKnown', Forward,
           NEW r \in Requests, NEW code \in Codes, Reply(r, code)
    PROVE  AuthInv'
<1>1. PICK q \in Request : /\ req' = [req EXCEPT ![r] = q]
                           /\ q.pc = code /\ q.row = NoUser /\ q.seen = 0 /\ q.was = FALSE
  BY ReplyRecord
<1>2. Known(q)'
  BY <1>1, AnsweredKnown
<1> QED BY <1>1, <1>2, OneMoves

LEMMA ReplyTyped ==
    ASSUME AuthInv, NEW r \in Requests, NEW code \in Codes, Reply(r, code)
    PROVE  req' \in [Requests -> Request]
<1>1. PICK q \in Request : req' = [req EXCEPT ![r] = q]
  BY ReplyRecord
<1>2. req \in [Requests -> Request]
  BY DEF AuthInv, AuthTypeOK
<1> QED BY ONLY <1>1, <1>2

\* Time passes.
LEMMA TickStep == ASSUME AuthInv, Tick PROVE AuthInv'
<1>1. /\ UNCHANGED <<user, sess, revoked, tok, mem, req, ended, tried, overlap>> /\ clock' = clock + 1
  BY DEF Tick, Store, Memory, hist
<1>2. clock \in Nat /\ TTL \in Nat /\ revoked \in [Jtis -> Nat] /\ \A j \in Jtis : sess[j].exp \in Nat
  BY AuthAssumption DEF AuthAssumption, AuthInv, AuthTypeOK
<1>3. AuthTypeOK'
  BY <1>1, <1>2 DEF AuthInv, AuthTypeOK
<1>4. \A j \in Jtis : /\ Recorded(j) => Recorded(j)'
                      /\ sess[j].exp <= clock + TTL => sess[j].exp <= clock' + TTL
  BY <1>1, <1>2 DEF Recorded
<1>5. StoreKnown'
  BY <1>1, <1>4 DEF AuthInv, StoreKnown, NotAhead, Issued
<1>6. Forward
  BY <1>1, <1>2, <1>4 DEF Forward, AuthInv, AuthTypeOK, UserRow
<1>7. \A r \in Requests : Known(req[r])'
  <2>1. \A x \in Request : Known(x) => Known(x)'
    BY <1>3, <1>6, KnownKept DEF AuthInv
  <2> QED BY <1>1, <2>1 DEF AuthInv, AuthTypeOK
<1> QED BY <1>3, <1>5, <1>7 DEF AuthInv

\* A restart forgets the memory and the requests.
LEMMA RestartStep == ASSUME AuthInv, Restart PROVE AuthInv'
<1>1. /\ UNCHANGED <<clock, user, sess, revoked, tok, ended, tried, overlap>>
      /\ mem' = [j \in Jtis |-> 0] /\ req' = [r \in Requests |-> Idle]
  BY DEF Restart, Store, hist
<1>2. Idle \in Request /\ Known(Idle)
  BY IdleKnown
<1>3. AuthTypeOK'
  BY <1>1, <1>2 DEF AuthInv, AuthTypeOK
<1>4. StoreKnown'
  BY <1>1 DEF AuthInv, StoreKnown, NotAhead, Issued, Recorded
<1>5. Forward
  BY <1>1 DEF AuthInv, AuthTypeOK, UserRow, Forward, Recorded
<1>6. Known(Idle)'
  BY <1>2, <1>3, <1>5, KnownKept DEF AuthInv
<1> QED BY <1>1, <1>3, <1>4, <1>6 DEF AuthInv

\* The row of revoked_sessions.
LEMMA RevokeStep == ASSUME AuthInv, NEW r \in Requests, RevokeSession(r) PROVE AuthInv'
<1>0. req[r] \in Request /\ Known(req[r]) /\ req[r].pc = "insert"
  BY DEF AuthInv, AuthTypeOK, RevokeSession, At
<1>1. PICK j \in Jtis : j = req[r].cred /\ Issued(j)
  BY <1>0 DEF Known
<1>2. /\ UNCHANGED <<clock, user, sess, tok, mem, ended, overlap>> /\ tried' = tried \cup {j}
  BY <1>1 DEF RevokeSession, Memory
<1>3. PICK done \in BOOLEAN, ok \in BOOLEAN :
         /\ ok => done
         /\ revoked' = IF done THEN Inserted(j) ELSE revoked
         /\ req' = [req EXCEPT ![r] = [req[r] EXCEPT !.pc = "remember", !.ok = ok, !.until = clock + TTL]]
  BY <1>1 DEF RevokeSession, Become
<1>4. clock \in Nat /\ TTL \in Nat /\ revoked \in [Jtis -> Nat] /\ \A k \in Jtis : sess[k].exp \in Nat
  BY AuthAssumption DEF AuthAssumption, AuthInv, AuthTypeOK
<1>5. PICK q \in Request :
         /\ req' = [req EXCEPT ![r] = q] /\ q.pc = "remember" /\ q.ok = ok /\ q.cred = j
         /\ q.row = req[r].row /\ q.seen = req[r].seen /\ q.was = req[r].was
  <2> DEFINE g == [req[r] EXCEPT !.pc = "remember", !.ok = ok, !.until = clock + TTL]
  <2>1. clock + TTL \in Nat /\ "remember" \in Places
    BY <1>4 DEF Places
  <2>2. /\ g \in Request /\ g.pc = "remember" /\ g.ok = ok /\ g.cred = req[r].cred
        /\ g.row = req[r].row /\ g.seen = req[r].seen /\ g.was = req[r].was
    BY <1>0, <2>1 DEF Request
  <2> HIDE DEF g
  <2>3. req' = [req EXCEPT ![r] = g]
    BY <1>3 DEF g
  <2> QED BY <1>1, <2>2, <2>3
<1>7. /\ revoked' \in [Jtis -> Nat]
      /\ \A k \in Jtis : revoked'[k] \in {revoked[k], 0, clock + TTL}
      /\ \A k \in Jtis : revoked'[k] > 0 => revoked[k] > 0 \/ k = j
      /\ \A k \in Jtis : Issued(k) /\ Recorded(k) => Recorded(k)'
      /\ done => Recorded(j)'
  <2>1. CASE ~done
    BY <1>2, <1>3, <1>4, <2>1 DEF Recorded
  <2>2. CASE done
    <3>1. revoked' = [k \in Jtis |-> IF k = j THEN clock + TTL ELSE IF revoked[k] < clock THEN 0 ELSE revoked[k]]
      BY <1>3, <2>2 DEF Inserted
    <3>2. revoked' \in [Jtis -> Nat] /\ \A k \in Jtis : revoked'[k] \in {revoked[k], 0, clock + TTL}
      BY <1>4, <3>1
    <3>3. revoked'[j] = clock + TTL /\ sess[j].exp <= clock + TTL
      BY <1>1, <3>1 DEF AuthInv, StoreKnown
    <3>4. Recorded(j)'
      BY <1>1, <1>2, <1>4, <3>3 DEF Recorded
    <3>5. ASSUME NEW k \in Jtis, k # j, Recorded(k) PROVE Recorded(k)'
      <4>1. revoked'[k] = IF revoked[k] < clock THEN 0 ELSE revoked[k]
        BY <3>1, <3>5
      <4> QED BY <1>2, <1>4, <3>5, <4>1 DEF Recorded
    <3>6. \A k \in Jtis : revoked'[k] > 0 => revoked[k] > 0 \/ k = j
      BY <1>4, <3>1
    <3> QED BY <3>2, <3>4, <3>5, <3>6
  <2> QED BY <2>1, <2>2
<1>8. AuthTypeOK'
  BY <1>1, <1>2, <1>5, <1>7 DEF AuthInv, AuthTypeOK
<1>9. StoreKnown'
  <2>1. \A k \in Jtis : k \in ended => Issued(k) /\ Recorded(k)
    BY DEF AuthInv, StoreKnown
  <2> QED BY <1>2, <1>7, <2>1 DEF AuthInv, StoreKnown, NotAhead, Issued
<1>10. Forward
  BY <1>2, <1>4, <1>7 DEF AuthInv, AuthTypeOK, UserRow, Forward
<1>11. Known(q)'
  <2>1. Recorded(j)' \/ ~ok
    BY <1>3, <1>7
  <2>2. NotAhead(q.row)' /\ q.seen <= user'.gen
    BY <1>0, <1>2, <1>5 DEF Known, NotAhead
  <2>3. Issued(j)' /\ j \in Jtis /\ j \in tried'
    BY <1>1, <1>2 DEF Issued
  <2> QED BY <1>5, <2>1, <2>2, <2>3 DEF Known
<1> QED BY <1>5, <1>8, <1>9, <1>10, <1>11, OneMoves

\* The entry in memory, and the answer to the logout.
LEMMA RememberStep == ASSUME AuthInv, NEW r \in Requests, rememberRevoked(r) PROVE AuthInv'
<1>0. req[r] \in Request /\ Known(req[r]) /\ req[r].pc = "remember" /\ req[r].until \in Nat
  BY DEF AuthInv, AuthTypeOK, rememberRevoked, At, Request
<1>1. PICK j \in Jtis : /\ j = req[r].cred /\ Issued(j) /\ j \in tried
                        /\ req[r].ok => Recorded(j)
  BY <1>0 DEF Known
<1>2. /\ UNCHANGED <<clock, user, sess, revoked, tok, tried, overlap>>
      /\ ended' = IF req[r].ok THEN ended \cup {j} ELSE ended
  BY <1>1 DEF rememberRevoked, Store
<1>3. PICK K \in Kept : mem' = [k \in Jtis |-> IF k = j THEN req[r].until ELSE IF k \in K THEN mem[k] ELSE 0]
  BY <1>1 DEF rememberRevoked
<1>4. PICK code \in Codes : Reply(r, code)
  BY DEF rememberRevoked, Codes
<1>5. mem' \in [Jtis -> Nat] /\ \A k \in Jtis : k # j => mem'[k] \in {0, mem[k]}
  BY <1>0, <1>3 DEF AuthInv, AuthTypeOK
<1>6. AuthTypeOK'
  <2>1. ended' \in SUBSET (Jtis \cup Toks)
    BY <1>2 DEF AuthInv, AuthTypeOK
  <2>2. req' \in [Requests -> Request]
    BY <1>4, ReplyTyped
  <2> QED BY <1>2, <1>5, <2>1, <2>2 DEF AuthInv, AuthTypeOK
<1>7. \A k \in Jtis : Recorded(k)' <=> Recorded(k)
  BY <1>2 DEF Recorded
<1>8. StoreKnown'
  <2>1. \A k \in Jtis : k \in ended' => Issued(k)' /\ Recorded(k)'
    BY <1>1, <1>2, <1>7 DEF AuthInv, StoreKnown, Issued
  <2>2. \A k \in Jtis : mem'[k] > 0 \/ revoked'[k] > 0 => k \in tried'
    BY <1>1, <1>2, <1>5 DEF AuthInv, StoreKnown
  <2>3. \A t \in Toks : t \in ended' => tok'[t].st \in {"revoked", "gone"}
    BY <1>2, AuthAssumption DEF AuthAssumption, AuthInv, StoreKnown
  <2> QED BY <1>2, <2>1, <2>2, <2>3 DEF AuthInv, StoreKnown, NotAhead
<1>9. Forward
  BY <1>2, <1>7 DEF AuthInv, AuthTypeOK, UserRow, Forward
<1> QED BY <1>4, <1>6, <1>8, <1>9, ReplyMoves

\* A session is handed out.
LEMMA IssueStep == ASSUME AuthInv, NEW r \in Requests, Issue(r) PROVE AuthInv'
<1>0. req[r] \in Request /\ Known(req[r]) /\ req[r].row \in UserRow
  BY DEF AuthInv, AuthTypeOK, Request
<1>1. /\ UNCHANGED <<clock, user, revoked, tok, mem, ended, tried, overlap>>
      /\ Reply(r, "ok") /\ "ok" \in Codes
  BY DEF Issue, Memory, hist, Codes
<1>2. PICK row \in UserRow : row = req[r].row /\ NotAhead(row)
  BY <1>0 DEF Known
<1> DEFINE new == [ver |-> row.ver, exp |-> clock + TTL, gen |-> row.gen]
<1>3. PICK j \in Jtis : ~Issued(j) /\ sess' = [sess EXCEPT ![j] = new]
  BY <1>2 DEF Issue, IssueSession
<1>4. clock \in Nat /\ TTL \in Nat /\ row.ver \in Nat /\ row.gen \in Nat
  BY AuthAssumption DEF AuthAssumption, AuthInv, AuthTypeOK, UserRow
<1>5. new \in [ver : Nat, exp : Nat, gen : Nat]
  BY <1>4
<1>6. /\ sess' \in [Jtis -> [ver : Nat, exp : Nat, gen : Nat]] /\ sess'[j] = new
      /\ \A k \in Jtis : k # j => sess'[k] = sess[k]
  BY <1>3, <1>5 DEF AuthInv, AuthTypeOK
<1>7. AuthTypeOK'
  BY <1>1, <1>6, ReplyTyped DEF AuthInv, AuthTypeOK
<1>8. j \notin ended
  BY <1>3 DEF AuthInv, StoreKnown
<1>9. \A k \in Jtis : k # j => (Recorded(k)' <=> Recorded(k)) /\ (Issued(k)' <=> Issued(k))
  BY <1>1, <1>6 DEF Recorded, Issued
<1>10. NotAhead(new)'
  BY <1>1, <1>2 DEF NotAhead
<1>11. StoreKnown'
  <2>1. ASSUME NEW k \in Jtis
        PROVE  sess'[k].exp <= clock' + TTL /\ NotAhead(sess[k])' /\ (k \in ended' => Issued(k)' /\ Recorded(k)')
    <3>1. CASE k = j
      <4>1. sess'[k].exp <= clock' + TTL
        BY <1>1, <1>4, <1>6, <3>1
      <4>2. NotAhead(sess[k])'
        BY <1>1, <1>2, <1>6, <3>1 DEF NotAhead
      <4> QED BY <1>1, <1>8, <3>1, <4>1, <4>2
    <3>2. CASE k # j
      BY <1>1, <1>6, <1>9, <3>2 DEF AuthInv, StoreKnown, NotAhead
    <3> QED BY <3>1, <3>2
  <2> QED BY <1>1, <2>1 DEF AuthInv, StoreKnown, NotAhead
<1>12. Forward
  BY <1>1, <1>3, <1>6, <1>9 DEF AuthInv, AuthTypeOK, UserRow, Forward
<1> QED BY <1>1, <1>7, <1>11, <1>12, ReplyMoves

\* The row of the account goes on to its next write.
LEMMA WriteForward ==
    ASSUME AuthInv, UNCHANGED <<clock, sess, revoked, mem, tok, ended, tried>>,
           user' \in UserRow, user'.gen = user.gen + 1, user.st # "deleted", user'.st # "none",
           overlap' \in BOOLEAN, overlap => overlap', ~overlap' => user'.ver = user'.gen,
           req' \in [Requests -> Request]
    PROVE  AuthTypeOK' /\ StoreKnown' /\ Forward
<1>0. user.gen \in Nat /\ user.ver \in Nat /\ user'.gen \in Nat /\ user'.ver \in Nat
  BY DEF AuthInv, AuthTypeOK, UserRow
<1>1. AuthTypeOK'
  BY DEF AuthInv, AuthTypeOK
<1>2. ASSUME NEW v, v.gen \in Nat, NotAhead(v) PROVE NotAhead(v)'
  BY <1>0, <1>2 DEF NotAhead
<1>3. NotAhead(NoUser)'
  <2>1. NoUser.gen \in Nat
    BY DEF NoUser
  <2> QED BY <1>2, <2>1 DEF AuthInv, StoreKnown
<1>4. \A j \in Jtis : NotAhead(sess[j])'
  <2>1. \A j \in Jtis : sess[j].gen \in Nat /\ NotAhead(sess[j])
    BY DEF AuthInv, AuthTypeOK, StoreKnown
  <2> QED BY <1>0, <2>1 DEF NotAhead
<1>5. StoreKnown'
  BY <1>3, <1>4 DEF AuthInv, StoreKnown, Issued, Recorded
<1>6. Forward
  BY <1>0 DEF AuthInv, AuthTypeOK, Forward, Recorded
<1> QED BY <1>1, <1>5, <1>6

LEMMA CreateStep ==
    ASSUME AuthInv, NEW role \in {"admin", "user"}, NEW pw \in Passwords, CreateUser(role, pw) PROVE AuthInv'
<1>1. /\ UNCHANGED <<clock, sess, revoked, mem, tok, req, ended, tried, overlap>>
      /\ user' = [st |-> "live", pw |-> pw, role |-> role, ver |-> 1, gen |-> 1] /\ user = NoUser
  BY DEF CreateUser, Memory, hist, AuthInv, StoreKnown
<1>2. /\ user' \in UserRow /\ user'.gen = user.gen + 1 /\ user.st # "deleted" /\ user'.st # "none"
      /\ user'.ver = user'.gen
  BY <1>1 DEF NoUser, UserRow
<1>3. AuthTypeOK' /\ StoreKnown' /\ Forward
  BY <1>1, <1>2, WriteForward DEF AuthInv, AuthTypeOK
<1>4. \A x \in Request : Known(x) => Known(x)'
  BY <1>3, KnownKept DEF AuthInv
<1> QED BY <1>1, <1>3, <1>4 DEF AuthInv, AuthTypeOK

\* The row that a change writes over the one there is.
LEMMA ChangeForward ==
    ASSUME AuthInv, NEW r \in Requests, At(r, "write"), Live,
           UNCHANGED <<clock, sess, revoked, mem, tok, ended, tried>>,
           user' = Changed(req[r].row, req[r].op, req[r].new),
           overlap' = (overlap \/ user # req[r].row), req' \in [Requests -> Request]
    PROVE  AuthTypeOK' /\ StoreKnown' /\ Forward
<1>0. req[r] \in Request /\ Known(req[r]) /\ req[r].pc = "write" /\ user.gen \in Nat /\ user.st = "live"
  BY DEF AuthInv, AuthTypeOK, UserRow, At, Live
<1>1. PICK row \in UserRow : row = req[r].row /\ row.st = "live"
  BY <1>0 DEF Known, Request
<1>2. PICK new \in Passwords \cup {NoPassword} : new = req[r].new
  BY <1>0 DEF Request
<1>3. PICK pw \in Passwords \cup {NoPassword} : user' = [row EXCEPT !.pw = pw, !.ver = row.ver + 1, !.gen = user.gen + 1]
  <2>1. row.pw \in Passwords \cup {NoPassword}
    BY DEF UserRow
  <2>2. user' = [row EXCEPT !.pw = IF req[r].op = "delete" THEN row.pw ELSE new, !.ver = row.ver + 1, !.gen = user.gen + 1]
    BY <1>1, <1>2 DEF Changed, UserRow
  <2> QED BY <2>1, <2>2
<1>4. row.ver + 1 \in Nat /\ user.gen + 1 \in Nat
  BY <1>0 DEF UserRow
<1>5. user' \in UserRow /\ user'.gen = user.gen + 1 /\ user'.ver = row.ver + 1 /\ user'.st = "live"
  BY <1>1, <1>3, <1>4 DEF UserRow
<1>6. overlap \in BOOLEAN /\ overlap' \in BOOLEAN
  BY DEF AuthInv, AuthTypeOK
<1>7. ~overlap' => user'.ver = user'.gen
  <2>1. ~overlap' => ~overlap /\ user = row
    BY <1>1
  <2>2. ~overlap => user.ver = user.gen
    BY DEF AuthInv, StoreKnown
  <2> QED BY <1>5, <2>1, <2>2
<1> QED BY <1>0, <1>5, <1>6, <1>7, WriteForward

LEMMA UpdateStep ==
    ASSUME AuthInv, NEW r \in Requests, UpdateUser(r) \/ UpdateUserLost(r) PROVE AuthInv'
<1>0. /\ req[r] \in Request /\ Known(req[r]) /\ req[r].pc = "write" /\ At(r, "write")
      /\ UNCHANGED <<clock, sess, revoked, mem, tok, ended, tried>> /\ "error" \in Codes
  BY DEF AuthInv, AuthTypeOK, UpdateUser, UpdateUserLost, At, Memory, Codes
<1>1. \/ UNCHANGED <<user, overlap>> /\ Reply(r, "error")
      \/ /\ Live /\ user' = Changed(req[r].row, req[r].op, req[r].new)
         /\ overlap' = (overlap \/ user # req[r].row)
         /\ \/ Reply(r, "error")
            \/ req' = [req EXCEPT ![r] = [req[r] EXCEPT !.pc = AfterWrite(req[r].op), !.row = user']]
  <2>1. CASE UpdateUser(r)
    BY <2>1 DEF UpdateUser, StoreFails, Become
  <2>2. CASE UpdateUserLost(r)
    BY <2>2 DEF UpdateUserLost, StoreFails
  <2> QED BY <2>1, <2>2
<1>2. CASE UNCHANGED <<user, overlap>> /\ Reply(r, "error")
  <2>1. Quiet
    BY <1>0, <1>2, SameIsQuiet DEF Store, hist
  <2> QED BY <1>0, <1>2, <2>1, ReplyStep
<1>3. CASE /\ Live /\ user' = Changed(req[r].row, req[r].op, req[r].new)
           /\ overlap' = (overlap \/ user # req[r].row)
           /\ Reply(r, "error")
  <2>1. AuthTypeOK' /\ StoreKnown' /\ Forward
    BY <1>0, <1>3, ReplyTyped, ChangeForward
  <2> QED BY <1>0, <1>3, <2>1, ReplyMoves
<1>4. CASE /\ Live /\ user' = Changed(req[r].row, req[r].op, req[r].new)
           /\ overlap' = (overlap \/ user # req[r].row)
           /\ req' = [req EXCEPT ![r] = [req[r] EXCEPT !.pc = AfterWrite(req[r].op), !.row = user']]
  <2>1. PICK p \in {"issue", "ok", "reread"} : p = AfterWrite(req[r].op)
    BY <1>0 DEF Known, AfterWrite
  <2>2. PICK row \in UserRow : row = user'
    <3>1. req[r].row \in UserRow /\ req[r].new \in Passwords \cup {NoPassword} /\ user.gen + 1 \in Nat
      BY <1>0 DEF Request, AuthInv, AuthTypeOK, UserRow
    <3> DEFINE old == req[r].row
               pw == IF req[r].op = "delete" THEN old.pw ELSE req[r].new
    <3>2. pw \in Passwords \cup {NoPassword} /\ old.ver + 1 \in Nat
      BY <3>1 DEF UserRow
    <3>3. user' = [old EXCEPT !.pw = pw, !.ver = old.ver + 1, !.gen = user.gen + 1]
      BY <1>4, <3>1 DEF Changed, UserRow
    <3> HIDE DEF pw
    <3>4. user' \in UserRow
      BY <3>1, <3>2, <3>3 DEF UserRow
    <3> QED BY <3>4
  <2>3. PICK q \in Request : /\ req' = [req EXCEPT ![r] = q]
                             /\ q.pc = p /\ q.row = row /\ q.seen = req[r].seen
    <3> DEFINE q == [req[r] EXCEPT !.pc = p, !.row = row]
    <3>1. p \in Places
      BY DEF Places, Codes
    <3>2. q \in Request /\ q.pc = p /\ q.row = row /\ q.seen = req[r].seen
      BY <1>0, <3>1 DEF Request
    <3>3. req' = [req EXCEPT ![r] = q]
      BY <1>4, <2>1, <2>2
    <3> QED BY <3>2, <3>3
  <2>4. req' \in [Requests -> Request]
    BY <2>3 DEF AuthInv, AuthTypeOK
  <2>5. AuthTypeOK' /\ StoreKnown' /\ Forward
    BY <1>0, <1>4, <2>4, ChangeForward
  <2>6. NotAhead(row)'
    <3>1. user'.gen \in Nat
      BY <2>5 DEF AuthTypeOK, UserRow
    <3>2. ~overlap' => user'.ver = user'.gen
      BY <2>5 DEF StoreKnown
    <3> QED BY <2>2, <3>1, <3>2 DEF NotAhead
  <2>7. q.seen <= user'.gen
    <3>1. req[r].seen <= user.gen /\ user.gen <= user'.gen
      BY <1>0, <2>5 DEF Known, Forward
    <3>2. req[r].seen \in Nat /\ user.gen \in Nat /\ user'.gen \in Nat
      BY <1>0, <2>5 DEF Request, AuthInv, AuthTypeOK, UserRow
    <3> QED BY <2>3, <3>1, <3>2
  <2>8. Known(q)'
    BY <2>3, <2>6, <2>7 DEF Known
  <2> QED BY <2>3, <2>5, <2>8, OneMoves
<1> QED BY <1>1, <1>2, <1>3, <1>4

\* The account goes, its tokens with it.
LEMMA DeleteStep == ASSUME AuthInv, NEW r \in Requests, DeleteUser(r) PROVE AuthInv'
<1>0. UNCHANGED <<clock, sess, revoked, mem, ended, tried, overlap>> /\ {"ok", "error"} \subseteq Codes
  BY DEF DeleteUser, Memory, hist, Codes
<1>1. \/ UNCHANGED <<user, tok>> /\ Reply(r, "error")
      \/ /\ Live /\ Reply(r, "ok")
         /\ user' = [user EXCEPT !.st = "deleted"]
         /\ tok' = [t \in Toks |-> IF tok[t].st = "none" THEN tok[t] ELSE [tok[t] EXCEPT !.st = "gone"]]
  BY DEF DeleteUser, StoreFails
<1>2. CASE UNCHANGED <<user, tok>> /\ Reply(r, "error")
  <2>1. Quiet
    BY <1>0, <1>2, SameIsQuiet DEF Store, hist
  <2> QED BY <1>0, <1>2, <2>1, ReplyStep
<1>3. CASE /\ Live /\ Reply(r, "ok")
           /\ user' = [user EXCEPT !.st = "deleted"]
           /\ tok' = [t \in Toks |-> IF tok[t].st = "none" THEN tok[t] ELSE [tok[t] EXCEPT !.st = "gone"]]
  <2>1. /\ user' \in UserRow /\ user'.st = "deleted" /\ user'.gen = user.gen /\ user'.ver = user.ver
        /\ user.gen \in Nat /\ user.st = "live"
    BY <1>3 DEF AuthInv, AuthTypeOK, UserRow, Live
  <2>2. tok' \in [Toks -> [st : {"none", "live", "revoked", "gone"}, exp : Nat, scope : {"admin", "repo"}]]
    BY <1>3 DEF AuthInv, AuthTypeOK
  <2>3. AuthTypeOK'
    BY <1>0, <1>3, <2>1, <2>2, ReplyTyped DEF AuthInv, AuthTypeOK
  <2>4. \A t \in Toks : t \in ended' => tok'[t].st \in {"revoked", "gone"}
    BY <1>0, <1>3 DEF AuthInv, AuthTypeOK, StoreKnown
  <2>5. \A v : NotAhead(v)' <=> NotAhead(v)
    BY <1>0, <2>1 DEF NotAhead
  <2>6. \A j \in Jtis : (NotAhead(sess[j])' <=> NotAhead(sess[j])) /\ (Recorded(j)' <=> Recorded(j))
    BY <1>0, <2>1 DEF NotAhead, Recorded
  <2>7. StoreKnown'
    BY <1>0, <2>1, <2>4, <2>5, <2>6 DEF AuthInv, StoreKnown, Issued
  <2>8. Forward
    BY <1>0, <2>1, <2>6 DEF AuthInv, AuthTypeOK, Forward
  <2> QED BY <1>0, <1>3, <2>3, <2>7, <2>8, ReplyMoves
<1> QED BY <1>1, <1>2, <1>3

\* A step that touches the tokens alone.
LEMMA TokenForward ==
    ASSUME AuthInv, UNCHANGED <<clock, user, sess, revoked, mem, tried, overlap>>,
           ended \subseteq ended', ended' \in SUBSET (Jtis \cup Toks), ended' \cap Jtis = ended \cap Jtis,
           tok' \in [Toks -> [st : {"none", "live", "revoked", "gone"}, exp : Nat, scope : {"admin", "repo"}]],
           \A t \in Toks : t \in ended' => tok'[t].st \in {"revoked", "gone"},
           req' \in [Requests -> Request]
    PROVE  AuthTypeOK' /\ StoreKnown' /\ Forward
<1>1. AuthTypeOK'
  BY DEF AuthInv, AuthTypeOK
<1>2. \A j \in Jtis : (NotAhead(sess[j])' <=> NotAhead(sess[j])) /\ (Recorded(j)' <=> Recorded(j))
  BY DEF NotAhead, Recorded
<1>3. NotAhead(NoUser)'
  BY DEF AuthInv, StoreKnown, NotAhead
<1>4. StoreKnown'
  BY <1>2, <1>3 DEF AuthInv, StoreKnown, Issued
<1>5. Forward
  BY <1>2 DEF AuthInv, AuthTypeOK, UserRow, Forward
<1> QED BY <1>1, <1>4, <1>5

LEMMA IssueTokenStep ==
    ASSUME AuthInv, NEW r \in Requests, NEW t \in Toks, NEW scope \in {"admin", "repo"}, NEW ttl \in {0, TTL},
           IssueAPIToken(r, t, scope, ttl)
    PROVE  AuthInv'
<1>0. /\ UNCHANGED <<clock, user, sess, revoked, mem, ended, tried, overlap>> /\ {"ok", "error"} \subseteq Codes
      /\ tok[t].st = "none" /\ clock \in Nat /\ TTL \in Nat
  BY AuthAssumption DEF AuthAssumption, IssueAPIToken, Memory, hist, Codes, AuthInv, AuthTypeOK
<1>1. PICK code \in {"ok", "error"} : Reply(r, code)
  BY DEF IssueAPIToken, StoreFails
<1>2. PICK exp \in Nat : exp = IF ttl > 0 THEN clock + ttl ELSE 0
  BY <1>0
<1>3. tok' = tok \/ tok' = [tok EXCEPT ![t] = [st |-> "live", exp |-> exp, scope |-> scope]]
  BY <1>2 DEF IssueAPIToken
<1>4. tok' \in [Toks -> [st : {"none", "live", "revoked", "gone"}, exp : Nat, scope : {"admin", "repo"}]]
  BY <1>3 DEF AuthInv, AuthTypeOK
<1>5. \A u \in Toks : u \in ended' => tok'[u].st \in {"revoked", "gone"}
  <2>1. t \notin ended
    BY <1>0 DEF AuthInv, StoreKnown
  <2> QED BY <1>0, <1>3, <2>1 DEF AuthInv, AuthTypeOK, StoreKnown
<1>6. ended' \in SUBSET (Jtis \cup Toks) /\ req' \in [Requests -> Request]
  BY <1>0, <1>1, ReplyTyped DEF AuthInv, AuthTypeOK
<1>7. AuthTypeOK' /\ StoreKnown' /\ Forward
  BY <1>0, <1>4, <1>5, <1>6, TokenForward
<1> QED BY <1>0, <1>1, <1>7, ReplyMoves

LEMMA RevokeTokenStep == ASSUME AuthInv, NEW r \in Requests, RevokeToken(r) PROVE AuthInv'
<1>0. /\ UNCHANGED <<clock, user, sess, revoked, mem, tried, overlap>> /\ {"ok", "error"} \subseteq Codes
      /\ req[r].pc = "revoke" /\ Known(req[r])
  BY DEF RevokeToken, At, Memory, Codes, AuthInv
<1>1. PICK t \in Toks : t = req[r].cred
  BY <1>0 DEF Known
<1>2. PICK code \in {"ok", "error"} : Reply(r, code)
  BY DEF RevokeToken, StoreFails
<1>3. \/ tok' = tok /\ ended' = ended
      \/ tok' = [tok EXCEPT ![t].st = "revoked"] /\ ended' = ended \cup {t}
  BY <1>1 DEF RevokeToken
<1>4. tok' \in [Toks -> [st : {"none", "live", "revoked", "gone"}, exp : Nat, scope : {"admin", "repo"}]]
  <2>1. tok \in [Toks -> [st : {"none", "live", "revoked", "gone"}, exp : Nat, scope : {"admin", "repo"}]]
    BY DEF AuthInv, AuthTypeOK
  <2> QED BY ONLY <1>3, <2>1
<1>5. \A u \in Toks : u \in ended' => tok'[u].st \in {"revoked", "gone"}
  BY <1>3 DEF AuthInv, AuthTypeOK, StoreKnown
<1>6. ended' \in SUBSET (Jtis \cup Toks) /\ req' \in [Requests -> Request]
  BY <1>0, <1>2, <1>3, ReplyTyped DEF AuthInv, AuthTypeOK
<1>7. ended' \cap Jtis = ended \cap Jtis /\ ended \subseteq ended'
  BY <1>3, AuthAssumption DEF AuthAssumption
<1>8. AuthTypeOK' /\ StoreKnown' /\ Forward
  BY <1>0, <1>4, <1>5, <1>6, <1>7, TokenForward
<1> QED BY <1>0, <1>2, <1>8, ReplyMoves

-----------------------------------------------------------------------------
LEMMA AuthInit == Init => AuthInv
<1> SUFFICES ASSUME Init PROVE AuthInv
  OBVIOUS
<1>1. NoUser \in UserRow /\ NoUser.gen = 0 /\ NoUser.ver = 0
  BY DEF NoUser, UserRow
<1>2. Idle \in Request
  BY <1>1 DEF Idle, Request, Places, Ops, SessionOps
<1>3. AuthTypeOK
  BY <1>1, <1>2 DEF Init, AuthTypeOK, NoSession, NoToken
<1>4. NotAhead(NoUser)
  BY <1>1 DEF Init, NotAhead
<1>5. StoreKnown
  <2>1. \A j \in Jtis : sess[j] = NoSession /\ sess[j].exp = 0 /\ mem[j] = 0 /\ revoked[j] = 0
    BY DEF Init, NoSession
  <2>2. NotAhead(NoSession)
    BY <1>1 DEF Init, NotAhead, NoSession
  <2>3. clock = 1 /\ TTL \in Nat /\ ended = {} /\ user = NoUser
    BY AuthAssumption DEF AuthAssumption, Init
  <2> QED BY <1>1, <1>4, <2>1, <2>2, <2>3 DEF StoreKnown
<1>6. Known(Idle)
  <2>1. Idle.pc = "idle" /\ Idle.row = NoUser /\ Idle.seen = 0 /\ Idle.was = FALSE /\ user.gen = 0
    BY <1>1 DEF Idle, Init
  <2> QED BY <1>4, <2>1 DEF Known
<1> QED BY <1>3, <1>5, <1>6 DEF Init, AuthInv

LEMMA AuthStep == AuthInv /\ [Next]_vars => AuthInv'
<1> SUFFICES ASSUME AuthInv, [Next]_vars PROVE AuthInv'
  OBVIOUS
<1>1. CASE UNCHANGED vars
  BY <1>1 DEF vars, AuthInv, AuthTypeOK, StoreKnown, Known, NotAhead, Recorded, Issued
<1>2. ASSUME NEW r \in Requests, Step(r) PROVE AuthInv'
  BY <1>2, ValidateSteps, RevokeStep, RememberStep, IssueStep, ReadSteps, UpdateStep, DeleteStep,
     IssueTokenStep, RevokeTokenStep DEF Step
<1> QED BY <1>1, <1>2, TickStep, RestartStep, CreateStep, ArriveSteps DEF Next

\* The store, and what every request goes by, in every reachable state.
THEOREM AuthInvariance == Spec => []AuthInv
BY AuthInit, AuthStep, PTL DEF Spec

-----------------------------------------------------------------------------
\* What a step does to the requests: it moves one, from where its guard says.
LEMMA Moved ==
    ASSUME AuthInv, NEW r \in Requests, NEW f, Become(r, f)
    PROVE  req'[r] = f /\ \A s \in Requests \ {r} : req'[s] = req[s]
BY DEF AuthInv, AuthTypeOK, Become

LEMMA Answered ==
    ASSUME AuthInv, NEW r \in Requests, NEW code, Reply(r, code)
    PROVE  /\ req'[r].pc = code /\ req'[r].op = req[r].op /\ req'[r].cred = req[r].cred
           /\ \A s \in Requests \ {r} : req'[s] = req[s]
<1>1. /\ req'[r] = [Idle EXCEPT !.pc = code, !.op = req[r].op, !.cred = req[r].cred]
      /\ \A s \in Requests \ {r} : req'[s] = req[s]
  BY Moved DEF Reply
<1> QED BY <1>1 DEF Idle

LEMMA Went ==
    ASSUME AuthInv, NEW r \in Requests, NEW p, Go(r, p)
    PROVE  req'[r].pc = p /\ \A s \in Requests \ {r} : req'[s] = req[s]
<1>1. /\ req'[r] = [req[r] EXCEPT !.pc = p] /\ req[r] \in Request
      /\ \A s \in Requests \ {r} : req'[s] = req[s]
  BY Moved DEF Go, AuthInv, AuthTypeOK
<1> QED BY <1>1 DEF Request

\* A request that is refused, and where from.
Refused(r) == req'[r].pc = "unauthorized" /\ req[r].pc # "unauthorized"

LEMMA StepMoves ==
    ASSUME AuthInv, NEW r \in Requests, Step(r)
    PROVE  /\ \A s \in Requests \ {r} : req'[s] = req[s]
           /\ At(r, "table") => CheckRevoked(r)
           /\ Refused(r) => LoadUser(r) \/ revokedInMemory(r) \/ CheckRevoked(r) \/ Login(r) \/ LoadOwner(r)
<1>0. req[r] \in Request
  BY DEF AuthInv, AuthTypeOK
<1>1. ASSUME NEW code, Reply(r, code) \/ StoreFails(r, code) PROVE \A s \in Requests \ {r} : req'[s] = req[s]
  BY <1>1, Answered DEF StoreFails
<1>2. ASSUME NEW code, code # "unauthorized", Reply(r, code) \/ StoreFails(r, code) PROVE ~Refused(r)
  BY <1>2, Answered DEF StoreFails, Refused
<1>3. ASSUME NEW p, Go(r, p) PROVE \A s \in Requests \ {r} : req'[s] = req[s]
  BY <1>3, Went
<1>4. ASSUME NEW p, p # "unauthorized", Go(r, p) PROVE ~Refused(r)
  BY <1>4, Went DEF Refused
<1>5. CASE LoadUser(r)
  BY <1>1, <1>3, <1>5 DEF LoadUser, authStoreError, At
<1>6. CASE revokedInMemory(r)
  BY <1>1, <1>3, <1>6 DEF revokedInMemory, At
<1>7. CASE CheckRevoked(r)
  BY <1>1, <1>3, <1>7 DEF CheckRevoked, authStoreError
<1>8. CASE Served(r)
  BY <1>1, <1>2, <1>8 DEF Served, At
<1>9. CASE RevokeSession(r)
  <2>1. PICK ok \in BOOLEAN : Become(r, [req[r] EXCEPT !.pc = "remember", !.ok = ok, !.until = clock + TTL])
    BY <1>9 DEF RevokeSession
  <2>2. /\ req'[r] = [req[r] EXCEPT !.pc = "remember", !.ok = ok, !.until = clock + TTL]
        /\ \A s \in Requests \ {r} : req'[s] = req[s]
    BY <2>1, Moved
  <2>3. req'[r].pc = "remember"
    BY <1>0, <2>2 DEF Request
  <2> QED BY <1>9, <2>2, <2>3 DEF RevokeSession, At, Refused
<1>10. CASE rememberRevoked(r)
  BY <1>1, <1>2, <1>10 DEF rememberRevoked, At
<1>11. CASE Login(r)
  <2>1. \/ StoreFails(r, "unavailable") \/ Reply(r, "unauthorized")
        \/ \E f : Become(r, f)
    BY <1>11 DEF Login, VerifyPassword, authStoreError
  <2>2. \A s \in Requests \ {r} : req'[s] = req[s]
    BY <1>1, <2>1, Moved
  <2> QED BY <1>11, <2>2 DEF Login, At
<1>12. CASE Issue(r)
  BY <1>1, <1>2, <1>12 DEF Issue, At
<1>13. CASE ReadRow(r)
  <2>1. \/ StoreFails(r, "error") \/ Reply(r, "error")
        \/ \E p \in {"verify", "write"} : Become(r, [req[r] EXCEPT !.pc = p, !.row = user])
    BY <1>13 DEF ReadRow
  <2>2. ASSUME NEW p \in {"verify", "write"}, Become(r, [req[r] EXCEPT !.pc = p, !.row = user])
        PROVE  ~Refused(r) /\ \A s \in Requests \ {r} : req'[s] = req[s]
    <3>1. /\ req'[r] = [req[r] EXCEPT !.pc = p, !.row = user]
          /\ \A s \in Requests \ {r} : req'[s] = req[s]
      BY <2>2, Moved
    <3>2. req'[r].pc = p
      BY <1>0, <3>1 DEF Request
    <3> QED BY <3>1, <3>2 DEF Refused
  <2> QED BY <1>1, <1>2, <1>13, <2>1, <2>2 DEF ReadRow, At
<1>14. CASE VerifyOld(r)
  <2>1. PICK row : \/ StoreFails(r, "unavailable") \/ Reply(r, "error")
                   \/ Become(r, [req[r] EXCEPT !.pc = "write", !.row = row])
    BY <1>14 DEF VerifyOld, VerifyPassword, authStoreError
  <2>2. ASSUME Become(r, [req[r] EXCEPT !.pc = "write", !.row = row])
        PROVE  ~Refused(r) /\ \A s \in Requests \ {r} : req'[s] = req[s]
    <3>1. /\ req'[r] = [req[r] EXCEPT !.pc = "write", !.row = row]
          /\ \A s \in Requests \ {r} : req'[s] = req[s]
      BY <2>2, Moved
    <3>2. req'[r].pc = "write"
      BY <1>0, <3>1 DEF Request
    <3> QED BY <3>1, <3>2 DEF Refused
  <2> QED BY <1>1, <1>2, <1>14, <2>1, <2>2 DEF VerifyOld, At
<1>15. CASE UpdateUser(r)
  <2>1. PICK row : \/ StoreFails(r, "error") \/ Reply(r, "error")
                   \/ Become(r, [req[r] EXCEPT !.pc = AfterWrite(req[r].op), !.row = row])
    BY <1>15 DEF UpdateUser
  <2>2. ASSUME Become(r, [req[r] EXCEPT !.pc = AfterWrite(req[r].op), !.row = row])
        PROVE  ~Refused(r) /\ \A s \in Requests \ {r} : req'[s] = req[s]
    <3>0. PICK p \in {"issue", "ok", "reread"} : p = AfterWrite(req[r].op)
      <4>1. req[r].op \in {"change", "set", "delete"}
        BY <1>15 DEF UpdateUser, At, AuthInv, Known
      <4> QED BY <4>1 DEF AfterWrite
    <3>1. /\ req'[r] = [req[r] EXCEPT !.pc = p, !.row = row]
          /\ \A s \in Requests \ {r} : req'[s] = req[s]
      BY <2>2, <3>0, Moved
    <3>2. req'[r].pc = p
      BY <1>0, <3>1 DEF Request
    <3> QED BY <3>1, <3>2 DEF Refused
  <2> QED BY <1>1, <1>2, <1>15, <2>1, <2>2 DEF UpdateUser, At
<1>16. CASE UpdateUserLost(r)
  BY <1>1, <1>2, <1>16 DEF UpdateUserLost, At
<1>17. CASE Reread(r)
  BY <1>1, <1>2, <1>3, <1>4, <1>17 DEF Reread, At
<1>18. CASE DeleteUser(r)
  BY <1>1, <1>2, <1>18 DEF DeleteUser, At
<1>19. ASSUME NEW t \in Toks, NEW scope \in {"admin", "repo"}, NEW ttl \in {0, TTL}, IssueAPIToken(r, t, scope, ttl)
       PROVE  ~Refused(r) /\ (\A s \in Requests \ {r} : req'[s] = req[s]) /\ At(r, "create")
  <2>1. PICK code \in {"ok", "error"} : Reply(r, code)
    BY <1>19 DEF IssueAPIToken, StoreFails
  <2> QED BY <1>1, <1>2, <1>19, <2>1 DEF IssueAPIToken
<1>20. CASE LoadOwner(r)
  BY <1>1, <1>3, <1>20 DEF LoadOwner, authStoreError, At
<1>21. CASE Touch(r)
  BY <1>3, <1>4, <1>21 DEF Touch, At
<1>22. CASE RevokeToken(r)
  BY <1>1, <1>2, <1>22 DEF RevokeToken, At
<1>23. CASE Finish(r)
  <2>1. req'[r].pc = "idle" /\ \A s \in Requests \ {r} : req'[s] = req[s]
    BY <1>23, Moved DEF Finish, Idle
  <2> QED BY <1>23, <2>1 DEF Finish, At, Codes, Refused
<1>24. At(r, "create") => ~At(r, "table")
  BY DEF At
<1> QED BY <1>5, <1>6, <1>7, <1>8, <1>9, <1>10, <1>11, <1>12, <1>13, <1>14, <1>15, <1>16, <1>17, <1>18, <1>19,
           <1>20, <1>21, <1>22, <1>23, <1>24 DEF Step

\* Every step, as a request sees it.
LEMMA RequestSees ==
    ASSUME AuthInv, [Next]_vars, NEW r \in Requests
    PROVE  \/ req'[r] = req[r] \/ req'[r].pc = "idle"
           \/ Step(r) /\ calls' = calls
           \/ Arrive(r)
<1>1. CASE UNCHANGED vars
  BY <1>1 DEF vars
<1>2. CASE Tick \/ \E role \in {"admin", "user"}, pw \in Passwords : CreateUser(role, pw)
  BY <1>2 DEF Tick, CreateUser
<1>3. CASE Restart
  BY <1>3 DEF Restart, Idle
<1>4. ASSUME NEW s \in Requests, Step(s), UNCHANGED calls
      PROVE  (Step(r) /\ calls' = calls) \/ req'[r] = req[r]
  BY <1>4, StepMoves
<1>5. ASSUME NEW s \in Requests, Arrive(s), s # r PROVE req'[r] = req[r]
  <2>1. \E f : Become(s, f)
    BY <1>5 DEF Arrive, Parse, BeginLogin, BeginAdmin, BeginCreateToken, LookupToken, BeginRevokeToken
  <2> QED BY <1>5, <2>1, Moved
<1> QED BY <1>1, <1>2, <1>3, <1>4, <1>5 DEF Next

LEMMA ArriveStarts == ASSUME NEW r \in Requests, Arrive(r) PROVE At(r, "idle")
BY DEF Arrive, Parse, BeginLogin, BeginAdmin, BeginCreateToken, LookupToken, BeginRevokeToken

\* Whoever passes the table with a session that had ended passes after its time.
LEMMA EndedStep ==
    ASSUME AuthInv, [Next]_vars, NEW r \in Requests, Accepted(r), req[r].was
    PROVE  req[r].op \in SessionOps /\ clock >= sess[req[r].cred].exp
<1>0. Known(req[r]) /\ req[r].pc \in {"table", "touch"} /\ req'[r].pc \in {"accepted", "insert", "read"}
  BY DEF AuthInv, Accepted
<1>1. req[r].pc = "table" /\ req[r].op \in SessionOps /\ req[r].cred \in ended /\ req[r].cred \in Jtis
  BY <1>0 DEF Known
<1>2. CheckRevoked(r)
  <2>1. ~At(r, "idle") /\ At(r, "table") /\ req'[r] # req[r] /\ req'[r].pc # "idle"
    BY <1>0, <1>1 DEF At
  <2> QED BY <2>1, RequestSees, StepMoves, ArriveStarts
<1>3. ~IsRevoked(req[r].cred)
  <2>1. StoreFails(r, "unavailable") \/ (IsRevoked(req[r].cred) /\ Reply(r, "unauthorized")) \/ ~IsRevoked(req[r].cred)
    BY <1>2 DEF CheckRevoked, authStoreError
  <2> QED BY <1>0, <2>1, Answered DEF StoreFails
<1>4. PICK j \in Jtis : j = req[r].cred /\ Issued(j) /\ Recorded(j)
  BY <1>1 DEF AuthInv, StoreKnown
<1>5. clock \in Nat /\ revoked[j] \in Nat /\ sess[j].exp \in Nat
  BY DEF AuthInv, AuthTypeOK
<1>6. clock >= sess[j].exp
  BY <1>3, <1>4, <1>5 DEF IsRevoked, Recorded, Issued
<1> QED BY <1>1, <1>4, <1>6

\* A session whose logout was acknowledged, a token whose revocation was, and
\* the credentials of a deleted account are refused to every request that
\* comes in later, through restarts, overflows of the memory and failures of
\* the catalogue (RevokeSession, rememberRevoked, ValidateSession,
\* VerifyAPIToken).  The table is what carries the argument: its row is
\* written before the acknowledgement and kept as long as the session lasts.
THEOREM EndedStayRefused == Spec => EndedRefused
<1>1. AuthInv /\ [Next]_vars =>
        [\A r \in Requests : (Accepted(r) /\ req[r].was) =>
            req[r].op \in SessionOps /\ clock >= sess[req[r].cred].exp]_vars
  BY EndedStep
<1> QED BY <1>1, AuthInvariance, PTL DEF Spec, EndedRefused

\* A request that comes in after a change of the row is not let through with
\* a session of an earlier row, unless two changes have overlapped
\* (ChangePassword, AdminSetPassword, DeleteUser; ValidateSession).
THEOREM ChangesEndSessions == Spec => ChangeEndsSessions
<1>1. AuthInv /\ [Next]_vars =>
        [\A r \in Requests : (Accepted(r) /\ req[r].op \in SessionOps /\ req[r].seen > sess[req[r].cred].gen)
            => overlap]_vars
  <2> SUFFICES ASSUME AuthInv, NEW r \in Requests, Accepted(r), req[r].op \in SessionOps,
                      req[r].seen > sess[req[r].cred].gen, ~overlap
               PROVE  FALSE
    OBVIOUS
  <2>1. Known(req[r]) /\ req[r].pc \in {"table", "touch"} /\ req[r] \in Request
    BY DEF AuthInv, AuthTypeOK, Accepted
  <2>2. req[r].pc = "table" /\ req[r].cred \in Jtis /\ req[r].seen <= sess[req[r].cred].gen
    BY <2>1 DEF Known, SessionOps
  <2>3. PICK j \in Jtis : j = req[r].cred
    BY <2>2
  <2>4. req[r].seen \in Nat /\ sess[j].gen \in Nat
    BY <2>1 DEF AuthInv, AuthTypeOK, Request
  <2> QED BY <2>2, <2>3, <2>4
<1> QED BY <1>1, AuthInvariance, PTL DEF Spec, ChangeEndsSessions

LEMMA RefusedStep ==
    ASSUME AuthInv, [Next]_vars, NEW r \in Requests, Refused(r)
    PROVE  /\ req'[r].op \in SessionOps => SessionOver(req'[r].cred)
           /\ req'[r].op = "token" => TokenOver(req'[r].cred)
<1>0. /\ Known(req[r]) /\ req[r] \in Request /\ clock \in Nat /\ user.gen \in Nat /\ user.ver \in Nat
      /\ req'[r] # req[r] /\ req'[r].pc = "unauthorized"
  BY DEF AuthInv, AuthTypeOK, UserRow, Refused
<1>1. Step(r) \/ Arrive(r)
  BY <1>0, RequestSees
<1>2. /\ LoadUser(r) \/ revokedInMemory(r) \/ CheckRevoked(r) \/ Login(r) \/ LoadOwner(r)
         => req'[r].op = req[r].op /\ req'[r].cred = req[r].cred
  <2>1. LoadUser(r) => StoreFails(r, "unavailable") \/ Reply(r, "unauthorized") \/ Go(r, "memory")
    BY DEF LoadUser, authStoreError
  <2>2. revokedInMemory(r) => Reply(r, "unauthorized") \/ Go(r, "table")
    BY DEF revokedInMemory
  <2>3. CheckRevoked(r) => StoreFails(r, "unavailable") \/ Reply(r, "unauthorized") \/ Go(r, Handler(req[r].op))
    BY DEF CheckRevoked, authStoreError
  <2>4. LoadOwner(r) => StoreFails(r, "unavailable") \/ Reply(r, "unauthorized") \/ Go(r, "touch")
    BY DEF LoadOwner, authStoreError
  <2>5. ASSUME NEW p, Go(r, p) PROVE req'[r].op = req[r].op /\ req'[r].cred = req[r].cred
    <3>1. req'[r] = [req[r] EXCEPT !.pc = p]
      BY <2>5, Moved DEF Go
    <3> QED BY <1>0, <3>1 DEF Request
  <2>6. ASSUME NEW code, Reply(r, code) \/ StoreFails(r, code)
        PROVE  req'[r].op = req[r].op /\ req'[r].cred = req[r].cred
    BY <2>6, Answered DEF StoreFails
  <2>7. Login(r) => \/ StoreFails(r, "unavailable") \/ Reply(r, "unauthorized")
                    \/ \E row : Become(r, [req[r] EXCEPT !.pc = "issue", !.row = row])
    BY DEF Login, VerifyPassword, authStoreError
  <2>8. ASSUME NEW row, Become(r, [req[r] EXCEPT !.pc = "issue", !.row = row])
        PROVE  req'[r].op = req[r].op /\ req'[r].cred = req[r].cred
    <3>1. req'[r] = [req[r] EXCEPT !.pc = "issue", !.row = row]
      BY <2>8, Moved
    <3> QED BY <1>0, <3>1 DEF Request
  <2> QED BY <2>1, <2>2, <2>3, <2>4, <2>5, <2>6, <2>7, <2>8
<1>3. ASSUME NEW code, Reply(r, code) \/ StoreFails(r, code) PROVE req'[r].pc = code
  BY <1>3, Answered DEF StoreFails
<1>4. ASSUME NEW p, Go(r, p) PROVE req'[r].pc = p
  BY <1>4, Went
<1>5. CASE LoadUser(r)
  <2>1. PICK j \in Jtis : j = req[r].cred /\ req[r].op \in SessionOps
    BY <1>0, <1>5 DEF LoadUser, At, Known
  <2>2. ~Live \/ user.ver # sess[j].ver
    BY <1>0, <1>3, <1>4, <1>5, <2>1 DEF LoadUser, authStoreError
  <2>3. NotAhead(sess[j]) /\ sess[j].gen \in Nat
    BY DEF AuthInv, AuthTypeOK, StoreKnown
  <2>4. SessionOver(j)
    BY <1>0, <2>2, <2>3 DEF SessionOver, NotAhead
  <2> QED BY <1>2, <1>5, <2>1, <2>4 DEF SessionOps
<1>6. CASE revokedInMemory(r)
  <2>1. PICK j \in Jtis : j = req[r].cred /\ req[r].op \in SessionOps
    BY <1>0, <1>6 DEF revokedInMemory, At, Known
  <2>2. clock < mem[j]
    BY <1>0, <1>3, <1>4, <1>6, <2>1 DEF revokedInMemory
  <2>3. j \in tried
    BY <1>0, <2>2 DEF AuthInv, AuthTypeOK, StoreKnown
  <2> QED BY <1>2, <1>6, <2>1, <2>3 DEF SessionOps, SessionOver
<1>7. CASE CheckRevoked(r)
  <2>1. PICK j \in Jtis : j = req[r].cred /\ req[r].op \in SessionOps
    BY <1>0, <1>7 DEF CheckRevoked, At, Known
  <2>2. Handler(req[r].op) # "unauthorized"
    BY <2>1 DEF Handler, SessionOps
  <2>3. IsRevoked(j)
    BY <1>0, <1>3, <1>4, <1>7, <2>1, <2>2 DEF CheckRevoked, authStoreError
  <2>4. j \in tried
    BY <2>3 DEF IsRevoked, AuthInv, StoreKnown
  <2> QED BY <1>2, <1>7, <2>1, <2>4 DEF SessionOps, SessionOver
<1>8. CASE Login(r)
  <2>1. req[r].op = "login"
    BY <1>0, <1>8 DEF Login, At, Known
  <2> QED BY <1>2, <1>8, <2>1 DEF SessionOps
<1>9. CASE LoadOwner(r)
  <2>1. req[r].op = "token"
    BY <1>0, <1>9 DEF LoadOwner, At, Known
  <2>2. ~Live \/ adminScopeRequiresLiveAdmin(req[r].cred)
    BY <1>0, <1>3, <1>4, <1>9 DEF LoadOwner, authStoreError
  <2> QED BY <1>2, <1>9, <2>1, <2>2 DEF SessionOps, TokenOver
<1>10. ASSUME NEW j \in Jtis, NEW op \in SessionOps, NEW old, NEW new, Parse(r, j, op, old, new)
       PROVE  /\ req'[r].op \in SessionOps => SessionOver(req'[r].cred)
              /\ req'[r].op = "token" => TokenOver(req'[r].cred)
  <2> DEFINE p == IF clock < sess[j].exp THEN "user" ELSE "unauthorized"
             b == Over(j)
  <2>1. req'[r] = [Idle EXCEPT !.pc = p, !.op = op, !.cred = j, !.pw = old, !.new = new, !.was = b, !.seen = user.gen]
    BY <1>10, Moved DEF Parse
  <2> HIDE DEF p, b
  <2>2. req'[r].op = op /\ req'[r].cred = j /\ req'[r].pc = p
    BY <2>1 DEF Idle
  <2>3. sess[j].exp \in Nat
    BY DEF AuthInv, AuthTypeOK
  <2>4. clock >= sess[j].exp
    BY <1>0, <2>2, <2>3 DEF p
  <2> QED BY <2>2, <2>4 DEF SessionOver, SessionOps
<1>11. ASSUME NEW t \in Toks, LookupToken(r, t)
       PROVE  /\ req'[r].op \in SessionOps => SessionOver(req'[r].cred)
              /\ req'[r].op = "token" => TokenOver(req'[r].cred)
  <2> DEFINE b == Over(t)
             begun == [Idle EXCEPT !.op = "token", !.cred = t, !.was = b]
             valid == tok[t].st = "live" /\ (tok[t].exp = 0 \/ clock < tok[t].exp)
  <2>1. PICK p : /\ p = "unavailable" \/ p = IF valid THEN "owner" ELSE "unauthorized"
                 /\ Become(r, [begun EXCEPT !.pc = p])
    BY <1>11 DEF LookupToken
  <2>2. req'[r] = [begun EXCEPT !.pc = p]
    BY <2>1, Moved
  <2> HIDE DEF b
  <2>3. req'[r].op = "token" /\ req'[r].cred = t /\ req'[r].pc = p
    BY <2>2 DEF Idle
  <2>4. ~valid
    BY <1>0, <2>1, <2>3
  <2>5. tok[t].exp \in Nat
    BY DEF AuthInv, AuthTypeOK
  <2>6. TokenOver(t)
    BY <1>0, <2>4, <2>5 DEF TokenOver
  <2> QED BY <2>3, <2>6 DEF SessionOps
<1>12. ASSUME \/ \E pw \in Passwords : BeginLogin(r, pw) \/ BeginAdmin(r, "set", pw)
              \/ BeginAdmin(r, "delete", NoPassword)
              \/ BeginCreateToken(r)
              \/ \E t \in Toks : BeginRevokeToken(r, t)
       PROVE  FALSE
  <2>1. ASSUME NEW pw, NEW op, BeginLogin(r, pw) \/ BeginAdmin(r, op, pw) PROVE FALSE
    <3>1. \/ req'[r] = [Idle EXCEPT !.pc = "login", !.op = "login", !.pw = pw]
          \/ req'[r] = [Idle EXCEPT !.pc = "read", !.op = op, !.new = pw]
      BY <2>1, Moved DEF BeginLogin, BeginAdmin
    <3> QED BY <1>0, <3>1 DEF Idle
  <2>2. ASSUME BeginCreateToken(r) PROVE FALSE
    <3>1. req'[r] = [Idle EXCEPT !.pc = "create", !.op = "create"]
      BY <2>2, Moved DEF BeginCreateToken
    <3> QED BY <1>0, <3>1 DEF Idle
  <2>3. ASSUME NEW t \in Toks, BeginRevokeToken(r, t) PROVE FALSE
    <3> DEFINE p == IF tok[t].st = "gone" THEN "error" ELSE "revoke"
    <3>1. req'[r] = [Idle EXCEPT !.pc = p, !.op = "revoke", !.cred = t]
      BY <2>3, Moved DEF BeginRevokeToken
    <3> HIDE DEF p
    <3>2. req'[r].pc = p
      BY <3>1 DEF Idle
    <3> QED BY <1>0, <3>2 DEF p
  <2> QED BY <1>12, <2>1, <2>2, <2>3
<1>13. {"use", "logout"} \subseteq SessionOps /\ "change" \in SessionOps
  BY DEF SessionOps
<1>14. CASE Step(r)
  BY <1>5, <1>6, <1>7, <1>8, <1>9, <1>14, StepMoves
<1>15. CASE Arrive(r)
  BY <1>10, <1>11, <1>12, <1>13, <1>15 DEF Arrive
<1> QED BY <1>1, <1>14, <1>15

\* 401 is the answer to a credential that is over, and to no other: neither a
\* failure of the catalogue nor a race between requests refuses a session or
\* a token that is good (ValidateSession, VerifyAPIToken, authStoreError).
THEOREM RefusalsHaveCause == Spec => RefusedForCause
<1>1. AuthInv /\ [Next]_vars =>
        [\A r \in Requests : (req'[r].pc = "unauthorized" /\ req[r].pc # "unauthorized") =>
            /\ req'[r].op \in SessionOps => SessionOver(req'[r].cred)
            /\ req'[r].op = "token" => TokenOver(req'[r].cred)]_vars
  BY RefusedStep DEF Refused
<1> QED BY <1>1, AuthInvariance, PTL DEF Spec, RefusedForCause
=============================================================================
