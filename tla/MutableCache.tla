---------------------------- MODULE MutableCache ----------------------------
(***************************************************************************)
(* The mutable half of the pull-through cache engine                       *)
(* (internal/core/engine/cache/engine.go): repository indexes that change  *)
(* upstream and are revalidated by TTL.                                    *)
(*                                                                         *)
(* A request (proxy fetch, range fetch or mirror prefetch) reads the index *)
(* row of its key, serves a fresh row, honours the negative cache, or joins*)
(* the singleflight of the key.  The leader of a flight re-reads the row,  *)
(* asks upstream, writes the body under a fresh versioned storage key,     *)
(* commits it, moves the index row and schedules the old version for       *)
(* background deletion.                                                    *)
(*                                                                         *)
(* Abstractions:                                                           *)
(*  - the bytes of an object are the upstream version they were read from, *)
(*    and its validators (ETag, Last-Modified) are that version too;       *)
(*  - time is a discrete clock;                                            *)
(*  - the cancellation of the leader's context is one of the reasons why a *)
(*    step of a flight fails, and is covered by the failures of the steps; *)
(*  - metrics and the transaction history are left out.                    *)
(***************************************************************************)
EXTENDS Integers, Sequences, FiniteSets

CONSTANTS
    Keys,             \* logical keys (port.Target.StorageKey) of mutable objects
    Clients,          \* request slots
    None,             \* no row / no flight / no negative entry
    TTL,              \* class.TTL
    NegativeTTL404,   \* cfg.NegativeTTL404, 0 disables
    NegativeTTL5xx,   \* cfg.NegativeTTL5xx, 0 disables
    NegativeCap,      \* negativeCap
    StaleIfError,     \* cfg.StaleIfError
    Faults,           \* which operations of the environment may fail
    MaxTransfer,      \* longest time from an upstream answer to the index write
    MaxClock, MaxVersion, MaxSeq, MaxCrashes   \* bounds of the model

\* index_read  ObjectMeta fails although the row exists (database trouble)
\* index_write PutObjectMeta fails and leaves the row alone
\* stat        Stat or Get fails although the object is stored
\* commit      Writer.Commit fails and nothing becomes visible
\* commit_seen Writer.Commit fails after the rename: the object is visible
\* delete      the background Delete fails or panics
\* scan        the sweeper fails to read the index, the catalogue or a listing
\* upstream    transport errors, 5xx, odd statuses, broken bodies
FaultKinds == {"index_read", "index_write", "stat", "commit", "commit_seen",
               "delete", "upstream", "scan"}

Blob == [key : Keys, n : Nat, ver : Nat, mtime : Nat]
Row == [ver : Nat, blob : Blob, exp : Nat]
Negative == [until : Nat, err : {"nf", "up"}]
FlightPcs == {"recheck", "ask", "extend", "body", "put"}
Flight == [pc : FlightPcs, old : Row \cup {None}, ver : Nat, n : Nat, at : Nat]
ReqPcs == {"idle", "hit", "neg", "join", "wait", "flightErr", "reload",
           "final", "resolved", "failed"}
Outs == {"", "HIT", "MISS", "STALE", "nf", "up", "other", "missing"}
Request == [pc : ReqPcs, key : Keys, lead : Clients,
            row : Row \cup {None}, out : Outs]

ASSUME CacheAssumption ==
    /\ Keys # {} /\ Clients # {}
    /\ TTL \in Nat /\ NegativeTTL404 \in Nat /\ NegativeTTL5xx \in Nat
    /\ NegativeCap \in Nat
    /\ StaleIfError \in BOOLEAN
    /\ Faults \subseteq FaultKinds
    /\ MaxTransfer \in Nat /\ MaxClock \in Nat /\ MaxVersion \in Nat
    /\ MaxSeq \in Nat /\ MaxCrashes \in Nat

ASSUME NoneAssumption ==
    None \notin Row /\ None \notin Flight /\ None \notin Negative

VARIABLES
    clock,      \* port.Clock
    pub,        \* pub[k][v]: when upstream published version v of k
    index,      \* the object_index table: the row of a key, or None
    store,      \* committed objects of the storage
    seq,        \* e.nonce and e.seq: numbers every version ever written
    negative,   \* e.negative
    flight,     \* e.flights: the flight a client leads, or None
    req,        \* requests in progress
    deletes,    \* background deletions scheduled and not yet executed
    crashes     \* restarts of the process so far

vars == <<clock, pub, index, store, seq, negative, flight, req, deletes, crashes>>

-----------------------------------------------------------------------------
(* Helpers *)

\* The version upstream holds now.
Ver(k) == Len(pub[k])

\* A request slot between two requests.
IdleReq(c) == [pc |-> "idle", key |-> CHOOSE k \in Keys : TRUE, lead |-> c,
               row |-> None, out |-> ""]

\* The request of c moves on: another program counter, row in hand, outcome.
Go(c, pc, row, out) == [pc |-> pc, key |-> req[c].key, lead |-> req[c].lead,
                        row |-> row, out |-> out]

\* The local state of fetchOnce.
Phase(pc, old, ver, n, at) == [pc |-> pc, old |-> old, ver |-> ver, n |-> n, at |-> at]

\* Mutant of Expired: an expired row is still served for a while.
ExpiredLate(row) == row.exp + TTL + MaxTransfer < clock

\* ObjectMeta.Expired (a mutable row always has a non-zero ExpiresAt).
Expired(row) == row.exp <= clock

\* A row that is served without asking upstream.
Fresh(row) == row # None /\ ~Expired(row)

\* What a read of the index may return: any error is taken as "no row".
IndexReads(k) ==
    {index[k]} \cup (IF "index_read" \in Faults THEN {None} ELSE {})

\* storage.Stat / storage.Get of the bytes of a row.
StatResults(row) ==
    IF row.blob \in store
    THEN {TRUE} \cup (IF "stat" \in Faults THEN {FALSE} ELSE {})
    ELSE {FALSE}

\* negativeError: an entry that has not run out.
NegativeActive(k) == negative[k] # None /\ clock < negative[k].until

\* rememberNegative: a full table loses an arbitrary entry first.
RememberNegative(k, ttl, err) ==
    IF ttl = 0 THEN UNCHANGED negative
    ELSE LET taken == {j \in Keys : negative[j] # None}
             entry == [until |-> clock + ttl, err |-> err]
         IN IF Cardinality(taken) >= NegativeCap /\ taken # {}
            THEN \E j \in taken :
                   negative' = [negative EXCEPT ![j] = None, ![k] = entry]
            ELSE negative' = [negative EXCEPT ![k] = entry]

\* The object a leader is writing: its storage key is versionedKey, its
\* ModTime is not before the upstream answer.
FlightBlob(l) == [key |-> req[l].key, n |-> flight[l].n, ver |-> flight[l].ver,
                  mtime |-> flight[l].at]

\* The participants of the flight that l leads, l itself included.
Waiting(l) == {c \in Clients : req[c].pc = "wait" /\ req[c].lead = l}

\* staleServeMeta: only for a failing upstream, never for a 404.
StaleAllowed(row, err) == row # None /\ StaleIfError /\ err = "up"

-----------------------------------------------------------------------------
Init ==
    /\ clock = 0
    /\ pub = [k \in Keys |-> <<0>>]
    /\ index = [k \in Keys |-> None]
    /\ store = {}
    /\ seq = 0
    /\ negative = [k \in Keys |-> None]
    /\ flight = [c \in Clients |-> None]
    /\ req = [c \in Clients |-> IdleReq(c)]
    /\ deletes = {}
    /\ crashes = 0

-----------------------------------------------------------------------------
(* Requests: fetchMutableMeta and prefetchMutable up to the flight *)

\* The row is read and its expiry checked; a fresh row goes to Stat.
FetchMeta(c, k) ==
    /\ req[c].pc = "idle"
    /\ \E row \in IndexReads(k) :
         req' = [req EXCEPT ![c] =
                   [pc  |-> IF Fresh(row) THEN "hit" ELSE "neg",
                    key |-> k, lead |-> c, row |-> row, out |-> ""]]
    /\ UNCHANGED <<clock, pub, index, store, seq, negative, flight, deletes, crashes>>

\* resolveAt of a fresh row; a failing Stat degrades to revalidation.
Hit(c) ==
    /\ req[c].pc = "hit"
    /\ \E ok \in StatResults(req[c].row) :
         req' = [req EXCEPT ![c] =
                   IF ok THEN Go(c, "resolved", req[c].row, "HIT")
                   ELSE Go(c, "neg", req[c].row, "")]
    /\ UNCHANGED <<clock, pub, index, store, seq, negative, flight, deletes, crashes>>

\* The negative cache: a stale copy if allowed, the remembered error, or on.
CheckNegative(c) ==
    LET k == req[c].key
        err == negative[k].err
    IN
    /\ req[c].pc = "neg"
    /\ \/ /\ ~NegativeActive(k)
          /\ req' = [req EXCEPT ![c] = Go(c, "join", req[c].row, "")]
       \/ /\ NegativeActive(k)
          /\ StaleAllowed(req[c].row, err)
          /\ \E ok \in StatResults(req[c].row) :
               req' = [req EXCEPT ![c] =
                         IF ok THEN Go(c, "resolved", req[c].row, "STALE")
                         ELSE Go(c, "failed", req[c].row, err)]
       \/ /\ NegativeActive(k)
          /\ ~StaleAllowed(req[c].row, err)
          /\ req' = [req EXCEPT ![c] = Go(c, "failed", req[c].row, err)]
    /\ UNCHANGED <<clock, pub, index, store, seq, negative, flight, deletes, crashes>>

\* Mutant of LeadersOf: no singleflight, every caller leads.
LeadersForgotten(k) == {}

\* The flight of a key that a caller of Do finds, if any: its leader.
LeadersOf(k) == {l \in Clients : flight[l] # None /\ req[l].key = k}

\* flights.Do: the first caller of a key leads, the others wait for it.
Join(c) ==
    LET leaders == LeadersOf(req[c].key) IN
    /\ req[c].pc = "join"
    /\ \/ /\ leaders = {}
          /\ req' = [req EXCEPT ![c] = [Go(c, "wait", req[c].row, "") EXCEPT !.lead = c]]
          /\ flight' = [flight EXCEPT ![c] = Phase("recheck", None, 0, 0, clock)]
       \/ /\ \E l \in leaders :
               req' = [req EXCEPT ![c] = [Go(c, "wait", req[c].row, "") EXCEPT !.lead = l]]
          /\ UNCHANGED flight
    /\ UNCHANGED <<clock, pub, index, store, seq, negative, deletes, crashes>>

-----------------------------------------------------------------------------
(* The flight of a key: revalidate and fetchOnce, run by the leader *)

\* A flight ends: every participant goes on with its own result.
FlightEnds(l, result) ==
    /\ flight' = [flight EXCEPT ![l] = None]
    /\ req' = [c \in Clients |-> IF c \in Waiting(l) THEN result[c] ELSE req[c]]

\* Mutant of FlightFails: the followers are not woken up.
FlightFailsLeaderOnly(l, err) ==
    FlightEnds(l, [c \in Clients |->
        IF c = l THEN Go(c, "flightErr", flight[l].old, err) ELSE req[c]])

\* The end of a flight with an error.  revalidate writes the re-read row
\* through the leader's pointer; the followers keep the row they had read.
FlightFails(l, err) ==
    FlightEnds(l, [c \in Clients |->
        Go(c, "flightErr", IF c = l THEN flight[l].old ELSE req[c].row, err)])

\* The end of a flight with a row every participant serves.
FlightReturns(l, row, out) ==
    FlightEnds(l, [c \in Clients |-> Go(c, "final", row, out)])

\* The leader re-reads the row: a fresh one ends the flight with (nil, nil).
Recheck(l) ==
    /\ flight[l] # None /\ flight[l].pc = "recheck"
    /\ \E row \in IndexReads(req[l].key) :
         \/ /\ Fresh(row)
            /\ FlightEnds(l, [c \in Clients |-> Go(c, "reload", req[c].row, "")])
         \/ /\ ~Fresh(row)
            /\ flight' = [flight EXCEPT ![l] = Phase("ask", row, 0, 0, @.at)]
            /\ UNCHANGED req
    /\ UNCHANGED <<clock, pub, index, store, seq, negative, deletes, crashes>>

\* Upstream answers 304 only to a validator of the version it holds.
NotModified(l) == flight[l].old # None /\ flight[l].old.ver = Ver(req[l].key)

\* 304: the row will be extended.
Ask304(l) ==
    /\ flight[l] # None /\ flight[l].pc = "ask"
    /\ NotModified(l)
    /\ flight' = [flight EXCEPT ![l] = Phase("extend", @.old, 0, 0, clock)]
    /\ UNCHANGED <<clock, pub, index, store, seq, negative, req, deletes, crashes>>

\* 200: the body will be written under a new versioned key.
Ask200(l) ==
    /\ flight[l] # None /\ flight[l].pc = "ask"
    /\ seq < MaxSeq
    /\ seq' = seq + 1
    /\ flight' = [flight EXCEPT ![l] = Phase("body", @.old, Ver(req[l].key), seq + 1, clock)]
    /\ UNCHANGED <<clock, pub, index, store, negative, req, deletes, crashes>>

\* 404, 5xx (both remembered), or a transport error, another status or a
\* Content-Length above the limit (not remembered).
AskFails(l) ==
    /\ flight[l] # None /\ flight[l].pc = "ask"
    /\ \/ RememberNegative(req[l].key, NegativeTTL404, "nf") /\ FlightFails(l, "nf")
       \/ /\ "upstream" \in Faults
          /\ \/ RememberNegative(req[l].key, NegativeTTL5xx, "up") /\ FlightFails(l, "up")
             \/ UNCHANGED negative /\ \E e \in {"up", "other"} : FlightFails(l, e)
    /\ UNCHANGED <<clock, pub, index, store, seq, deletes, crashes>>

\* The row after a 304: the same bytes, a new expiry.
ExtendedRow(l) == [ver |-> flight[l].old.ver, blob |-> flight[l].old.blob,
                   exp |-> clock + TTL]

Extend(l) ==
    /\ flight[l] # None /\ flight[l].pc = "extend"
    /\ \/ LET row == ExtendedRow(l) IN
          /\ index' = [index EXCEPT ![req[l].key] = row]
          /\ negative' = [negative EXCEPT ![req[l].key] = None]
          /\ FlightReturns(l, row, "HIT")
       \/ /\ "index_write" \in Faults
          /\ FlightFails(l, "other")
          /\ UNCHANGED <<index, negative>>
    /\ UNCHANGED <<clock, pub, store, seq, deletes, crashes>>

\* Put, copyBody and Commit succeed: the object becomes visible.
Commit(l) ==
    /\ flight[l] # None /\ flight[l].pc = "body"
    /\ store' = store \cup {FlightBlob(l)}
    /\ flight' = [flight EXCEPT ![l] = Phase("put", @.old, @.ver, @.n, @.at)]
    /\ UNCHANGED <<clock, pub, index, seq, negative, req, deletes, crashes>>

\* copyBody fails and the writer is aborted, a checksum mismatch is
\* remembered like a 5xx; or Commit fails, perhaps after the rename.
CommitFails(l) ==
    /\ flight[l] # None /\ flight[l].pc = "body"
    /\ \/ /\ "upstream" \in Faults
          /\ \/ RememberNegative(req[l].key, NegativeTTL5xx, "up") /\ FlightFails(l, "up")
             \/ UNCHANGED negative /\ \E e \in {"up", "other"} : FlightFails(l, e)
          /\ UNCHANGED store
       \/ /\ "commit" \in Faults
          /\ FlightFails(l, "other")
          /\ UNCHANGED <<negative, store>>
       \/ /\ "commit_seen" \in Faults
          /\ FlightFails(l, "other")
          /\ store' = store \cup {FlightBlob(l)}
          /\ UNCHANGED negative
    /\ UNCHANGED <<clock, pub, index, seq, deletes, crashes>>

\* Mutant of BytesOf: the row itself is scheduled, not the bytes it names.
RowOf(row) == IF row = None THEN {} ELSE {row}

\* deleteInBackground of the bytes a row names, if there is such a row.
BytesOf(row) == IF row = None THEN {} ELSE {row.blob}

\* Mutant of NewRow: the validators of the previous version are kept.
NewRowOldValidators(l) ==
    [ver  |-> IF flight[l].old = None THEN flight[l].ver ELSE flight[l].old.ver,
     blob |-> FlightBlob(l), exp |-> clock + TTL]

\* The index row of the version just committed.
NewRow(l) == [ver |-> flight[l].ver, blob |-> FlightBlob(l), exp |-> clock + TTL]

\* PutObjectMeta of the new version succeeds: the old one is scheduled for
\* deletion and the negative entry is forgotten.
PutMeta(l) ==
    /\ flight[l] # None /\ flight[l].pc = "put"
    /\ index' = [index EXCEPT ![req[l].key] = NewRow(l)]
    /\ deletes' = deletes \cup BytesOf(flight[l].old)
    /\ negative' = [negative EXCEPT ![req[l].key] = None]
    /\ FlightReturns(l, NewRow(l), "MISS")
    /\ UNCHANGED <<clock, pub, store, seq, crashes>>

\* Mutants of Unindexed: nothing is cleaned up; the previous version is.
UnindexedLeaked(l) == {}

UnindexedOld(l) == BytesOf(flight[l].old)

\* What a failed PutObjectMeta schedules: the object that was just written.
Unindexed(l) == {FlightBlob(l)}

\* PutObjectMeta fails: the bytes just committed are scheduled instead.
PutMetaFails(l) ==
    /\ flight[l] # None /\ flight[l].pc = "put"
    /\ "index_write" \in Faults
    /\ deletes' = deletes \cup Unindexed(l)
    /\ FlightFails(l, "other")
    /\ UNCHANGED <<clock, pub, index, store, seq, negative, crashes>>

-----------------------------------------------------------------------------
(* After the flight *)

\* A failed flight may still serve the row the participant holds.
AfterError(c) ==
    LET row == req[c].row IN
    /\ req[c].pc = "flightErr"
    /\ \/ /\ StaleAllowed(row, req[c].out)
          /\ \E ok \in StatResults(row) :
               req' = [req EXCEPT ![c] =
                         IF ok THEN Go(c, "resolved", row, "STALE")
                         ELSE Go(c, "failed", row, req[c].out)]
       \/ /\ ~StaleAllowed(row, req[c].out)
          /\ req' = [req EXCEPT ![c] = Go(c, "failed", row, req[c].out)]
    /\ UNCHANGED <<clock, pub, index, store, seq, negative, flight, deletes, crashes>>

\* serveReloadedMeta: the index is read once more.
Reload(c) ==
    /\ req[c].pc = "reload"
    /\ \E row \in IndexReads(req[c].key) :
         req' = [req EXCEPT ![c] = IF row = None THEN Go(c, "failed", None, "other")
                                   ELSE Go(c, "final", row, "HIT")]
    /\ UNCHANGED <<clock, pub, index, store, seq, negative, flight, deletes, crashes>>

\* The last resolveAt: there is no way back from a missing object here.
Final(c) ==
    /\ req[c].pc = "final"
    /\ \E ok \in StatResults(req[c].row) :
         req' = [req EXCEPT ![c] =
                   IF ok THEN Go(c, "resolved", req[c].row, req[c].out)
                   ELSE Go(c, "failed", req[c].row, "missing")]
    /\ UNCHANGED <<clock, pub, index, store, seq, negative, flight, deletes, crashes>>

\* The body is opened by the key of the resolved row, some time later (more
\* than once for a multipart range).
OpenBody(c) ==
    /\ req[c].pc = "resolved"
    /\ \E ok \in StatResults(req[c].row) :
         req' = [req EXCEPT ![c] = IF ok THEN IdleReq(c)
                                   ELSE Go(c, "failed", req[c].row, "missing")]
    /\ UNCHANGED <<clock, pub, index, store, seq, negative, flight, deletes, crashes>>

\* The error is out, or it was a prefetch, which opens no body.
Leave(c) ==
    /\ req[c].pc \in {"resolved", "failed"}
    /\ req' = [req EXCEPT ![c] = IdleReq(c)]
    /\ UNCHANGED <<clock, pub, index, store, seq, negative, flight, deletes, crashes>>

-----------------------------------------------------------------------------
(* Background deletion, environment *)

\* deleteOnce: Delete of one scheduled key; its failure is ignored.
DeleteOnce(b) ==
    /\ b \in deletes
    /\ deletes' = deletes \ {b}
    /\ \/ store' = store \ {b}
       \/ "delete" \in Faults /\ UNCHANGED store
    /\ UNCHANGED <<clock, pub, index, seq, negative, flight, req, crashes>>

\* Upstream publishes a new version of k.
Publish(k) ==
    /\ Ver(k) < MaxVersion
    /\ pub' = [pub EXCEPT ![k] = Append(@, clock)]
    /\ UNCHANGED <<clock, index, store, seq, negative, flight, req, deletes, crashes>>

\* Time passes; a transfer in progress does not outlast MaxTransfer.
Tick ==
    /\ clock < MaxClock
    /\ \A l \in Clients : flight[l] # None /\ flight[l].pc \in {"extend", "body", "put"}
                            => clock < flight[l].at + MaxTransfer
    /\ clock' = clock + 1
    /\ UNCHANGED <<pub, index, store, seq, negative, flight, req, deletes, crashes>>

\* The process dies and is started again: the index and the committed
\* objects survive, everything New() creates empty is lost.
Crash ==
    /\ crashes < MaxCrashes
    /\ crashes' = crashes + 1
    /\ negative' = [k \in Keys |-> None]
    /\ flight' = [c \in Clients |-> None]
    /\ req' = [c \in Clients |-> IdleReq(c)]
    /\ deletes' = {}
    /\ UNCHANGED <<clock, pub, index, store, seq>>

-----------------------------------------------------------------------------
RequestStep(c) ==
    \/ Hit(c) \/ CheckNegative(c) \/ Join(c) \/ AfterError(c)
    \/ Reload(c) \/ Final(c) \/ OpenBody(c) \/ Leave(c)

FlightStep(l) ==
    \/ Recheck(l) \/ Ask304(l) \/ Ask200(l) \/ AskFails(l) \/ Extend(l)
    \/ Commit(l) \/ CommitFails(l) \/ PutMeta(l) \/ PutMetaFails(l)

Next ==
    \/ \E c \in Clients : \/ RequestStep(c)
                          \/ FlightStep(c)
                          \/ \E k \in Keys : FetchMeta(c, k)
    \/ \E k \in Keys : Publish(k)
    \/ \E b \in deletes : DeleteOnce(b)
    \/ Tick
    \/ Crash

Spec == Init /\ [][Next]_vars

\* Goroutines run: every request, every flight and every scheduled deletion
\* takes its next step.  Clients need not come and time need not pass.
Fairness ==
    /\ \A c \in Clients : WF_vars(RequestStep(c)) /\ WF_vars(FlightStep(c))
    /\ WF_vars(\E b \in deletes : DeleteOnce(b))

FairSpec == Spec /\ Fairness
-----------------------------------------------------------------------------
(* Properties *)

\* Every variable has the shape the code gives it.
TypeOK ==
    /\ clock \in Nat
    /\ pub \in [Keys -> Seq(Nat)]
    /\ index \in [Keys -> Row \cup {None}]
    /\ store \subseteq Blob
    /\ seq \in Nat
    /\ negative \in [Keys -> Negative \cup {None}]
    /\ flight \in [Clients -> Flight \cup {None}]
    /\ req \in [Clients -> Request]
    /\ deletes \subseteq Blob
    /\ crashes \in Nat

\* A row of the object index always names an object that is stored, that is
\* not waiting for its background deletion, and whose bytes are the version
\* the row's validators describe: whatever fails or crashes between Commit,
\* PutObjectMeta and deleteInBackground, the index never dangles.
IndexedBytesStored ==
    \A k \in Keys : index[k] # None =>
        /\ index[k].blob \in store \ deletes
        /\ index[k].blob.key = k
        /\ index[k].blob.ver = index[k].ver

\* A request that has a row in hand (a stale copy a follower kept included)
\* never pairs the validators of one version with the bytes of another, nor
\* with those of another key.
ReplyDescribesBytes ==
    \A c \in Clients : req[c].row # None =>
        /\ req[c].row.blob.key = req[c].key
        /\ req[c].row.blob.ver = req[c].row.ver

\* A request fails because bytes are missing only when its row has been
\* replaced in the meantime (no Stat fault): resolveAt and OpenBody race with
\* the deletion of the previous version and with nothing else.
MissingOnlyAfterReplacement ==
    \A c \in Clients : req[c].pc = "failed" /\ req[c].out = "missing" =>
        LET row == index[req[c].key] IN row # None /\ row.blob # req[c].row.blob

\* Replacing an object never breaks a request that holds the previous version
\* (the promise of versioned keys in objectmeta.go): nobody ends without bytes.
\* The code does not keep this (README, Observations).
ReadersSurviveReplacement ==
    \A c \in Clients : req[c].out # "missing"

\* Without crashes and without failing deletes, commits and index reads, every
\* stored object is indexed, scheduled for deletion or being indexed by its
\* leader: a failing PutObjectMeta leaks nothing.
NoOrphans ==
    \A b \in store :
        \/ index[b.key] # None /\ index[b.key].blob = b
        \/ b \in deletes
        \/ \E l \in Clients : flight[l] # None /\ flight[l].pc = "put" /\ FlightBlob(l) = b

\* The index row of a key never goes back to an older upstream version, nor
\* disappears: singleflight orders the flights of a key.
VersionNeverGoesBack ==
    [][\A k \in Keys : index[k] # None =>
          index'[k] # None /\ index'[k].ver >= index[k].ver]_vars

\* A row taken for fresh is at most TTL plus the length of a transfer behind
\* upstream: the expiry is counted from the index write, not from the answer.
BoundedStaleness ==
    [][\A c \in Clients :
          req[c].pc = "idle" /\ req'[c].pc = "hit" =>
            LET k == req'[c].key
                v == req'[c].row.ver
            IN v < Ver(k) => clock < pub[k][v + 1] + TTL + MaxTransfer]_vars

\* Every request is answered, those that wait for another one's flight too.
RequestsAnswered ==
    \A c \in Clients : req[c].pc # "idle" ~> req[c].pc = "idle"

-----------------------------------------------------------------------------
(* The inductive invariant behind the safety properties *)

\* A leader takes part in its own flight; a follower waits for a flight that
\* exists and is of its own key; a key has one flight.
SingleFlight ==
    /\ \A l \in Clients : flight[l] # None => req[l].pc = "wait" /\ req[l].lead = l
    /\ \A c \in Clients : req[c].pc = "wait" =>
          flight[req[c].lead] # None /\ req[req[c].lead].key = req[c].key
    /\ \A l, m \in Clients :
          flight[l] # None /\ flight[m] # None /\ req[l].key = req[m].key => l = m

\* Nobody else moves the row of a key under the leader of its flight.
OldIsIndexed ==
    \A l \in Clients : flight[l] # None =>
        /\ flight[l].old \in {None, index[req[l].key]}
        /\ flight[l].pc = "extend" => flight[l].old # None

\* Version numbers are never used twice.
NumbersUsed ==
    /\ \A b \in store \cup deletes : b.n <= seq
    /\ \A c \in Clients : req[c].row # None => req[c].row.blob.n <= seq
    /\ \A l \in Clients : flight[l] # None => flight[l].n <= seq

\* l is writing a new version.
Writes(l) == flight[l] # None /\ flight[l].pc \in {"body", "put"}

\* What a leader is writing is known to nobody else, and stays stored once
\* it is committed.
WrittenIsPrivate ==
    \A l \in Clients : Writes(l) =>
        /\ FlightBlob(l) \notin deletes
        /\ flight[l].pc = "put" => FlightBlob(l) \in store
        /\ \A k \in Keys : index[k] # None => index[k].blob # FlightBlob(l)
        /\ \A c \in Clients : req[c].row # None => req[c].row.blob # FlightBlob(l)

\* A row in the hands of a request is described by its own validators, its
\* key has a row still, and "missing" is the outcome of a failed request.
RowsKnown ==
    /\ ReplyDescribesBytes
    /\ \A c \in Clients : req[c].row # None => index[req[c].key] # None
    /\ \A c \in Clients : req[c].pc \in {"hit", "final", "resolved"}
                             \/ req[c].out = "missing" => req[c].row # None
    /\ \A c \in Clients : req[c].out = "missing" => req[c].pc = "failed"

\* The index is behind upstream, and behind what a leader has read from it.
VersionsOrdered ==
    /\ \A k \in Keys : index[k] # None => index[k].ver <= Ver(k)
    /\ \A l \in Clients : Writes(l) =>
          /\ flight[l].ver <= Ver(req[l].key)
          /\ index[req[l].key] # None => index[req[l].key].ver <= flight[l].ver

\* The conjunction the steps of the engine preserve.
IInv ==
    /\ TypeOK
    /\ IndexedBytesStored
    /\ SingleFlight
    /\ OldIsIndexed
    /\ NumbersUsed
    /\ WrittenIsPrivate
    /\ RowsKnown
    /\ VersionsOrdered

\* A transfer in progress is not older than MaxTransfer.
InTime ==
    \A l \in Clients : flight[l] # None /\ flight[l].pc \in {"extend", "body", "put"} =>
        flight[l].at <= clock /\ clock <= flight[l].at + MaxTransfer

\* The version v of k was the current one at time t, or is still.
CurrentAt(k, v, t) == v < Ver(k) => t <= pub[k][v + 1]

\* A row expires at most TTL and a transfer after its version was replaced
\* upstream, because the version a leader brings was current when it asked.
ExpiryBounded ==
    /\ \A k \in Keys : index[k] # None =>
          /\ index[k].exp <= clock + TTL
          /\ CurrentAt(k, index[k].ver, index[k].exp - TTL - MaxTransfer)
    /\ \A l \in Clients : flight[l] # None =>
          /\ flight[l].pc = "extend" => CurrentAt(req[l].key, flight[l].old.ver, flight[l].at)
          /\ Writes(l) => CurrentAt(req[l].key, flight[l].ver, flight[l].at)

\* The leader of a flight knows the row it replaces, if reads do not fail.
OldIsExact ==
    \A l \in Clients : flight[l] # None /\ flight[l].pc # "recheck" =>
        flight[l].old = index[req[l].key]
=============================================================================
