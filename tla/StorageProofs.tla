----------------------------- MODULE StorageProofs -----------------------------
(***************************************************************************)
(* Every backend implements StorageContract, for any numbers of keys,      *)
(* contents, clients, calls and failures.  A step of a backend is one of   *)
(* four kinds: it advances inside a call, it answers, it changes the       *)
(* object, or it makes what is there stable.                               *)
(***************************************************************************)
EXTENDS Storage, FiniteSetTheorems, TLAPS

\* The four kinds of a step that gives client c the record r.
Keeps(c, r) == r.op = call[c].op /\ r.key = call[c].key /\ r.val = call[c].val
Advances(c, r) ==
    /\ Keeps(c, r) /\ r.st = call[c].st /\ r.ret = "none"
    /\ UNCHANGED <<objs, may>>
Answers(c, r) ==
    /\ Keeps(c, r) /\ r.st = call[c].st /\ r.ret # "none"
    /\ r.out \in {{}} \cup {{v} : v \in Contents} \cup SUBSET Keys
    /\ IF r.ret = "error" THEN r.out = {} ELSE Contract!Correct(c, r.ret, r.out)
    /\ UNCHANGED <<objs, may>>
Changes(c, r) ==
    LET new == IF call[c].op = "put" THEN call[c].val ELSE Nothing IN
    /\ Keeps(c, r) /\ r.ret = "none"
    /\ call[c].op \in {"put", "delete"} /\ call[c].st = "run" /\ r.st \in {"done", "durable"}
    /\ objs' = [objs EXCEPT ![call[c].key] = new]
    /\ may' = [may EXCEPT ![call[c].key] = IF r.st = "durable" THEN {new} ELSE @ \cup {new}]
Stabilises(c, r) ==
    /\ Keeps(c, r) /\ r.ret = "none"
    /\ call[c].op = "put" /\ call[c].st = "done" /\ r.st = "durable"
    /\ objs' = objs /\ may' = [k \in Keys |-> {objs[k]}]

\* A step of client c, with what it owes to the other clients and to itself.
ClientMoves(c, r) ==
    /\ r \in CallRecord /\ call' = [call EXCEPT ![c] = r]
    /\ call[c].op # "none" /\ call[c].ret = "none"
    /\ Advances(c, r) \/ Answers(c, r) \/ Changes(c, r) \/ Stabilises(c, r)
    /\ driver' = driver
    /\ tmp' \in SUBSET Clients /\ tmp' \ {c} \subseteq tmp /\ (driver = "fake" => tmp' = {})
    /\ synced' \in SUBSET Clients /\ synced \ {c} \subseteq synced'
    /\ c \in tmp' => r.op = "put" /\ r.pc \in {"body", "commit", "rename", "failed", "sent"}
    /\ StageKnown(c)' /\ AnswerWitnessed(c)'

LEMMA KeysNumbered == /\ Keys \subseteq Nat \ {0} /\ Contents \subseteq Nat \ {0} /\ Contents # {}
                      /\ Held \subseteq Nat /\ Nothing \in Held
                      /\ \A k \in Keys : \A j \in 1 .. k : j \in Keys
<1>1. Cardinality(Keys) \in Nat
  BY StorageAssumption, FS_CardinalityType DEF StorageAssumption
<1>2. PICK n \in Nat : Keys = 1 .. n
  BY <1>1, StorageAssumption DEF StorageAssumption
<1> QED BY <1>2, StorageAssumption DEF StorageAssumption, Held, Nothing

LEMMA TrackTyped ==
    ASSUME DiskTypeOK, Track, objs' \in [Keys -> Held], call' \in [Clients -> CallRecord]
    PROVE  /\ during' \in [Clients -> [Keys -> SUBSET Held]]
           /\ \A c \in Clients, k \in Keys :
                 during'[c][k] = IF call'[c].op = "none" THEN {}
                                 ELSE IF call[c].op = "none" THEN {objs'[k]} ELSE during[c][k] \cup {objs'[k]}
<1>1. ASSUME NEW c \in Clients, NEW k \in Keys
      PROVE  during'[c][k] = IF call'[c].op = "none" THEN {}
                                 ELSE IF call[c].op = "none" THEN {objs'[k]} ELSE during[c][k] \cup {objs'[k]}
  BY DEF Track
<1>2. ASSUME NEW c \in Clients, NEW k \in Keys PROVE during'[c][k] \in SUBSET Held
  <2>1. during[c][k] \in SUBSET Held /\ objs'[k] \in Held
    BY DEF DiskTypeOK
  <2>2. during'[c][k] \in {{}, {objs'[k]}, during[c][k] \cup {objs'[k]}}
    BY ONLY <1>1
  <2> QED BY ONLY <2>1, <2>2
<1>3. DOMAIN during' = Clients /\ \A c \in Clients : during'[c] = [k \in Keys |-> during'[c][k]]
  BY DEF Track
<1>4. ASSUME NEW c \in Clients PROVE during'[c] \in [Keys -> SUBSET Held]
  <2> DEFINE D(k) == during'[c][k]
  <2>1. \A k \in Keys : D(k) \in SUBSET Held
    BY <1>2
  <2>2. during'[c] = [k \in Keys |-> D(k)]
    BY <1>3
  <2> HIDE DEF D
  <2> QED BY <2>1, <2>2
<1>5. during' = [c \in Clients |-> during'[c]]
  BY DEF Track
<1> QED BY <1>1, <1>4, <1>5

\* A call in progress remembers what it has seen, and what is there now.
LEMMA MemoryKept ==
    ASSUME DiskInv, Track, objs' \in [Keys -> Held], call' \in [Clients -> CallRecord],
           NEW c \in Clients, call[c].op # "none", call'[c].op # "none", NEW k \in Keys
    PROVE  /\ during'[c][k] = during[c][k] \cup {objs'[k]}
           /\ objs[k] \in during[c][k] /\ objs'[k] \in during'[c][k]
<1>1. during'[c][k] = during[c][k] \cup {objs'[k]}
  BY TrackTyped DEF DiskInv
<1>2. objs[k] \in during[c][k]
  BY DEF DiskInv, CallWitnessed
<1> QED BY <1>1, <1>2

\* The steps of the others take nothing from a call.
LEMMA OthersKept ==
    ASSUME DiskInv, Track, objs' \in [Keys -> Held], call' \in [Clients -> CallRecord],
           NEW d \in Clients, call'[d] = call[d], d \in synced => d \in synced'
    PROVE  CallWitnessed(d)' /\ StageKnown(d)' /\ AnswerWitnessed(d)'
<1>1. CallWitnessed(d) /\ StageKnown(d) /\ AnswerWitnessed(d)
  BY DEF DiskInv
<1>2. StageKnown(d)'
  BY <1>1 DEF StageKnown
<1>3. CASE call[d].op = "none"
  <2>1. call[d] = NoCall /\ \A k \in Keys : during'[d][k] = {}
    BY <1>1, <1>3, TrackTyped DEF CallWitnessed, DiskInv
  <2> QED BY <1>2, <1>3, <2>1 DEF CallWitnessed, AnswerWitnessed, NoCall
<1>4. CASE call[d].op # "none"
  <2>1. \A k \in Keys : /\ during'[d][k] = during[d][k] \cup {objs'[k]}
                        /\ objs[k] \in during[d][k] /\ objs'[k] \in during'[d][k]
    BY <1>4, MemoryKept
  <2>2. call[d].key \in Keys /\ call[d].val \in Contents
    BY <1>1, <1>4 DEF CallWitnessed
  <2>3. CallWitnessed(d)'
    BY <1>4, <2>1, <2>2 DEF CallWitnessed
  <2>4. during[d][call[d].key] \subseteq during'[d][call[d].key]
    BY <2>1, <2>2
  <2>5. \A k \in Keys : during[d][k] # {Nothing} => during'[d][k] # {Nothing}
    BY <2>1
  <2>6. \A k \in Keys : Nothing \notin during'[d][k] => Nothing \notin during[d][k]
    BY <2>1
  <2>7. AnswerWitnessed(d)'
    BY <1>1, <2>2, <2>4, <2>5, <2>6 DEF AnswerWitnessed
  <2> QED BY <1>2, <2>3, <2>7
<1> QED BY <1>3, <1>4

\* A step of a client keeps the invariant.
LEMMA MoveKeeps ==
    ASSUME DiskInv, Track, NEW c \in Clients, NEW r, ClientMoves(c, r)
    PROVE  DiskInv'
<1> USE KeysNumbered
<1>0. DiskTypeOK /\ VisibleMayStay /\ CallWitnessed(c)
  BY DEF DiskInv
<1>1. r \in CallRecord /\ call' = [call EXCEPT ![c] = r] /\ call[c].op # "none" /\ r.op = call[c].op
  BY DEF ClientMoves, Advances, Answers, Changes, Stabilises, Keeps
<1>2. call' \in [Clients -> CallRecord] /\ call'[c] = r /\ \A d \in Clients \ {c} : call'[d] = call[d]
  BY <1>0, <1>1 DEF DiskTypeOK
<1>3. call[c].key \in Keys /\ call[c].val \in Contents /\ r.key = call[c].key /\ r.val = call[c].val
  BY <1>0, <1>1 DEF CallWitnessed, ClientMoves, Advances, Answers, Changes, Stabilises, Keeps
<1>4. /\ objs' \in [Keys -> Held] /\ may' \in [Keys -> SUBSET Held]
      /\ \A k \in Keys : objs'[k] \in may'[k]
  <2>1. CASE Advances(c, r) \/ Answers(c, r)
    BY <1>0, <2>1 DEF Advances, Answers, DiskTypeOK, VisibleMayStay
  <2>2. CASE Changes(c, r)
    <3> DEFINE new == IF call[c].op = "put" THEN call[c].val ELSE Nothing
    <3>1. new \in Held
      BY <1>3 DEF Held
    <3> HIDE DEF new
    <3>2. /\ objs' = [objs EXCEPT ![call[c].key] = new]
          /\ may' = [may EXCEPT ![call[c].key] = IF r.st = "durable" THEN {new} ELSE @ \cup {new}]
      BY <2>2 DEF Changes, new
    <3> QED BY <1>0, <1>3, <3>1, <3>2 DEF DiskTypeOK, VisibleMayStay
  <2>3. CASE Stabilises(c, r)
    BY <1>0, <2>3 DEF Stabilises, DiskTypeOK
  <2> QED BY <2>1, <2>2, <2>3 DEF ClientMoves
<1>5. DiskTypeOK'
  BY <1>0, <1>2, <1>4, TrackTyped DEF DiskTypeOK, ClientMoves
<1>6. CallWitnessed(c)'
  <2>1. \A k \in Keys : objs'[k] \in during'[c][k]
    BY <1>1, <1>2, <1>4, MemoryKept
  <2> QED BY <1>1, <1>2, <1>3, <2>1 DEF CallWitnessed
<1>7. \A d \in Clients \ {c} : CallWitnessed(d)' /\ StageKnown(d)' /\ AnswerWitnessed(d)'
  BY <1>2, <1>4, OthersKept DEF ClientMoves
<1>8. StageKnown(c)' /\ AnswerWitnessed(c)'
  BY DEF ClientMoves
<1>9. TmpOwned'
  <2>1. \A d \in tmp' : d = c \/ (d \in Clients \ {c} /\ d \in tmp)
    BY DEF ClientMoves
  <2> QED BY <1>1, <1>2, <2>1 DEF TmpOwned, ClientMoves, DiskInv
<1>10. VisibleMayStay'
  BY <1>4 DEF VisibleMayStay
<1>11. \A d \in Clients : CallWitnessed(d)' /\ StageKnown(d)' /\ AnswerWitnessed(d)'
  BY <1>6, <1>7, <1>8
<1> QED BY <1>5, <1>9, <1>10, <1>11 DEF DiskInv

\* A call as the contract sees it.
Seen(r) == [op |-> r.op, key |-> r.key, val |-> r.val, st |-> r.st, ret |-> r.ret,
            out |-> IF r.ret = "none" THEN {} ELSE r.out]
SeenCalls == [c \in Clients |-> Seen(call[c])]
Undone == [k \in Keys |-> may[k] \ {objs[k]}]

\* What is seen of a step of one client.
LEMMA OneSeen ==
    ASSUME DiskTypeOK, NEW c \in Clients, NEW r, call' = [call EXCEPT ![c] = r]
    PROVE  SeenCalls' = [SeenCalls EXCEPT ![c] = Seen(r)]
BY DEF DiskTypeOK, SeenCalls, Seen

\* A step in which a backend's calls stay as they are is one of the contract.
LEMMA TrackSeen ==
    ASSUME DiskInv, Track, objs' \in [Keys -> Held], call' \in [Clients -> CallRecord]
    PROVE  Contract!Track
<1>1. \A c \in Clients : SeenCalls[c].op = call[c].op /\ SeenCalls'[c].op = call'[c].op
  BY DEF SeenCalls, Seen
<1>2. during' = [c \in Clients |-> [k \in Keys |->
        IF SeenCalls'[c].op = "none" THEN {}
        ELSE IF SeenCalls[c].op = "none" THEN {objs'[k]} ELSE during[c][k] \cup {objs'[k]}]]
  BY <1>1 DEF Track
<1> QED BY <1>2 DEF Contract!Track, SeenCalls, Seen

LEMMA DuringSame ==
    ASSUME DiskInv, Track, objs' = objs, call' \in [Clients -> CallRecord],
           \A c \in Clients : call'[c].op = call[c].op
    PROVE  during' = during
<1>1. \A c \in Clients, k \in Keys : during'[c][k] = during[c][k]
  <2> TAKE c \in Clients, k \in Keys
  <2>1. objs' \in [Keys -> Held]
    BY DEF DiskInv, DiskTypeOK
  <2>2. CASE call[c].op = "none"
    <3>1. during[c][k] = {}
      BY <2>2 DEF DiskInv, CallWitnessed
    <3>2. during'[c][k] = {}
      BY <2>1, <2>2, TrackTyped DEF DiskInv
    <3> QED BY <3>1, <3>2
  <2>3. CASE call[c].op # "none"
    <3>1. call'[c].op # "none"
      BY <2>3
    <3>2. during'[c][k] = during[c][k] \cup {objs'[k]} /\ objs[k] \in during[c][k]
      BY <2>1, <2>3, <3>1, MemoryKept
    <3> QED BY <3>2
  <2> QED BY <2>2, <2>3
<1>2. during' \in [Clients -> [Keys -> SUBSET Held]] /\ during \in [Clients -> [Keys -> SUBSET Held]]
  BY TrackTyped DEF DiskInv, DiskTypeOK
<1>3. \A c \in Clients : during'[c] = during[c]
  BY <1>1, <1>2
<1> QED BY <1>2, <1>3

\* What is seen of an answer, field by field.
LEMMA AnswerSeen ==
    ASSUME NEW q, NEW r, q.ret = "none", r.ret # "none",
           r.op = q.op, r.key = q.key, r.val = q.val, r.st = q.st
    PROVE  Seen(r) = [Seen(q) EXCEPT !.ret = r.ret, !.out = r.out]
<1> DEFINE u == [Seen(q) EXCEPT !.ret = r.ret, !.out = r.out]
           w == Seen(r)
           Fields == {"op", "key", "val", "st", "ret", "out"}
<1> USE DEF Seen
<1>1. u["op"] = w["op"] /\ u["key"] = w["key"] /\ u["val"] = w["val"] /\ u["st"] = w["st"]
  OBVIOUS
<1>2. u["ret"] = w["ret"]
  OBVIOUS
<1>3. u["out"] = w["out"]
  OBVIOUS
<1>4. u = [i \in Fields |-> u[i]]
  OBVIOUS
<1>5. w = [i \in Fields |-> w[i]]
  OBVIOUS
<1> HIDE DEF u, w
<1>6. \A i \in Fields : u[i] = w[i]
  BY <1>1, <1>2, <1>3
<1>7. [i \in Fields |-> u[i]] = [i \in Fields |-> w[i]]
  BY <1>6
<1>8. u = w
  BY <1>4, <1>5, <1>7, Zenon
<1> QED BY <1>8 DEF u, w

\* A step of a client is a step of the contract, or is not seen.
LEMMA MoveRefines ==
    ASSUME DiskInv, DiskInv', Track, NEW c \in Clients, NEW r, ClientMoves(c, r)
    PROVE  [Contract!Next]_(Contract!contractVars)
<1>0. DiskTypeOK /\ VisibleMayStay /\ CallWitnessed(c) /\ DiskTypeOK'
  BY DEF DiskInv
<1>1. /\ r \in CallRecord /\ call' = [call EXCEPT ![c] = r] /\ call[c].op # "none" /\ call[c].ret = "none"
      /\ r.op = call[c].op /\ r.key = call[c].key /\ r.val = call[c].val
  BY DEF ClientMoves, Advances, Answers, Changes, Stabilises, Keeps
<1>2. call[c].key \in Keys /\ call[c].val \in Contents
  BY <1>0, <1>1 DEF CallWitnessed
<1>3. SeenCalls' = [SeenCalls EXCEPT ![c] = Seen(r)]
  BY <1>0, <1>1, OneSeen
<1>4. Contract!Track
  BY <1>0, TrackSeen DEF DiskTypeOK
<1>5. SeenCalls \in [Clients -> {Seen(call[d]) : d \in Clients}] /\ SeenCalls[c] = Seen(call[c])
  BY DEF SeenCalls
<1>6. CASE Advances(c, r)
  <2>1. Seen(r) = Seen(call[c])
    BY <1>1, <1>6 DEF Seen, Advances
  <2>2. SeenCalls' = SeenCalls
    BY <1>3, <1>5, <2>1
  <2>3. Undone' = Undone /\ objs' = objs
    BY <1>6 DEF Undone, Advances
  <2>4. \A d \in Clients : call'[d].op = call[d].op
    BY <1>0, <1>1 DEF DiskTypeOK
  <2>5. during' = during
    BY <1>0, <2>3, <2>4, DuringSame DEF DiskTypeOK
  <2> QED BY <2>2, <2>3, <2>5 DEF Contract!contractVars, SeenCalls, Seen, Undone
<1>7. CASE Answers(c, r)
  <2>1. Undone' = Undone /\ objs' = objs
    BY <1>7 DEF Undone, Answers
  <2>2. Seen(r) = [Seen(call[c]) EXCEPT !.ret = r.ret, !.out = r.out]
    <3>1. r.st = call[c].st /\ r.ret # "none"
      BY <1>7 DEF Answers
    <3> QED BY <1>1, <3>1, AnswerSeen
  <2>3. SeenCalls' = [SeenCalls EXCEPT ![c].ret = r.ret, ![c].out = r.out]
    BY <1>3, <1>5, <2>2 DEF Seen
  <2>4. r.ret \in {"ok", "notfound", "invalid", "short", "error"}
    BY <1>1, <1>7 DEF CallRecord, Answers
  <2>5. SeenCalls[c].op # "none" /\ SeenCalls[c].ret = "none"
    BY <1>1, <1>5 DEF Seen
  <2>6. Contract!Return(c)
    <3> DEFINE ret == r.ret
               out == r.out
    <3>1. /\ ret \in {"ok", "notfound", "invalid", "short", "error"}
          /\ out \in {{}} \cup {{v} : v \in Contents} \cup SUBSET Keys
          /\ IF ret = "error" THEN out = {} ELSE Contract!Correct(c, ret, out)
          /\ SeenCalls' = [SeenCalls EXCEPT ![c].ret = ret, ![c].out = out]
      BY <1>7, <2>3, <2>4 DEF Answers
    <3> HIDE DEF ret, out
    <3>2. \E re \in {"ok", "notfound", "invalid", "short", "error"} :
          \E ou \in {{}} \cup {{v} : v \in Contents} \cup SUBSET Keys :
             /\ IF re = "error" THEN ou = {} ELSE Contract!Correct(c, re, ou)
             /\ SeenCalls' = [SeenCalls EXCEPT ![c].ret = re, ![c].out = ou]
      BY <3>1, Zenon
    <3> QED BY <2>1, <2>5, <3>2, Zenon DEF Contract!Return, SeenCalls, Seen, Undone
  <2> QED BY <1>4, <2>6 DEF Contract!Next
<1>8. CASE Changes(c, r)
  <2> DEFINE new == IF call[c].op = "put" THEN call[c].val ELSE Nothing
             k == call[c].key
             durable == r.st = "durable"
  <2>1. /\ objs' = [objs EXCEPT ![k] = new]
        /\ may' = [may EXCEPT ![k] = IF durable THEN {new} ELSE @ \cup {new}]
        /\ r.st \in {"done", "durable"} /\ r.ret = "none" /\ call[c].st = "run"
        /\ call[c].op \in {"put", "delete"}
    BY <1>8 DEF Changes
  <2>2. Seen(r) = [Seen(call[c]) EXCEPT !.st = IF durable THEN "durable" ELSE "done"]
    BY <1>1, <2>1 DEF Seen
  <2>3. SeenCalls' = [SeenCalls EXCEPT ![c].st = IF durable THEN "durable" ELSE "done"]
    BY <1>3, <1>5, <2>2 DEF Seen
  <2>4. Undone' = [Undone EXCEPT ![k] = IF durable THEN {} ELSE (@ \cup {objs[k]}) \ {new}]
    <3> HIDE DEF new, durable
    <3>1. objs[k] \in may[k] /\ objs'[k] = new
      BY <1>0, <1>2, <2>1 DEF VisibleMayStay, DiskTypeOK
    <3>2. may'[k] = IF durable THEN {new} ELSE may[k] \cup {new}
      BY <1>0, <1>2, <2>1 DEF DiskTypeOK
    <3>3. may'[k] \ {new} = IF durable THEN {} ELSE ((may[k] \ {objs[k]}) \cup {objs[k]}) \ {new}
      BY <3>1, <3>2
    <3>4. \A j \in Keys \ {k} : may'[j] = may[j] /\ objs'[j] = objs[j]
      BY <1>0, <2>1 DEF DiskTypeOK
    <3> QED BY <1>2, <3>1, <3>3, <3>4 DEF Undone
  <2>5. Contract!Effect(c)
    <3>1. SeenCalls[c].key = k /\ SeenCalls[c].op = call[c].op /\ SeenCalls[c].val = call[c].val
          /\ SeenCalls[c].st = "run"
      BY <1>5, <2>1 DEF Seen
    <3>2. durable \in BOOLEAN
      OBVIOUS
    <3>3. new = IF SeenCalls[c].op = "put" THEN SeenCalls[c].val ELSE Contract!Nothing
      BY ONLY <3>1 DEF Nothing, Contract!Nothing
    <3> HIDE DEF new, durable
    <3>4. /\ SeenCalls[c].op \in {"put", "delete"} /\ SeenCalls[c].st = "run"
          /\ objs' = [objs EXCEPT ![SeenCalls[c].key] = new]
          /\ Undone' = [Undone EXCEPT ![SeenCalls[c].key] = IF durable THEN {} ELSE (@ \cup {objs[SeenCalls[c].key]}) \ {new}]
      BY ONLY <2>1, <2>4, <3>1
    <3> QED BY ONLY <2>3, <3>2, <3>3, <3>4, Zenon DEF Contract!Effect, SeenCalls, Seen, Undone
  <2> QED BY <1>4, <2>5 DEF Contract!Next
<1>9. CASE Stabilises(c, r)
  <2>1. /\ objs' = objs /\ may' = [j \in Keys |-> {objs[j]}]
        /\ r.st = "durable" /\ r.ret = "none" /\ call[c].st = "done" /\ call[c].op = "put"
    BY <1>9 DEF Stabilises
  <2>2. Seen(r) = [Seen(call[c]) EXCEPT !.st = "durable"]
    BY <1>1, <2>1 DEF Seen
  <2>3. SeenCalls' = [SeenCalls EXCEPT ![c].st = "durable"]
    BY <1>3, <1>5, <2>2 DEF Seen
  <2>4. Undone' = [j \in Keys |-> {}]
    BY <2>1 DEF Undone
  <2>5. Contract!Settles(c)
    <3>1. SeenCalls[c].key = call[c].key /\ SeenCalls[c].op = "put" /\ SeenCalls[c].st = "done"
      BY <1>5, <2>1 DEF Seen
    <3> QED BY <1>2, <2>1, <2>3, <2>4, <3>1 DEF Contract!Settles, SeenCalls, Seen, Undone
  <2> QED BY <1>4, <2>5 DEF Contract!Next
<1> QED BY <1>6, <1>7, <1>8, <1>9 DEF ClientMoves

\* The answers the contract takes, call by call.
LEMMA CorrectPut ==
    ASSUME NEW c \in Clients, call[c].op = "put", call[c].st = "durable"
    PROVE  Contract!Correct(c, "ok", {})
BY DEF Contract!Correct

LEMMA CorrectGet ==
    ASSUME NEW c \in Clients, call[c].op = "get"
    PROVE  /\ \A v \in during[c][call[c].key] : v # Nothing => Contract!Correct(c, "ok", {v})
           /\ Nothing \in during[c][call[c].key] => Contract!Correct(c, "notfound", {})
BY DEF Contract!Correct, Nothing, Contract!Nothing

LEMMA CorrectRange ==
    ASSUME NEW c \in Clients, call[c].op = "range"
    PROVE  /\ \A v \in during[c][call[c].key] :
                 v # Nothing /\ v >= call[c].val => Contract!Correct(c, "ok", {v})
           /\ \A v \in during[c][call[c].key] : v < call[c].val => Contract!Correct(c, "invalid", {})
           /\ (\E v, w \in during[c][call[c].key] : v # w) => Contract!Correct(c, "short", {})
           /\ Nothing \in during[c][call[c].key] => Contract!Correct(c, "notfound", {})
<1>1. ASSUME NEW v \in during[c][call[c].key], v # Nothing, v >= call[c].val
      PROVE  Contract!Correct(c, "ok", {v})
  BY <1>1 DEF Contract!Correct, Nothing, Contract!Nothing
<1>2. ASSUME NEW v \in during[c][call[c].key], v < call[c].val
      PROVE  Contract!Correct(c, "invalid", {})
  BY <1>2 DEF Contract!Correct
<1>3. ASSUME (\E v, w \in during[c][call[c].key] : v # w)
      PROVE  Contract!Correct(c, "short", {})
  BY <1>3 DEF Contract!Correct
<1>4. ASSUME Nothing \in during[c][call[c].key]
      PROVE  Contract!Correct(c, "notfound", {})
  BY <1>4 DEF Contract!Correct, Nothing, Contract!Nothing
<1> QED BY <1>1, <1>2, <1>3, <1>4

LEMMA CorrectDelete ==
    ASSUME NEW c \in Clients, call[c].op = "delete", Nothing \in during[c][call[c].key]
    PROVE  /\ Contract!Correct(c, "notfound", {})
           /\ during[c][call[c].key] # {Nothing} => Contract!Correct(c, "ok", {})
BY DEF Contract!Correct, Nothing, Contract!Nothing

LEMMA CorrectList ==
    ASSUME NEW c \in Clients, call[c].op = "list", NEW out,
           {k \in Keys : Nothing \notin during[c][k]} \subseteq out,
           out \subseteq {k \in Keys : during[c][k] # {Nothing}}
    PROVE  Contract!Correct(c, "ok", out)
BY DEF Contract!Correct, Nothing, Contract!Nothing

\* An answer is a move of its client.
LEMMA ReturnMoves ==
    ASSUME DiskInv, Track, NEW c \in Clients, call[c].op # "none", call[c].ret = "none",
           NEW ret \in {"ok", "notfound", "invalid", "short", "error"},
           NEW out \in {{}} \cup {{v} : v \in Contents} \cup SUBSET Keys,
           Returns(c, ret, out),
           IF ret = "error" THEN out = {} ELSE Contract!Correct(c, ret, out),
           UNCHANGED <<objs, may, driver>>,
           tmp' \subseteq tmp, c \notin tmp', synced' \subseteq Clients, synced \ {c} \subseteq synced'
    PROVE  \E r \in CallRecord : ClientMoves(c, r)
<1> DEFINE r == [call[c] EXCEPT !.pc = "back", !.ret = ret, !.out = out]
<1>1. call \in [Clients -> CallRecord] /\ tmp \in SUBSET Clients /\ (driver = "fake" => tmp = {})
  BY DEF DiskInv, DiskTypeOK, TmpOwned
<1>2. call' = [call EXCEPT ![c] = r] /\ call'[c] = r
  BY <1>1 DEF Returns
<1>3. out \in SUBSET (Keys \cup Contents)
  OBVIOUS
<1>4. /\ r \in CallRecord /\ r.pc = "back" /\ r.ret = ret /\ r.out = out
      /\ r.op = call[c].op /\ r.key = call[c].key /\ r.val = call[c].val /\ r.st = call[c].st
  BY <1>1, <1>3 DEF CallRecord
<1> HIDE DEF r
<1>5. Answers(c, r)
  BY <1>4 DEF Answers, Keeps
<1>6. StageKnown(c)' /\ AnswerWitnessed(c)'
  BY <1>2, <1>4 DEF StageKnown, AnswerWitnessed
<1>7. ClientMoves(c, r)
  BY <1>1, <1>2, <1>4, <1>5, <1>6 DEF ClientMoves
<1> QED BY <1>4, <1>7

\* A step on the way of a write is a move of its client.
LEMMA PutMoves ==
    ASSUME DiskInv, Track, NEW c \in Clients, call[c].op = "put", call[c].ret = "none", call[c].st = "run",
           NEW p \in {"body", "commit", "rename", "failed"}, Goes(c, p),
           UNCHANGED <<objs, may, driver>>,
           tmp' \subseteq tmp \cup {c}, driver = "fake" => tmp' = {}, synced' \subseteq Clients, synced \ {c} \subseteq synced',
           p = "rename" => c \in synced'
    PROVE  \E r \in CallRecord : ClientMoves(c, r)
<1> DEFINE r == [call[c] EXCEPT !.pc = p]
<1>1. call \in [Clients -> CallRecord] /\ tmp \in SUBSET Clients /\ (driver = "fake" => tmp = {})
  BY DEF DiskInv, DiskTypeOK, TmpOwned
<1>2. call' = [call EXCEPT ![c] = r] /\ call'[c] = r
  BY <1>1 DEF Goes
<1>4. /\ r \in CallRecord /\ r.pc = p /\ r.ret = "none" /\ r.op = "put" /\ r.st = "run"
      /\ r.op = call[c].op /\ r.key = call[c].key /\ r.val = call[c].val /\ r.st = call[c].st
  BY <1>1 DEF CallRecord
<1> HIDE DEF r
<1>5. Advances(c, r)
  BY <1>4 DEF Advances, Keeps
<1>6. StageKnown(c)' /\ AnswerWitnessed(c)'
  BY <1>2, <1>4 DEF StageKnown, AnswerWitnessed
<1>7. ClientMoves(c, r)
  BY <1>1, <1>2, <1>4, <1>5, <1>6 DEF ClientMoves
<1> QED BY <1>4, <1>7

\* The moment an object changes is a move of its client.
LEMMA EffectMoves ==
    ASSUME DiskInv, Track, NEW c \in Clients, call[c].op \in {"put", "delete"}, call[c].ret = "none",
           call[c].st = "run",
           NEW p \in {"dir", "sent", "removed", "done"}, NEW st \in {"done", "durable"},
           call' = [call EXCEPT ![c].pc = p, ![c].st = st],
           p \in {"dir", "sent"} => call[c].op = "put", p = "removed" => call[c].op = "delete",
           p = "dir" <=> (st = "done" /\ call[c].op = "put"),
           NEW new, new = IF call[c].op = "put" THEN call[c].val ELSE Nothing,
           objs' = [objs EXCEPT ![call[c].key] = new],
           may' = [may EXCEPT ![call[c].key] = IF st = "durable" THEN {new} ELSE @ \cup {new}],
           call[c].op = "delete" => during[c][call[c].key] # {Nothing},
           driver' = driver, tmp' \subseteq tmp, c \in tmp' => p = "sent",
           synced' \subseteq Clients, synced \ {c} \subseteq synced'
    PROVE  \E r \in CallRecord : ClientMoves(c, r)
<1> USE KeysNumbered
<1> DEFINE r == [call[c] EXCEPT !.pc = p, !.st = st]
<1>1. /\ call \in [Clients -> CallRecord] /\ tmp \in SUBSET Clients /\ (driver = "fake" => tmp = {})
      /\ objs \in [Keys -> Held] /\ CallWitnessed(c)
  BY DEF DiskInv, DiskTypeOK, TmpOwned
<1>2. call' = [call EXCEPT ![c] = r] /\ call'[c] = r
  BY <1>1
<1>4. /\ r \in CallRecord /\ r.pc = p /\ r.ret = "none" /\ r.st = st
      /\ r.op = call[c].op /\ r.key = call[c].key /\ r.val = call[c].val
  BY <1>1 DEF CallRecord
<1> HIDE DEF r
<1>5. Changes(c, r)
  BY <1>4 DEF Changes, Keeps
<1>6. call[c].key \in Keys /\ call[c].val \in Contents
  BY <1>1 DEF CallWitnessed
<1>7. objs' \in [Keys -> Held] /\ objs'[call[c].key] = new
  BY <1>1, <1>6 DEF Held
<1>8. StageKnown(c)'
  BY <1>2, <1>4 DEF StageKnown
<1>9. AnswerWitnessed(c)'
  <2>1. CASE call[c].op = "put"
    BY <1>2, <1>4, <2>1 DEF AnswerWitnessed
  <2>2. CASE call[c].op = "delete"
    <3>1. call' \in [Clients -> CallRecord]
      BY <1>1, <1>2, <1>4
    <3>2. /\ during'[c][call[c].key] = during[c][call[c].key] \cup {objs'[call[c].key]}
          /\ objs[call[c].key] \in during[c][call[c].key]
      BY <1>2, <1>4, <1>6, <1>7, <2>2, <3>1, MemoryKept
    <3>3. objs'[call[c].key] = Nothing
      BY <1>7, <2>2
    <3>4. Nothing \in during'[c][call[c].key] /\ during'[c][call[c].key] # {Nothing}
      BY <2>2, <3>2, <3>3
    <3> QED BY <1>2, <1>4, <2>2, <3>4 DEF AnswerWitnessed
  <2> QED BY <2>1, <2>2
<1>10. ClientMoves(c, r)
  BY <1>1, <1>2, <1>4, <1>5, <1>8, <1>9 DEF ClientMoves
<1> QED BY <1>4, <1>10

\* What every call in progress knows of its object.
LEMMA CallFacts ==
    ASSUME DiskInv, NEW c \in Clients
    PROVE  /\ call[c] \in CallRecord /\ tmp \in SUBSET Clients /\ synced \in SUBSET Clients
           /\ StageKnown(c) /\ AnswerWitnessed(c)
           /\ call[c].pc \notin {"idle", "back"} => /\ call[c].op # "none" /\ call[c].ret = "none"
                                                    /\ call[c].key \in Keys /\ call[c].val \in Contents
                                                    /\ objs[call[c].key] \in Held
                                                    /\ objs[call[c].key] \in during[c][call[c].key]
                                                    /\ \A k \in Keys : objs[k] \in during[c][k]
           /\ c \in tmp => call[c].op = "put" /\ call[c].pc \in {"body", "commit", "rename", "failed", "sent"}
<1>1. /\ call[c] \in CallRecord /\ tmp \in SUBSET Clients /\ synced \in SUBSET Clients
      /\ StageKnown(c) /\ AnswerWitnessed(c) /\ CallWitnessed(c) /\ objs \in [Keys -> Held]
  BY DEF DiskInv, DiskTypeOK
<1>2. ASSUME call[c].pc \notin {"idle", "back"}
      PROVE  call[c].op # "none" /\ call[c].ret = "none"
  BY <1>1, <1>2 DEF StageKnown, CallWitnessed, NoCall, CallRecord
<1> QED BY <1>1, <1>2 DEF CallWitnessed, TmpOwned, DiskInv

\* Every step of the test double is a move.
LEMMA FakeMoves ==
    ASSUME DiskInv, Track, NEW c \in Clients, driver = "fake", Fake!FakeStep(c)
    PROVE  \E r \in CallRecord : ClientMoves(c, r)
<1> USE KeysNumbered
<1> DEFINE k == call[c].key
           here == objs[k]
<1>0. /\ call[c] \in CallRecord /\ tmp \in SUBSET Clients /\ synced \in SUBSET Clients
      /\ StageKnown(c) /\ AnswerWitnessed(c)
      /\ call[c].pc \notin {"idle", "back"} => /\ call[c].op # "none" /\ call[c].ret = "none"
                                               /\ k \in Keys /\ call[c].val \in Contents
                                               /\ here \in Held /\ here \in during[c][k]
                                               /\ \A j \in Keys : objs[j] \in during[c][j]
      /\ c \in tmp => call[c].op = "put" /\ call[c].pc \in {"body", "commit", "rename", "failed", "sent"}
  BY CallFacts
<1> HIDE DEF k, here
<1>00. tmp = {}
  BY DEF DiskInv, TmpOwned
<1>1. CASE Fake!Put(c) \/ Fake!Write(c)
  <2>1. PICK p \in {"body", "commit"} : Goes(c, p)
    BY <1>1 DEF Fake!Put, Fake!Write, Fake!Goes, Goes
  <2>2. UNCHANGED <<objs, may, driver, tmp, synced>> /\ call[c].op = "put" /\ call[c].pc \in {"start", "body"}
    BY <1>1 DEF Fake!Put, Fake!Write, Fake!Keeps, Fake!Rest, Fake!Has
  <2>3. call[c].st = "run" /\ call[c].ret = "none"
    BY <1>0, <2>2 DEF StageKnown
  <2> QED BY <1>0, <1>00, <2>1, <2>2, <2>3, PutMoves
<1>2. CASE Fake!Commit(c) \/ (Fake!Delete(c) /\ here # Nothing)
  <2> DEFINE new == IF call[c].op = "put" THEN call[c].val ELSE Nothing
  <2>1. /\ objs' = [objs EXCEPT ![k] = new] /\ may' = [may EXCEPT ![k] = {new}]
        /\ call' = [call EXCEPT ![c].pc = "done", ![c].st = "durable"]
        /\ UNCHANGED <<driver, tmp, synced>>
        /\ \/ call[c].op = "put" /\ call[c].pc = "commit"
           \/ call[c].op = "delete" /\ call[c].pc = "start" /\ here # Nothing
    BY <1>2 DEF Fake!Commit, Fake!Delete, Fake!Visible, Fake!Has, Fake!Rest, Fake!Nothing, Nothing, k, here
  <2>2. call[c].st = "run" /\ call[c].ret = "none"
    BY <1>0, <2>1 DEF StageKnown
  <2>3. call[c].op = "delete" => during[c][k] # {Nothing}
    BY <1>0, <2>1
  <2>4. may' = [may EXCEPT ![k] = IF "durable" = "durable" THEN {new} ELSE @ \cup {new}]
    BY <2>1
  <2> HIDE DEF new
  <2> QED BY <1>0, <1>00, <2>1, <2>2, <2>3, <2>4, EffectMoves DEF k, new
<1>3. CASE Fake!Abort(c)
  <2>1. /\ Returns(c, "error", {}) /\ UNCHANGED <<objs, may, driver, tmp, synced>>
        /\ call[c].pc \in {"body", "commit"}
    BY <1>3 DEF Fake!Abort, Fake!Returns, Returns, Fake!Keeps, Fake!Rest
  <2> QED BY <1>0, <1>00, <2>1, ReturnMoves
<1>4. CASE Fake!Get(c)
  <2>1. /\ call[c].op = "get" /\ call[c].pc = "start" /\ UNCHANGED <<objs, may, driver, tmp, synced>>
        /\ IF here = Nothing THEN Returns(c, "notfound", {}) ELSE Returns(c, "ok", {here})
    BY <1>4 DEF Fake!Get, Fake!Has, Fake!Returns, Returns, Fake!Keeps, Fake!Rest, Fake!Nothing, Nothing, k, here
  <2>2. CASE here = Nothing
    BY <1>0, <1>00, <2>1, <2>2, ReturnMoves, CorrectGet DEF k
  <2>3. CASE here # Nothing
    <3>1. here \in Contents /\ Contract!Correct(c, "ok", {here})
      BY <1>0, <2>1, <2>3, CorrectGet DEF k, Held
    <3>2. {here} \in {{}} \cup {{v} : v \in Contents} \cup SUBSET Keys
      BY <3>1
    <3> QED BY <1>0, <1>00, <2>1, <2>3, <3>1, <3>2, ReturnMoves
  <2> QED BY <2>2, <2>3
<1>5. CASE Fake!GetRange(c)
  <2>1. /\ call[c].op = "range" /\ call[c].pc = "start" /\ UNCHANGED <<objs, may, driver, tmp, synced>>
        /\ here = Nothing => Returns(c, "notfound", {})
        /\ here # Nothing /\ here < call[c].val => Returns(c, "invalid", {})
        /\ here # Nothing /\ ~(here < call[c].val) => Returns(c, "ok", {here})
    BY <1>5 DEF Fake!GetRange, Fake!Has, Fake!Returns, Returns, Fake!Keeps, Fake!Rest, Fake!Nothing, Nothing, k, here
  <2>2. CASE here = Nothing
    BY <1>0, <1>00, <2>1, <2>2, ReturnMoves, CorrectRange DEF k
  <2>3. CASE here # Nothing /\ here < call[c].val
    BY <1>0, <1>00, <2>1, <2>3, ReturnMoves, CorrectRange DEF k
  <2>4. CASE here # Nothing /\ ~(here < call[c].val)
    <3>1. here \in Contents /\ here >= call[c].val
      BY <1>0, <2>1, <2>4 DEF Held
    <3>2. {here} \in {{}} \cup {{v} : v \in Contents} \cup SUBSET Keys /\ Contract!Correct(c, "ok", {here})
      BY <1>0, <2>1, <2>4, <3>1, CorrectRange DEF k
    <3> QED BY <1>0, <1>00, <2>1, <2>4, <3>2, ReturnMoves
  <2> QED BY <2>2, <2>3, <2>4
<1>6. CASE Fake!Delete(c) /\ here = Nothing
  <2>1. /\ call[c].op = "delete" /\ call[c].pc = "start" /\ UNCHANGED <<objs, may, driver, tmp, synced>>
        /\ Returns(c, "notfound", {})
    BY <1>6 DEF Fake!Delete, Fake!Has, Fake!Returns, Returns, Fake!Rest, Fake!Nothing, Nothing, k, here
  <2> QED BY <1>0, <1>00, <1>6, <2>1, ReturnMoves, CorrectDelete DEF k
<1>7. CASE Fake!Done(c)
  <2>1. call[c].pc = "done" /\ Returns(c, "ok", {}) /\ UNCHANGED <<objs, may, driver, tmp, synced>>
    BY <1>7 DEF Fake!Done, Fake!Returns, Returns, Fake!Keeps, Fake!Rest
  <2>2. Contract!Correct(c, "ok", {})
    <3>1. CASE call[c].op = "put"
      BY <1>0, <2>1, <3>1, CorrectPut DEF StageKnown
    <3>2. CASE call[c].op = "delete"
      BY <1>0, <2>1, <3>2, CorrectDelete DEF AnswerWitnessed
    <3> QED BY <1>0, <2>1, <3>1, <3>2 DEF StageKnown
  <2> QED BY <1>0, <1>00, <2>1, <2>2, ReturnMoves
<1>8. CASE Fake!List(c)
  <2> DEFINE out == {j \in Keys : objs[j] # Nothing}
  <2>1. /\ call[c].op = "list" /\ call[c].pc = "start" /\ UNCHANGED <<objs, may, driver, tmp, synced>>
        /\ Returns(c, "ok", out)
    BY <1>8 DEF Fake!List, Fake!Has, Fake!Returns, Returns, Fake!Keeps, Fake!Rest, Fake!Nothing, Nothing
  <2>2. {j \in Keys : Nothing \notin during[c][j]} \subseteq out /\ out \subseteq {j \in Keys : during[c][j] # {Nothing}}
    BY <1>0, <2>1
  <2>3. out \in SUBSET Keys
    OBVIOUS
  <2> HIDE DEF out
  <2>4. Contract!Correct(c, "ok", out)
    BY <2>1, <2>2, CorrectList
  <2> QED BY <1>0, <1>00, <2>1, <2>3, <2>4, ReturnMoves
<1> QED BY <1>1, <1>2, <1>3, <1>4, <1>5, <1>6, <1>7, <1>8 DEF Fake!FakeStep

\* Every step of the S3 backend is a move.
LEMMA S3Moves ==
    ASSUME DiskInv, Track, NEW c \in Clients, driver = "s3", S3!S3Step(c)
    PROVE  \E r \in CallRecord : ClientMoves(c, r)
<1> USE KeysNumbered
<1> DEFINE k == call[c].key
           here == objs[k]
<1>0. /\ call[c] \in CallRecord /\ tmp \in SUBSET Clients /\ synced \in SUBSET Clients
      /\ StageKnown(c) /\ AnswerWitnessed(c)
      /\ call[c].pc \notin {"idle", "back"} => /\ call[c].op # "none" /\ call[c].ret = "none"
                                               /\ k \in Keys /\ call[c].val \in Contents
                                               /\ here \in Held /\ here \in during[c][k]
                                               /\ \A j \in Keys : objs[j] \in during[c][j]
      /\ c \in tmp => call[c].op = "put" /\ call[c].pc \in {"body", "commit", "rename", "failed", "sent"}
  BY CallFacts
<1>00. call \in [Clients -> CallRecord] /\ objs \in [Keys -> Held]
  BY DEF DiskInv, DiskTypeOK
<1> HIDE DEF k, here
<1>1. CASE S3!Put(c) \/ S3!Write(c) \/ S3!WriteFails(c)
  <2>1. PICK p \in {"body", "commit", "failed"} : Goes(c, p)
    BY <1>1 DEF S3!Put, S3!Write, S3!WriteFails, S3!Goes, Goes
  <2>2. /\ UNCHANGED <<objs, may, driver, synced>> /\ tmp' \subseteq tmp \cup {c}
        /\ call[c].op = "put" /\ call[c].pc \in {"start", "body"}
    BY <1>1 DEF S3!Put, S3!Write, S3!WriteFails, S3!Keeps, S3!Rest, S3!Has
  <2>3. call[c].st = "run" /\ call[c].ret = "none"
    BY <1>0, <2>2 DEF StageKnown
  <2> QED BY <1>0, <2>1, <2>2, <2>3, PutMoves
<1>2. CASE S3!PutObject(c) \/ S3!RemoveObject(c)
  <2> DEFINE new == IF call[c].op = "put" THEN call[c].val ELSE Nothing
             p == IF call[c].op = "put" THEN "sent" ELSE "removed"
  <2>1. /\ objs' = [objs EXCEPT ![k] = new] /\ may' = [may EXCEPT ![k] = {new}]
        /\ call' = [call EXCEPT ![c].pc = p, ![c].st = "durable"]
        /\ UNCHANGED <<driver, tmp, synced>>
        /\ \/ call[c].op = "put" /\ call[c].pc = "commit"
           \/ call[c].op = "delete" /\ call[c].pc = "known"
    BY <1>2 DEF S3!PutObject, S3!RemoveObject, S3!Visible, S3!Has, S3!Rest, S3!Nothing, Nothing, k
  <2>2. call[c].st = "run" /\ call[c].ret = "none"
    BY <1>0, <2>1 DEF StageKnown
  <2>3. call[c].op = "delete" => during[c][k] # {Nothing}
    BY <1>0, <2>1 DEF AnswerWitnessed, k
  <2>4. may' = [may EXCEPT ![k] = IF "durable" = "durable" THEN {new} ELSE @ \cup {new}]
    BY <2>1
  <2>5. p \in {"sent", "removed"} /\ (p = "sent" <=> call[c].op = "put") /\ (c \in tmp => p = "sent")
    BY <1>0, <2>1
  <2> HIDE DEF new, p
  <2> QED BY <1>0, <2>1, <2>2, <2>3, <2>4, <2>5, EffectMoves DEF k, new
<1>3. CASE S3!Commit(c) /\ ~S3!PutObject(c)
  <2>1. /\ Returns(c, "ok", {}) /\ UNCHANGED <<objs, may, driver, synced>> /\ tmp' = tmp \ {c}
        /\ call[c].op = "put" /\ call[c].pc = "sent"
    BY <1>3 DEF S3!Commit, S3!Has, S3!Unspooled, S3!Returns, Returns, S3!Rest
  <2>2. Contract!Correct(c, "ok", {})
    BY <1>0, <2>1, CorrectPut DEF StageKnown
  <2> QED BY <1>0, <2>1, <2>2, ReturnMoves
<1>4. CASE S3!CommitFails(c) \/ S3!Abort(c)
  <2>1. /\ Returns(c, "error", {}) /\ UNCHANGED <<objs, may, driver, synced>> /\ tmp' = tmp \ {c}
        /\ call[c].pc \in {"body", "commit", "sent", "failed"}
    BY <1>4 DEF S3!CommitFails, S3!Abort, S3!Has, S3!Unspooled, S3!Returns, Returns, S3!Rest
  <2> QED BY <1>0, <2>1, ReturnMoves
<1>5. CASE S3!RequestFails(c)
  <2>1. /\ Returns(c, "error", {}) /\ UNCHANGED <<objs, may, driver, synced, tmp>>
        /\ call[c].op # "put" /\ call[c].pc \in {"start", "known", "removed"}
    BY <1>5 DEF S3!RequestFails, S3!Returns, Returns, S3!Rest
  <2> QED BY <1>0, <2>1, ReturnMoves
<1>6. CASE S3!Stat(c)
  <2>1. /\ call[c].op \in {"get", "range", "delete"} /\ call[c].pc = "start"
        /\ UNCHANGED <<objs, may, driver, tmp, synced>>
        /\ here = Nothing => Returns(c, "notfound", {})
        /\ here # Nothing /\ call[c].op = "range" /\ here < call[c].val => Returns(c, "invalid", {})
        /\ here # Nothing /\ ~(call[c].op = "range" /\ here < call[c].val) =>
              call' = [call EXCEPT ![c].pc = "known", ![c].got = here]
    BY <1>6 DEF S3!Stat, S3!Returns, Returns, S3!Keeps, S3!Rest, S3!Nothing, Nothing, k, here
  <2>2. CASE here = Nothing
    <3>1. Contract!Correct(c, "notfound", {})
      BY <1>0, <2>1, <2>2, CorrectGet, CorrectRange, CorrectDelete DEF k
    <3> QED BY <1>0, <2>1, <2>2, <3>1, ReturnMoves
  <2>3. CASE here # Nothing /\ call[c].op = "range" /\ here < call[c].val
    BY <1>0, <2>1, <2>3, ReturnMoves, CorrectRange DEF k
  <2>4. CASE here # Nothing /\ ~(call[c].op = "range" /\ here < call[c].val)
    <3> DEFINE r == [call[c] EXCEPT !.pc = "known", !.got = here]
    <3>1. call' = [call EXCEPT ![c] = r] /\ call'[c] = r
      BY <1>00, <2>1, <2>4
    <3>2. /\ r \in CallRecord /\ r.pc = "known" /\ r.got = here /\ r.ret = "none" /\ r.st = call[c].st
          /\ r.op = call[c].op /\ r.key = call[c].key /\ r.val = call[c].val
      BY <1>0, <2>1 DEF CallRecord
    <3> HIDE DEF r
    <3>3. here \in during'[c][k]
      <4>1. call' \in [Clients -> CallRecord]
        BY <1>00, <3>1, <3>2
      <4> QED BY <1>0, <1>00, <2>1, <3>1, <3>2, <4>1, MemoryKept
    <3>4. StageKnown(c)'
      BY <1>0, <2>1, <3>1, <3>2 DEF StageKnown
    <3>5. call[c].op = "range" => here >= call[c].val
      BY <1>0, <2>1, <2>4 DEF Held
    <3>6. AnswerWitnessed(c)'
      BY <2>1, <2>4, <3>1, <3>2, <3>3, <3>5 DEF AnswerWitnessed, k
    <3>7. ClientMoves(c, r)
      BY <1>0, <2>1, <3>1, <3>2, <3>4, <3>6 DEF ClientMoves, Advances, Keeps
    <3> QED BY <3>2, <3>7
  <2> QED BY <2>2, <2>3, <2>4
<1>7. CASE S3!Get(c)
  <2>1. /\ call[c].op \in {"get", "range"} /\ call[c].pc = "known"
        /\ UNCHANGED <<objs, may, driver, tmp, synced>>
        /\ IF here = call[c].got THEN Returns(c, "ok", {call[c].got}) ELSE Returns(c, "error", {})
    BY <1>7 DEF S3!Get, S3!Returns, Returns, S3!Keeps, S3!Rest, k, here
  <2>2. CASE here = call[c].got
    <3> DEFINE v == call[c].got
    <3>1. v \in during[c][k] /\ v # Nothing /\ (call[c].op = "range" => v >= call[c].val) /\ v \in Contents
      BY <1>0, <2>1, <2>2 DEF AnswerWitnessed, k, Held
    <3> HIDE DEF v
    <3>2. {v} \in {{}} \cup {{w} : w \in Contents} \cup SUBSET Keys /\ Contract!Correct(c, "ok", {v})
      BY <1>0, <2>1, <3>1, CorrectGet, CorrectRange DEF k
    <3> QED BY <1>0, <2>1, <2>2, <3>2, ReturnMoves DEF v
  <2>3. CASE here # call[c].got
    BY <1>0, <2>1, <2>3, ReturnMoves
  <2> QED BY <2>2, <2>3
<1>8. CASE S3!Removed(c)
  <2>1. /\ Returns(c, "ok", {}) /\ UNCHANGED <<objs, may, driver, synced, tmp>>
        /\ call[c].op = "delete" /\ call[c].pc = "removed"
    BY <1>8 DEF S3!Removed, S3!Has, S3!Returns, Returns, S3!Keeps, S3!Rest
  <2>2. Contract!Correct(c, "ok", {})
    BY <1>0, <2>1, CorrectDelete DEF AnswerWitnessed
  <2> QED BY <1>0, <2>1, <2>2, ReturnMoves
<1>9. CASE S3!List(c)
  <2> DEFINE n == call[c].got + 1
             out == call[c].out
             more == out \cup IF objs[n] = Nothing THEN {} ELSE {n}
  <2>1. /\ call[c].op = "list" /\ call[c].pc = "start" /\ UNCHANGED <<objs, may, driver, tmp, synced>>
        /\ IF n \notin Keys THEN Returns(c, "ok", out)
           ELSE call' = [call EXCEPT ![c].got = n, ![c].out = more]
    BY <1>9 DEF S3!List, S3!Has, S3!Returns, Returns, S3!Keeps, S3!Rest, S3!Nothing, Nothing
  <2>2. call[c].ret = "none" /\ call[c].got \in Nat
    BY <1>0, <2>1 DEF CallRecord
  <2>3. /\ out \subseteq {j \in Keys : during[c][j] # {Nothing}}
        /\ \A j \in Keys : j <= call[c].got /\ Nothing \notin during[c][j] => j \in out
    BY <1>0, <2>1, <2>2 DEF AnswerWitnessed
  <2> HIDE DEF out
  <2>4. CASE n \notin Keys
    <3>1. \A j \in Keys : j <= call[c].got
      BY <2>2, <2>4
    <3>2. Contract!Correct(c, "ok", out)
      BY <2>1, <2>3, <3>1, CorrectList
    <3>3. out \in SUBSET Keys
      BY <2>3
    <3> QED BY <1>0, <2>1, <2>4, <3>2, <3>3, ReturnMoves
  <2>5. CASE n \in Keys
    <3> DEFINE r == [call[c] EXCEPT !.got = n, !.out = more]
    <3>0. more \in SUBSET Keys /\ out \subseteq more /\ (objs[n] # Nothing => n \in more) /\ n \in Nat
      BY <2>2, <2>3, <2>5
    <3>1. call' = [call EXCEPT ![c] = r] /\ call'[c] = r
      BY <1>00, <2>1, <2>5
    <3> HIDE DEF more, n
    <3>2. /\ r \in CallRecord /\ r.pc = "start" /\ r.got = n /\ r.out = more /\ r.ret = "none" /\ r.st = call[c].st
          /\ r.op = "list" /\ r.op = call[c].op /\ r.key = call[c].key /\ r.val = call[c].val
      BY <1>0, <2>1, <2>2, <3>0 DEF CallRecord
    <3> HIDE DEF r
    <3>3. \A j \in Keys : during'[c][j] = during[c][j] \cup {objs'[j]} /\ objs[j] \in during[c][j]
      <4>1. call' \in [Clients -> CallRecord]
        BY <1>00, <3>1, <3>2
      <4> QED BY <1>0, <1>00, <2>1, <3>1, <3>2, <4>1, MemoryKept
    <3>4. StageKnown(c)'
      BY <1>0, <2>1, <3>1, <3>2 DEF StageKnown
    <3>5. \A j \in Keys : j <= n /\ Nothing \notin during'[c][j] => j \in more
      <4> SUFFICES ASSUME NEW j \in Keys, j <= n, Nothing \notin during'[c][j] PROVE j \in more
        OBVIOUS
      <4>1. CASE j = n
        BY <2>1, <3>0, <3>3, <4>1
      <4>2. CASE j # n
        <5>1. j \in Nat /\ n = call[c].got + 1
          BY DEF n
        <5>2. j <= call[c].got
          BY <2>2, <4>2, <5>1
        <5> QED BY <2>3, <3>0, <3>3, <5>2
      <4> QED BY <4>1, <4>2
    <3>6. more \subseteq {j \in Keys : during'[c][j] # {Nothing}}
      BY <2>1, <2>3, <2>5, <3>3 DEF more
    <3>7. AnswerWitnessed(c)'
      BY <3>1, <3>2, <3>5, <3>6 DEF AnswerWitnessed
    <3>8. ClientMoves(c, r)
      BY <1>0, <2>1, <3>1, <3>2, <3>4, <3>7 DEF ClientMoves, Advances, Keeps
    <3> QED BY <3>2, <3>8
  <2> QED BY <2>4, <2>5
<1> QED BY <1>1, <1>2, <1>3, <1>4, <1>5, <1>6, <1>7, <1>8, <1>9 DEF S3!S3Step, S3!Commit

\* Every step of the file system backend is a move.
LEMMA FsMoves ==
    ASSUME DiskInv, Track, NEW c \in Clients, driver = "fs", Fs!FsStep(c)
    PROVE  \E r \in CallRecord : ClientMoves(c, r)
<1> USE KeysNumbered
<1> DEFINE k == call[c].key
           here == objs[k]
<1>0. /\ call[c] \in CallRecord /\ tmp \in SUBSET Clients /\ synced \in SUBSET Clients
      /\ StageKnown(c) /\ AnswerWitnessed(c)
      /\ call[c].pc \notin {"idle", "back"} => /\ call[c].op # "none" /\ call[c].ret = "none"
                                               /\ k \in Keys /\ call[c].val \in Contents
                                               /\ here \in Held /\ here \in during[c][k]
                                               /\ \A j \in Keys : objs[j] \in during[c][j]
      /\ c \in tmp => call[c].op = "put" /\ call[c].pc \in {"body", "commit", "rename", "failed", "sent"}
  BY CallFacts
<1>00. call \in [Clients -> CallRecord] /\ objs \in [Keys -> Held] /\ may \in [Keys -> SUBSET Held]
  BY DEF DiskInv, DiskTypeOK
<1> HIDE DEF k, here
<1>1. CASE Fs!Put(c) \/ Fs!Write(c) \/ Fs!Sync(c)
  <2>1. PICK p \in {"body", "commit", "rename"} :
          Goes(c, p) /\ (p = "rename" => c \in synced') /\ synced' \in {synced, synced \cup {c}}
    BY <1>1 DEF Fs!Put, Fs!Write, Fs!Sync, Fs!Goes, Goes
  <2>2. /\ UNCHANGED <<objs, may, driver>> /\ tmp' \subseteq tmp \cup {c}
        /\ call[c].op = "put" /\ call[c].pc \in {"start", "body", "commit"}
    BY <1>1 DEF Fs!Put, Fs!Write, Fs!Sync, Fs!Rest
  <2>3. call[c].st = "run" /\ call[c].ret = "none"
    BY <1>0, <2>2 DEF StageKnown
  <2> QED BY <1>0, <2>1, <2>2, <2>3, PutMoves
<1>2. CASE Fs!Rename(c)
  <2> DEFINE new == IF call[c].op = "put" THEN call[c].val ELSE Nothing
  <2>1. /\ call[c].op = "put" /\ call[c].pc = "rename" /\ c \in synced
        /\ objs' = [objs EXCEPT ![k] = new]
        /\ call' = [call EXCEPT ![c].pc = "dir", ![c].st = "done"]
        /\ tmp' = tmp \ {c} /\ synced' = synced \ {c} /\ driver' = driver
    BY <1>0, <1>2 DEF Fs!Rename, Fs!Rest, StageKnown, k
  <2>2. may' = [may EXCEPT ![k] = IF "done" = "durable" THEN {new} ELSE @ \cup {new}]
    <3>1. may' = [may EXCEPT ![k] = @ \cup {call[c].val} \cup IF c \in synced THEN {} ELSE {Torn}]
      BY <1>2 DEF Fs!Rename, Fs!Torn, Torn, k
    <3>2. may[k] \cup {call[c].val} \cup (IF c \in synced THEN {} ELSE {Torn}) = may[k] \cup {new}
      BY <2>1
    <3> QED BY <3>1, <3>2
  <2>3. call[c].st = "run" /\ call[c].ret = "none"
    BY <1>0, <2>1 DEF StageKnown
  <2> HIDE DEF new
  <2> QED BY <1>0, <2>1, <2>2, <2>3, EffectMoves DEF k, new
<1>3. CASE Fs!fsyncDir(c)
  <2> DEFINE r == [call[c] EXCEPT !.pc = "flushed", !.st = "durable"]
  <2>1. /\ call[c].op = "put" /\ call[c].pc = "dir" /\ UNCHANGED <<objs, tmp, synced, driver>>
        /\ call' = [call EXCEPT ![c] = r] /\ call'[c] = r
    BY <1>00, <1>3 DEF Fs!fsyncDir, Fs!Rest
  <2>2. may' = [j \in Keys |-> {objs[j]}]
    <3>1. \A j \in Keys : may[j] \cap {Torn} = {}
      <4>1. Torn \notin Held
        BY DEF Held, Torn, Nothing
      <4> QED BY <1>00, <4>1
    <3>2. may' = [j \in Keys |-> {objs[j]} \cup (may[j] \cap {Torn})]
      BY <1>3 DEF Fs!fsyncDir, Fs!Torn, Torn
    <3> QED BY <3>1, <3>2
  <2>3. call[c].st = "done" /\ call[c].ret = "none"
    BY <1>0, <2>1 DEF StageKnown
  <2>4. /\ r \in CallRecord /\ r.pc = "flushed" /\ r.ret = "none" /\ r.st = "durable"
        /\ r.op = call[c].op /\ r.key = call[c].key /\ r.val = call[c].val
    BY <1>0, <2>3 DEF CallRecord
  <2> HIDE DEF r
  <2>5. Stabilises(c, r)
    BY <2>1, <2>2, <2>3, <2>4 DEF Stabilises, Keeps
  <2>6. StageKnown(c)' /\ AnswerWitnessed(c)'
    BY <2>1, <2>4 DEF StageKnown, AnswerWitnessed
  <2>7. ClientMoves(c, r)
    BY <1>0, <2>1, <2>3, <2>4, <2>5, <2>6 DEF ClientMoves
  <2> QED BY <2>4, <2>7
<1>4. CASE Fs!Committed(c)
  <2>1. /\ Returns(c, "ok", {}) /\ UNCHANGED <<objs, may, driver, synced, tmp>> /\ call[c].pc = "flushed"
    BY <1>4 DEF Fs!Committed, Fs!Returns, Returns, Fs!Rest
  <2>2. Contract!Correct(c, "ok", {})
    BY <1>0, <2>1, CorrectPut DEF StageKnown
  <2> QED BY <1>0, <2>1, <2>2, ReturnMoves
<1>5. CASE Fs!CommitFails(c) \/ Fs!Abort(c) \/ Fs!AbortLeaves(c)
  <2>1. /\ Returns(c, "error", {}) /\ UNCHANGED <<objs, may, driver>>
        /\ tmp' = tmp \ {c} /\ synced' = synced \ {c}
        /\ call[c].pc \in {"body", "commit", "rename", "dir"}
    BY <1>5 DEF Fs!CommitFails, Fs!Abort, Fs!AbortLeaves, Fs!Returns, Returns, Fs!Rest
  <2> QED BY <1>0, <2>1, ReturnMoves
<1>6. CASE Fs!Get(c)
  <2>1. /\ call[c].op = "get" /\ call[c].pc = "start" /\ UNCHANGED <<objs, may, driver, tmp, synced>>
        /\ IF here = Nothing THEN Returns(c, "notfound", {}) ELSE Returns(c, "ok", {here})
    BY <1>6 DEF Fs!Get, Fs!Returns, Returns, Fs!Rest, Fs!Nothing, Nothing, k, here
  <2>2. CASE here = Nothing
    BY <1>0, <2>1, <2>2, ReturnMoves, CorrectGet DEF k
  <2>3. CASE here # Nothing
    <3>1. here \in Contents /\ Contract!Correct(c, "ok", {here})
      BY <1>0, <2>1, <2>3, CorrectGet DEF k, Held
    <3>2. {here} \in {{}} \cup {{v} : v \in Contents} \cup SUBSET Keys
      BY <3>1
    <3> QED BY <1>0, <2>1, <2>3, <3>1, <3>2, ReturnMoves
  <2> QED BY <2>2, <2>3
<1>7. CASE Fs!GetRange(c)
  <2>1. /\ call[c].op = "range" /\ call[c].pc \in {"start", "open"} /\ UNCHANGED <<objs, may, driver, tmp, synced>>
        /\ here = Nothing => Returns(c, "notfound", {})
        /\ call[c].pc = "start" /\ here # Nothing /\ here < call[c].val => Returns(c, "invalid", {})
        /\ call[c].pc = "start" /\ here # Nothing /\ ~(here < call[c].val) => Goes(c, "open")
        /\ call[c].pc = "open" /\ here # Nothing /\ here < call[c].val => Returns(c, "short", {})
        /\ call[c].pc = "open" /\ here # Nothing /\ ~(here < call[c].val) => Returns(c, "ok", {here})
    BY <1>7 DEF Fs!GetRange, Fs!Returns, Returns, Fs!Goes, Goes, Fs!Rest, Fs!Nothing, Nothing, k, here
  <2>2. CASE here = Nothing
    BY <1>0, <2>1, <2>2, ReturnMoves, CorrectRange DEF k
  <2>3. CASE call[c].pc = "start" /\ here # Nothing /\ here < call[c].val
    BY <1>0, <2>1, <2>3, ReturnMoves, CorrectRange DEF k
  <2>4. CASE call[c].pc = "start" /\ here # Nothing /\ ~(here < call[c].val)
    <3> DEFINE r == [call[c] EXCEPT !.pc = "open"]
    <3>1. call' = [call EXCEPT ![c] = r] /\ call'[c] = r
      BY <1>00, <2>1, <2>4 DEF Goes
    <3>2. /\ r \in CallRecord /\ r.pc = "open" /\ r.ret = "none" /\ r.st = call[c].st
          /\ r.op = call[c].op /\ r.key = call[c].key /\ r.val = call[c].val
      BY <1>0, <2>4 DEF CallRecord
    <3> HIDE DEF r
    <3>3. here \in during'[c][k]
      <4>1. call' \in [Clients -> CallRecord]
        BY <1>00, <3>1, <3>2
      <4> QED BY <1>0, <1>00, <2>1, <3>1, <3>2, <4>1, MemoryKept
    <3>4. StageKnown(c)'
      BY <1>0, <2>1, <3>1, <3>2 DEF StageKnown
    <3>5. here >= call[c].val
      BY <1>0, <2>1, <2>4 DEF Held
    <3>6. AnswerWitnessed(c)'
      BY <2>1, <2>4, <3>1, <3>2, <3>3, <3>5 DEF AnswerWitnessed, k
    <3>7. ClientMoves(c, r)
      BY <1>0, <2>1, <3>1, <3>2, <3>4, <3>6 DEF ClientMoves, Advances, Keeps
    <3> QED BY <3>2, <3>7
  <2>5. CASE call[c].pc = "open" /\ here # Nothing /\ here < call[c].val
    <3>1. PICK v \in during[c][k] : v >= call[c].val
      BY <1>0, <2>5 DEF AnswerWitnessed, k
    <3>2. k \in Keys /\ here \in Nat /\ call[c].val \in Nat
      BY <1>0, <2>5
    <3>3. v # here
      BY <2>5, <3>1, <3>2
    <3>4. Contract!Correct(c, "short", {})
      BY <1>0, <2>1, <3>3, CorrectRange DEF k
    <3> QED BY <1>0, <2>1, <2>5, <3>4, ReturnMoves
  <2>6. CASE call[c].pc = "open" /\ here # Nothing /\ ~(here < call[c].val)
    <3>1. here \in Contents /\ here >= call[c].val
      BY <1>0, <2>1, <2>6 DEF Held
    <3>2. {here} \in {{}} \cup {{v} : v \in Contents} \cup SUBSET Keys /\ Contract!Correct(c, "ok", {here})
      BY <1>0, <2>1, <2>6, <3>1, CorrectRange DEF k
    <3> QED BY <1>0, <2>1, <2>6, <3>2, ReturnMoves
  <2> QED BY <2>1, <2>2, <2>3, <2>4, <2>5, <2>6
<1>8. CASE Fs!Delete(c) /\ here = Nothing
  <2>1. /\ call[c].op = "delete" /\ call[c].pc = "start" /\ UNCHANGED <<objs, may, driver, tmp, synced>>
        /\ Returns(c, "notfound", {})
    BY <1>8 DEF Fs!Delete, Fs!Returns, Returns, Fs!Rest, Fs!Nothing, Nothing, k, here
  <2> QED BY <1>0, <1>8, <2>1, ReturnMoves, CorrectDelete DEF k
<1>9. CASE Fs!Delete(c) /\ here # Nothing
  <2> DEFINE new == IF call[c].op = "put" THEN call[c].val ELSE Nothing
  <2>1. /\ objs' = [objs EXCEPT ![k] = new] /\ may' = [may EXCEPT ![k] = @ \cup {new}]
        /\ call' = [call EXCEPT ![c].pc = "removed", ![c].st = "done"]
        /\ UNCHANGED <<driver, tmp, synced>>
        /\ call[c].op = "delete" /\ call[c].pc = "start"
    BY <1>9 DEF Fs!Delete, Fs!Visible, Fs!Rest, Fs!Nothing, Nothing, k, here
  <2>2. call[c].st = "run" /\ call[c].ret = "none"
    BY <1>0, <2>1 DEF StageKnown
  <2>3. call[c].op = "delete" => during[c][k] # {Nothing}
    BY <1>0, <1>9, <2>1
  <2>4. may' = [may EXCEPT ![k] = IF "done" = "durable" THEN {new} ELSE @ \cup {new}]
    BY <2>1
  <2> HIDE DEF new
  <2> QED BY <1>0, <2>1, <2>2, <2>3, <2>4, EffectMoves DEF k, new
<1>10. CASE Fs!Deleted(c)
  <2>1. /\ Returns(c, "ok", {}) /\ UNCHANGED <<objs, may, driver, synced, tmp>> /\ call[c].pc = "removed"
    BY <1>10 DEF Fs!Deleted, Fs!Returns, Returns, Fs!Rest
  <2>2. Contract!Correct(c, "ok", {})
    BY <1>0, <2>1, CorrectDelete DEF AnswerWitnessed, StageKnown
  <2> QED BY <1>0, <2>1, <2>2, ReturnMoves
<1>11. CASE Fs!List(c)
  <2> DEFINE n == call[c].got + 1
             out == call[c].out
  <2>1. /\ call[c].op = "list" /\ call[c].pc \in {"start", "info"} /\ UNCHANGED <<objs, may, driver, tmp, synced>>
        /\ \/ call[c].pc = "info" /\ objs[n] = Nothing /\ Returns(c, "error", {})
           \/ call[c].pc = "start" /\ n \notin Keys /\ Returns(c, "ok", out)
           \/ call[c].pc = "start" /\ n \in Keys /\ objs[n] # Nothing /\ Goes(c, "info")
           \/ /\ call[c].pc = "info" /\ objs[n] # Nothing
              /\ call' = [call EXCEPT ![c].pc = "start", ![c].got = n, ![c].out = out \cup {n}]
           \/ /\ call[c].pc = "start" /\ n \in Keys /\ objs[n] = Nothing
              /\ call' = [call EXCEPT ![c].got = n]
    BY <1>11 DEF Fs!List, Fs!Returns, Returns, Fs!Goes, Goes, Fs!Rest, Fs!Nothing, Nothing
  <2>2. call[c].ret = "none" /\ call[c].got \in Nat /\ n \in Nat /\ out \in SUBSET (Keys \cup Contents)
    BY <1>0, <2>1 DEF CallRecord
  <2>3. /\ out \subseteq {j \in Keys : during[c][j] # {Nothing}}
        /\ \A j \in Keys : j <= call[c].got /\ Nothing \notin during[c][j] => j \in out
        /\ call[c].pc = "info" => n \in Keys
    BY <1>0, <2>1, <2>2 DEF AnswerWitnessed
  <2>4. ASSUME NEW j \in Keys, j <= n, j # n
        PROVE  j <= call[c].got
    <3>1. j \in Nat /\ n = call[c].got + 1
      OBVIOUS
    <3> QED BY <2>2, <2>4, <3>1
  <2>5. CASE call[c].pc = "info" /\ objs[n] = Nothing /\ Returns(c, "error", {})
    BY <1>0, <2>1, <2>5, ReturnMoves
  <2>6. CASE call[c].pc = "start" /\ n \notin Keys /\ Returns(c, "ok", out)
    <3>1. \A j \in Keys : j <= call[c].got
      BY <2>2, <2>6
    <3> HIDE DEF out
    <3>2. Contract!Correct(c, "ok", out)
      BY <2>1, <2>3, <3>1, CorrectList
    <3>3. out \in SUBSET Keys
      BY <2>3
    <3> QED BY <1>0, <2>1, <2>6, <3>2, <3>3, ReturnMoves
  <2> DEFINE r == call'[c]
  <2>7. ASSUME r \in CallRecord, call' = [call EXCEPT ![c] = r], r.pc \in {"start", "info"},
               r.op = "list", r.key = call[c].key, r.val = call[c].val, r.st = call[c].st, r.ret = "none",
               \/ r.got = call[c].got /\ r.out = out
               \/ r.got = n /\ n \in Keys /\ r.out \in {out, out \cup {n}},
               n \in r.out => n \in out \/ objs[n] # Nothing,
               r.got = n => n \in r.out \/ objs[n] = Nothing,
               r.pc = "info" => r.got = call[c].got /\ n \in Keys
        PROVE  ClientMoves(c, r)
    <3>1. \A j \in Keys : during'[c][j] = during[c][j] \cup {objs'[j]} /\ objs[j] \in during[c][j]
      <4>1. call' \in [Clients -> CallRecord]
        BY <1>00, <2>7
      <4> QED BY <1>0, <1>00, <2>1, <2>7, <4>1, MemoryKept
    <3> HIDE DEF n, out
    <3>2. \A j \in Keys : j <= r.got /\ Nothing \notin during'[c][j] => j \in r.out
      <4> SUFFICES ASSUME NEW j \in Keys, j <= r.got, Nothing \notin during'[c][j] PROVE j \in r.out
        OBVIOUS
      <4>1. Nothing \notin during[c][j] /\ objs[j] # Nothing
        BY <2>1, <3>1
      <4>2. CASE r.got = n /\ j = n
        BY <2>7, <4>1, <4>2
      <4>3. CASE r.got = call[c].got \/ j # n
        <5>1. j <= call[c].got
          BY <2>4, <2>7, <4>3
        <5> QED BY <2>3, <2>7, <4>1, <5>1
      <4> QED BY <2>7, <4>2, <4>3
    <3>3. r.out \subseteq {j \in Keys : during'[c][j] # {Nothing}}
      <4>1. \A j \in Keys : during[c][j] # {Nothing} \/ objs[j] # Nothing => during'[c][j] # {Nothing}
        BY <2>1, <3>1
      <4> QED BY <2>3, <2>7, <4>1
    <3>4. r.pc = "info" => r.got + 1 \in Keys
      BY <2>7 DEF n
    <3>5. StageKnown(c)'
      BY <2>7 DEF StageKnown
    <3>6. AnswerWitnessed(c)'
      BY <2>7, <3>2, <3>3, <3>4 DEF AnswerWitnessed
    <3> QED BY <1>0, <2>1, <2>2, <2>7, <3>5, <3>6 DEF ClientMoves, Advances, Keeps
  <2>8. CASE \/ call[c].pc = "start" /\ n \in Keys /\ objs[n] # Nothing /\ Goes(c, "info")
             \/ /\ call[c].pc = "info" /\ objs[n] # Nothing
                /\ call' = [call EXCEPT ![c].pc = "start", ![c].got = n, ![c].out = out \cup {n}]
             \/ /\ call[c].pc = "start" /\ n \in Keys /\ objs[n] = Nothing
                /\ call' = [call EXCEPT ![c].got = n]
    <3>1. CASE call[c].pc = "start" /\ n \in Keys /\ objs[n] # Nothing /\ Goes(c, "info")
      <4>1. /\ r = [call[c] EXCEPT !.pc = "info"] /\ call' = [call EXCEPT ![c] = r]
        BY <1>00, <3>1 DEF Goes
      <4>2. /\ r \in CallRecord /\ r.pc = "info" /\ r.got = call[c].got /\ r.out = out /\ r.ret = "none"
            /\ r.op = "list" /\ r.key = call[c].key /\ r.val = call[c].val /\ r.st = call[c].st
        BY <1>0, <2>1, <2>2, <4>1 DEF CallRecord
      <4> QED BY <2>7, <3>1, <4>1, <4>2
    <3>2. CASE /\ call[c].pc = "info" /\ objs[n] # Nothing
               /\ call' = [call EXCEPT ![c].pc = "start", ![c].got = n, ![c].out = out \cup {n}]
      <4>1. /\ r = [call[c] EXCEPT !.pc = "start", !.got = n, !.out = out \cup {n}] /\ call' = [call EXCEPT ![c] = r]
        BY <1>00, <3>2
      <4>2. out \cup {n} \in SUBSET (Keys \cup Contents)
        BY <2>2, <2>3, <3>2
      <4>3. /\ r \in CallRecord /\ r.pc = "start" /\ r.got = n /\ r.out = out \cup {n} /\ r.ret = "none"
            /\ r.op = "list" /\ r.key = call[c].key /\ r.val = call[c].val /\ r.st = call[c].st
        <5> DEFINE more == out \cup {n}
        <5> HIDE DEF n, more
        <5> QED BY <1>0, <2>1, <2>2, <4>1, <4>2 DEF CallRecord
      <4> QED BY <2>3, <2>7, <3>2, <4>1, <4>3
    <3>3. CASE /\ call[c].pc = "start" /\ n \in Keys /\ objs[n] = Nothing
               /\ call' = [call EXCEPT ![c].got = n]
      <4>1. /\ r = [call[c] EXCEPT !.got = n] /\ call' = [call EXCEPT ![c] = r]
        BY <1>00, <3>3
      <4>2. /\ r \in CallRecord /\ r.pc = "start" /\ r.got = n /\ r.out = out /\ r.ret = "none"
            /\ r.op = "list" /\ r.key = call[c].key /\ r.val = call[c].val /\ r.st = call[c].st
        BY <1>0, <2>1, <2>2, <3>3, <4>1 DEF CallRecord
      <4> QED BY <2>7, <3>3, <4>1, <4>2
    <3> QED BY <2>7, <2>8, <3>1, <3>2, <3>3 DEF ClientMoves
  <2> QED BY <2>1, <2>5, <2>6, <2>8
<1> QED BY <1>1, <1>2, <1>3, <1>4, <1>5, <1>6, <1>7, <1>8, <1>9, <1>10, <1>11 DEF Fs!FsStep, Fs!Commit

-----------------------------------------------------------------------------
LEMMA DiskInit == Init => DiskInv
<1> SUFFICES ASSUME Init PROVE DiskInv
  OBVIOUS
<1> USE KeysNumbered
<1>1. NoCall \in CallRecord
  BY DEF NoCall, CallRecord, Held, Nothing
<1>2. DiskTypeOK
  BY <1>1 DEF Init, DiskTypeOK, Held
<1>3. VisibleMayStay /\ TmpOwned
  BY DEF Init, VisibleMayStay, TmpOwned
<1>4. \A c \in Clients : CallWitnessed(c) /\ StageKnown(c) /\ AnswerWitnessed(c)
  BY DEF Init, CallWitnessed, StageKnown, AnswerWitnessed, NoCall
<1> QED BY <1>2, <1>3, <1>4 DEF DiskInv

\* The beginning and the end of a call.
LEMMA EdgesKeep ==
    ASSUME DiskInv, Track, NEW c \in Clients, Begin(c) \/ Leave(c)
    PROVE  DiskInv' /\ Contract!Next
<1> USE KeysNumbered
<1>0. DiskTypeOK /\ VisibleMayStay /\ CallWitnessed(c) /\ StageKnown(c) /\ TmpOwned
  BY DEF DiskInv
<1>1. UNCHANGED <<driver, objs, may, synced, tmp>>
  BY DEF Begin, Leave
<1>2. PICK r : /\ r \in CallRecord /\ call' = [call EXCEPT ![c] = r]
               /\ r.ret = "none" /\ c \notin tmp
               /\ \/ r = NoCall /\ call[c].pc = "back"
                  \/ /\ call[c] = NoCall /\ r.op # "none" /\ r.key \in Keys /\ r.val \in Contents
                     /\ r.op \in {"put", "get", "range", "delete", "list"}
                     /\ r.pc = "start" /\ r.st = "run" /\ r.out = {} /\ r.got = 0
  <2>1. CASE Leave(c)
    <3>1. NoCall \in CallRecord /\ NoCall.ret = "none"
      BY DEF NoCall, CallRecord, Held, Nothing
    <3>2. c \notin tmp /\ call' = [call EXCEPT ![c] = NoCall] /\ call[c].pc = "back"
      BY <1>0, <2>1 DEF Leave, TmpOwned
    <3> QED BY <3>1, <3>2
  <2>2. CASE Begin(c)
    <3>1. PICK i \in Inputs :
             call' = [call EXCEPT ![c] =
                 [NoCall EXCEPT !.op = i.op, !.key = i.key, !.val = i.val, !.st = "run", !.pc = "start"]]
      BY <2>2 DEF Begin
    <3>2. i.op \in {"put", "get", "range", "delete", "list"} /\ i.key \in Keys /\ i.val \in Contents
      BY <3>1 DEF Inputs
    <3> DEFINE r == [NoCall EXCEPT !.op = i.op, !.key = i.key, !.val = i.val, !.st = "run", !.pc = "start"]
    <3>3. /\ r.op = i.op /\ r.key = i.key /\ r.val = i.val /\ r.pc = "start" /\ r.st = "run"
          /\ r.out = {} /\ r.got = 0 /\ r.ret = "none"
      BY DEF NoCall
    <3>4. r \in CallRecord
      BY <3>2 DEF NoCall, CallRecord, Held
    <3>5. c \notin tmp /\ call[c] = NoCall
      <4>1. call[c] = NoCall
        BY <2>2 DEF Begin
      <4>2. NoCall.op = "none"
        BY DEF NoCall
      <4> QED BY <1>0, <4>1, <4>2 DEF TmpOwned
    <3> HIDE DEF r
    <3>6. call' = [call EXCEPT ![c] = r]
      BY <3>1 DEF r
    <3> QED BY <3>2, <3>3, <3>4, <3>5, <3>6
  <2> QED BY <2>1, <2>2
<1>3. call' \in [Clients -> CallRecord] /\ call'[c] = r /\ \A d \in Clients \ {c} : call'[d] = call[d]
  BY <1>0, <1>2 DEF DiskTypeOK
<1>4. objs' \in [Keys -> Held]
  BY <1>0, <1>1 DEF DiskTypeOK
<1>5. DiskTypeOK' /\ VisibleMayStay' /\ TmpOwned'
  <2>1. DiskTypeOK' /\ VisibleMayStay'
    BY <1>0, <1>1, <1>3, <1>4, TrackTyped DEF DiskTypeOK, VisibleMayStay
  <2>2. \A d \in tmp' : d \in Clients \ {c} /\ d \in tmp
    BY <1>0, <1>1, <1>2 DEF DiskTypeOK
  <2> QED BY <1>0, <1>1, <1>3, <2>1, <2>2 DEF TmpOwned
<1>6. \A d \in Clients \ {c} : CallWitnessed(d)' /\ StageKnown(d)' /\ AnswerWitnessed(d)'
  BY <1>1, <1>3, <1>4, OthersKept
<1>7. CASE r = NoCall /\ call[c].pc = "back"
  <2>1. \A k \in Keys : during'[c][k] = {}
    <3>1. call'[c].op = "none"
      BY <1>3, <1>7 DEF NoCall
    <3> QED BY <1>0, <1>3, <1>4, <3>1, TrackTyped
  <2>2. CallWitnessed(c)' /\ StageKnown(c)' /\ AnswerWitnessed(c)'
    BY <1>3, <1>7, <2>1 DEF CallWitnessed, StageKnown, AnswerWitnessed, NoCall
  <2>3. SeenCalls' = [SeenCalls EXCEPT ![c] = Seen(NoCall)]
    BY <1>0, <1>2, <1>7, OneSeen
  <2>4. Seen(NoCall) = Contract!NoCall
    BY DEF Seen, NoCall, Contract!NoCall
  <2>5. SeenCalls[c].ret # "none"
    BY <1>0, <1>7 DEF SeenCalls, Seen, StageKnown
  <2>6. Contract!Leave(c)
    BY <1>1, <2>3, <2>4, <2>5 DEF Contract!Leave, SeenCalls, Seen
  <2> QED BY <1>3, <1>4, <1>5, <1>6, <2>2, <2>6, TrackSeen DEF DiskInv, Contract!Next
<1>8. CASE /\ call[c] = NoCall /\ r.op # "none" /\ r.key \in Keys /\ r.val \in Contents
           /\ r.op \in {"put", "get", "range", "delete", "list"}
           /\ r.pc = "start" /\ r.st = "run" /\ r.out = {} /\ r.got = 0
  <2>1. \A k \in Keys : during'[c][k] = {objs'[k]}
    <3>1. call[c].op = "none" /\ call'[c].op # "none"
      BY <1>3, <1>8 DEF NoCall
    <3> QED BY <1>0, <1>3, <1>4, <3>1, TrackTyped
  <2>2. CallWitnessed(c)' /\ StageKnown(c)'
    BY <1>2, <1>3, <1>8, <2>1 DEF CallWitnessed, StageKnown
  <2>3. AnswerWitnessed(c)'
    <3>1. \A k \in Keys : ~(k <= 0)
      OBVIOUS
    <3> QED BY <1>3, <1>8, <3>1 DEF AnswerWitnessed
  <2>4. SeenCalls' = [SeenCalls EXCEPT ![c] = Seen(r)]
    BY <1>0, <1>2, OneSeen
  <2>5. Seen(r) = [Contract!NoCall EXCEPT !.op = r.op, !.key = r.key, !.val = r.val, !.st = "run"]
    <3> DEFINE u == [Contract!NoCall EXCEPT !.op = r.op, !.key = r.key, !.val = r.val, !.st = "run"]
               w == Seen(r)
               Fields == {"op", "key", "val", "st", "ret", "out"}
    <3>1. w["ret"] = "none" /\ w["out"] = {} /\ u["ret"] = "none" /\ u["out"] = {}
      BY <1>2 DEF Seen, Contract!NoCall
    <3>2. u["st"] = "run" /\ w["st"] = "run" /\ u["op"] = r.op /\ w["op"] = r.op
      BY <1>8 DEF Seen, Contract!NoCall
    <3>3. u["key"] = r.key /\ w["key"] = r.key /\ u["val"] = r.val /\ w["val"] = r.val
      BY DEF Seen, Contract!NoCall
    <3>4. u = [i \in Fields |-> u[i]]
      BY DEF Contract!NoCall
    <3>5. w = [i \in Fields |-> w[i]]
      BY DEF Seen
    <3> HIDE DEF u, w
    <3>6. \A i \in Fields : u[i] = w[i]
      BY <3>1, <3>2, <3>3
    <3>7. [i \in Fields |-> u[i]] = [i \in Fields |-> w[i]]
      BY <3>6
    <3>8. u = w
      BY <3>4, <3>5, <3>7, Zenon
    <3> QED BY <3>8 DEF u, w
  <2>6. SeenCalls[c] = Contract!NoCall
    BY <1>8 DEF SeenCalls, Seen, NoCall, Contract!NoCall
  <2>7. Contract!Call(c)
    <3>1. SeenCalls' = [SeenCalls EXCEPT ![c] =
                           [Contract!NoCall EXCEPT !.op = r.op, !.key = r.key, !.val = r.val, !.st = "run"]]
      BY <2>4, <2>5, Zenon
    <3>2. \E op \in {"put", "get", "range", "delete", "list"}, k \in Keys, v \in Contents :
             SeenCalls' = [SeenCalls EXCEPT ![c] =
                              [Contract!NoCall EXCEPT !.op = op, !.key = k, !.val = v, !.st = "run"]]
      BY <1>8, <3>1, Zenon
    <3>3. Undone' = Undone /\ objs' = objs
      BY <1>1 DEF Undone
    <3> QED BY <2>6, <3>2, <3>3, Zenon DEF Contract!Call, SeenCalls, Seen, Undone
  <2> QED BY <1>3, <1>4, <1>5, <1>6, <2>2, <2>3, <2>7, TrackSeen DEF DiskInv, Contract!Next
<1> QED BY <1>2, <1>7, <1>8

\* A death of the process, with the power or without it.
LEMMA DeathKeeps ==
    ASSUME DiskInv, Track, Crash \/ PowerLoss
    PROVE  DiskInv' /\ Contract!Next
<1> USE KeysNumbered
<1>0. DiskTypeOK /\ VisibleMayStay
  BY DEF DiskInv
<1>1. /\ call' = [c \in Clients |-> NoCall] /\ tmp' = {} /\ synced' = {} /\ driver' = driver
  BY DEF Crash, PowerLoss, Dies
<1>2. NoCall \in CallRecord
  BY DEF NoCall, CallRecord, Held, Nothing
<1>3. /\ call' \in [Clients -> CallRecord] /\ \A c \in Clients : call'[c] = NoCall /\ call'[c].op = "none"
  BY <1>1, <1>2 DEF NoCall
<1>4. /\ objs' \in [Keys -> Held] /\ may' \in [Keys -> SUBSET Held] /\ VisibleMayStay'
      /\ \/ objs' = objs /\ may' = may
         \/ may' = [k \in Keys |-> {objs'[k]}] /\ \A k \in Keys : objs'[k] \in may[k]
  <2>1. CASE Crash
    BY <1>0, <2>1 DEF Crash, DiskTypeOK, VisibleMayStay
  <2>2. CASE PowerLoss
    <3>1. PICK was \in [Keys -> {Nothing, Torn} \cup Contents] :
             /\ \A k \in Keys : was[k] \in may[k]
             /\ objs' = was /\ may' = [k \in Keys |-> {was[k]}]
      BY <2>2 DEF PowerLoss
    <3>2. \A k \in Keys : was[k] \in Held
      BY <1>0, <3>1 DEF DiskTypeOK
    <3>3. was \in [Keys -> Held]
      BY <3>2
    <3> QED BY <3>1, <3>2, <3>3 DEF VisibleMayStay
  <2> QED BY <2>1, <2>2
<1>5. \A c \in Clients, k \in Keys : during'[c][k] = {}
  BY <1>0, <1>3, <1>4, TrackTyped
<1>6. DiskTypeOK' /\ TmpOwned'
  BY <1>0, <1>1, <1>3, <1>4, TrackTyped DEF DiskTypeOK, TmpOwned
<1>7. \A c \in Clients : CallWitnessed(c)' /\ StageKnown(c)' /\ AnswerWitnessed(c)'
  BY <1>3, <1>5 DEF CallWitnessed, StageKnown, AnswerWitnessed, NoCall
<1>8. SeenCalls' = [c \in Clients |-> Contract!NoCall]
  <2>1. Seen(NoCall) = Contract!NoCall
    BY DEF Seen, NoCall, Contract!NoCall
  <2> QED BY <1>3, <2>1 DEF SeenCalls
<1>9. Contract!Crash
  <2>1. CASE objs' = objs /\ may' = may
    BY <1>8, <2>1 DEF Contract!Crash, SeenCalls, Seen
  <2>2. CASE may' = [k \in Keys |-> {objs'[k]}] /\ \A k \in Keys : objs'[k] \in may[k]
    <3>1. Undone' = [k \in Keys |-> {}]
      BY <2>2 DEF Undone
    <3>2. \A k \in Keys : objs'[k] \in {objs[k]} \cup Undone[k]
      BY <2>2 DEF Undone
    <3>3. objs' \in [Keys -> {Contract!Nothing} \cup Contents]
      BY <1>4 DEF Held, Nothing, Contract!Nothing
    <3> QED BY <1>8, <3>1, <3>2, <3>3 DEF Contract!Crash, SeenCalls, Seen, Undone
  <2> QED BY <1>4, <2>1, <2>2
<1> QED BY <1>3, <1>4, <1>6, <1>7, <1>9, TrackSeen DEF DiskInv, Contract!Next

\* A step in which no call moves is not seen.
LEMMA IdleKeeps ==
    ASSUME DiskInv, UNCHANGED <<driver, objs, may, call, synced, tmp>>, Track \/ during' = during
    PROVE  DiskInv' /\ UNCHANGED Contract!contractVars
<1>1. during' = during
  <2>1. objs' = objs /\ call' \in [Clients -> CallRecord] /\ \A c \in Clients : call'[c].op = call[c].op
    BY DEF DiskInv, DiskTypeOK
  <2> QED BY <2>1, DuringSame
<1>2. UNCHANGED Contract!contractVars
  BY <1>1 DEF Contract!contractVars
<1> QED BY <1>1, <1>2 DEF DiskInv, DiskTypeOK, VisibleMayStay, TmpOwned, CallWitnessed, StageKnown, AnswerWitnessed

LEMMA DiskStep == DiskInv /\ [Next]_diskVars => DiskInv' /\ [Contract!Next]_(Contract!contractVars)
<1> SUFFICES ASSUME DiskInv, [Next]_diskVars PROVE DiskInv' /\ [Contract!Next]_(Contract!contractVars)
  OBVIOUS
<1>1. ASSUME NEW c \in Clients, Begin(c) \/ Leave(c), Track
      PROVE  DiskInv' /\ [Contract!Next]_(Contract!contractVars)
  BY <1>1, EdgesKeep
<1>2. ASSUME NEW c \in Clients, Step(c), Track
      PROVE  DiskInv' /\ [Contract!Next]_(Contract!contractVars)
  <2>1. PICK r \in CallRecord : ClientMoves(c, r)
    BY <1>2, FsMoves, S3Moves, FakeMoves DEF Step
  <2>2. DiskInv'
    BY <1>2, <2>1, MoveKeeps
  <2> QED BY <1>2, <2>1, <2>2, MoveRefines
<1>3. CASE (Crash \/ PowerLoss) /\ Track
  BY <1>3, DeathKeeps
<1>4. CASE New /\ Track
  BY <1>4, IdleKeeps DEF New
<1>5. CASE UNCHANGED diskVars
  BY <1>5, IdleKeeps DEF diskVars
<1> QED BY <1>1, <1>2, <1>3, <1>4, <1>5 DEF Next

THEOREM DiskInvariance == Spec => []DiskInv
<1>1. DiskInv /\ [Next]_diskVars => DiskInv'
  BY DiskStep
<1> QED BY <1>1, DiskInit, PTL DEF Spec

\* A temporary file never outlives its writer: in every backend, after every
\* failure, cancellation and death of the process, the temporary files that are
\* not litter belong to writes in progress (fs.go:357-417, s3.go:449-505).
THEOREM TemporaryFilesOwned == Spec => []TmpHasWriter
<1>1. DiskInv => TmpHasWriter
  BY DEF DiskInv, DiskTypeOK, TmpOwned, TmpHasWriter, StageKnown
<1> QED BY <1>1, DiskInvariance, PTL

\* The file system, S3 and the test double each implement the contract of
\* port.Storage, for any numbers of keys, contents, clients, calls and failures.
THEOREM BackendsRefine == Spec => BackendsImplementContract
<1>1. Init => Contract!Init
  <2> SUFFICES ASSUME Init PROVE Contract!Init
    OBVIOUS
  <2>1. SeenCalls = [c \in Clients |-> Contract!NoCall]
    BY DEF Init, SeenCalls, Seen, NoCall, Contract!NoCall
  <2>2. Undone = [k \in Keys |-> {}]
    BY DEF Init, Undone
  <2> QED BY <2>1, <2>2 DEF Init, Contract!Init, SeenCalls, Seen, Undone, Nothing, Contract!Nothing
<1>2. DiskInv /\ [Next]_diskVars => [Contract!Next]_(Contract!contractVars)
  BY DiskStep
<1> QED BY <1>1, <1>2, DiskInvariance, PTL DEF Spec, BackendsImplementContract, Contract!Spec
=============================================================================
