---------------------------- MODULE CacheProofs -----------------------------
(***************************************************************************)
(* Proofs about the mutable cache engine, for every set of keys and of     *)
(* clients, every configuration and every combination of failures.         *)
(*                                                                         *)
(* The steps fall into groups that disturb the invariant in the same way:  *)
(* a request that moves on by itself, a flight that starts or moves on, a  *)
(* flight that ends without moving the index row, one that ends by moving  *)
(* it.  There is one lemma per group, and the actions instantiate them.    *)
(***************************************************************************)
EXTENDS CacheSweep, TLAPS

\* A request that moves on is a request.
LEMMA GoType ==
    ASSUME TypeOK, NEW c \in Clients, NEW pc \in ReqPcs,
           NEW row \in Row \cup {None}, NEW out \in Outs
    PROVE  Go(c, pc, row, out) \in Request
  BY DEF TypeOK, Go, Request

\* A free request slot is a request.
LEMMA IdleReqType == ASSUME NEW c \in Clients PROVE IdleReq(c) \in Request
  BY CacheAssumption DEF IdleReq, Request, ReqPcs, Outs

\* The fields of a request in progress.
LEMMA RequestFields ==
    ASSUME TypeOK, NEW c \in Clients
    PROVE  /\ req[c] \in Request
           /\ req[c].key \in Keys
           /\ req[c].row \in Row \cup {None}
           /\ req[c].out \in Outs
           /\ req[c].lead \in Clients
  BY DEF TypeOK, Request

\* The fields of a flight in progress.
LEMMA FlightFields ==
    ASSUME TypeOK, NEW l \in Clients, flight[l] # None
    PROVE  /\ flight[l] \in Flight
           /\ flight[l].old \in Row \cup {None}
           /\ flight[l].ver \in Nat
           /\ flight[l].n \in Nat
           /\ flight[l].at \in Nat
  <1>1. flight[l] \in Flight
    BY DEF TypeOK
  <1> QED
    BY <1>1 DEF Flight

\* An entry of the negative cache has the right type, whichever is evicted.
LEMMA RememberNegativeType ==
    ASSUME TypeOK, NEW k \in Keys, NEW ttl \in Nat, NEW err \in {"nf", "up"},
           RememberNegative(k, ttl, err)
    PROVE  negative' \in [Keys -> Negative \cup {None}]
  <1> DEFINE entry == [until |-> clock + ttl, err |-> err]
  <1>1. entry \in Negative
    BY DEF TypeOK, Negative
  <1> HIDE DEF entry
  <1>2. CASE negative' = negative
    BY <1>2 DEF TypeOK
  <1>3. CASE negative' = [negative EXCEPT ![k] = entry]
    BY <1>1, <1>3 DEF TypeOK
  <1>4. CASE \E j \in Keys : negative' = [negative EXCEPT ![j] = None, ![k] = entry]
    BY <1>1, <1>4 DEF TypeOK
  <1> QED
    BY <1>2, <1>3, <1>4 DEF RememberNegative, entry

\* The object a leader writes is an object.
LEMMA FlightBlobType ==
    ASSUME TypeOK, NEW l \in Clients, flight[l] # None
    PROVE  FlightBlob(l) \in Blob
  BY FlightFields, RequestFields DEF FlightBlob, Blob

-----------------------------------------------------------------------------
\* A request moves on by itself: to a row it had, to the row it has just read
\* from the index, or to no row.
LEMMA RequestMoves ==
    ASSUME IInv, NEW c \in Clients, NEW r \in Request,
           req[c].pc # "wait", r.pc # "wait",
           req' = [req EXCEPT ![c] = r],
           UNCHANGED <<clock, pub, index, store, seq, negative, flight, deletes, crashes>>,
           \/ r.row = None
           \/ r.row = req[c].row /\ r.key = req[c].key
           \/ r.row = index[r.key],
           r.pc \in {"hit", "final", "resolved"} \/ r.out = "missing" => r.row # None,
           r.out = "missing" => r.pc = "failed"
    PROVE  IInv'
  <1>1. TypeOK /\ req \in [Clients -> Request]
    BY DEF IInv, TypeOK
  <1>2. req'[c] = r /\ \A d \in Clients : d # c => req'[d] = req[d]
    BY <1>1
  <1>3. flight[c] = None
    BY DEF IInv, SingleFlight
  <1>4. r.key \in Keys
    BY DEF Request
  <1>5. \A l \in Clients : flight[l] # None =>
          /\ l # c /\ req'[l] = req[l] /\ flight'[l] = flight[l]
          /\ FlightBlob(l)' = FlightBlob(l) /\ Writes(l)' = Writes(l)
    BY <1>2, <1>3 DEF FlightBlob, Writes
  <1>6. \A l \in Clients : Writes(l)' => flight[l] # None
    BY DEF Writes
  <1>7. TypeOK'
    BY <1>1 DEF TypeOK
  <1>8. IndexedBytesStored'
    BY DEF IInv, IndexedBytesStored
  <1>9. SingleFlight'
    BY <1>2, <1>3, <1>5 DEF IInv, SingleFlight
  <1>10. OldIsIndexed'
    BY <1>5 DEF IInv, OldIsIndexed
  <1>11. NumbersUsed'
    BY <1>2, <1>4 DEF IInv, NumbersUsed, IndexedBytesStored
  <1>12. WrittenIsPrivate'
    BY <1>2, <1>4, <1>5, <1>6 DEF IInv, WrittenIsPrivate
  <1>13. RowsKnown'
    BY <1>2, <1>4 DEF IInv, RowsKnown, ReplyDescribesBytes, IndexedBytesStored
  <1>14. VersionsOrdered'
    BY <1>5, <1>6 DEF IInv, VersionsOrdered, Ver
  <1> QED
    BY <1>7, <1>8, <1>9, <1>10, <1>11, <1>12, <1>13, <1>14 DEF IInv

\* A flight moves on, in a way that fits the index and the version numbers.
LEMMA FlightMoves ==
    ASSUME IInv, NEW l \in Clients, NEW f \in Flight, flight[l] # None,
           flight' = [flight EXCEPT ![l] = f],
           UNCHANGED <<clock, pub, index, negative, req, deletes, crashes>>,
           seq' \in Nat, seq <= seq',
           f.old \in {None, index[req[l].key]},
           f.pc = "extend" => f.old # None,
           f.n <= seq',
           \/ f.pc \notin {"body", "put"} /\ store' = store
           \/ f.pc = "body" /\ f.n > seq /\ f.ver = Ver(req[l].key) /\ store' = store
           \/ /\ f.pc = "put" /\ Writes(l)
              /\ f.n = flight[l].n /\ f.ver = flight[l].ver /\ f.at = flight[l].at
              /\ store' = store \cup {FlightBlob(l)}
    PROVE  IInv'
  <1>1. TypeOK
    BY DEF IInv
  <1>2. flight'[l] = f /\ \A m \in Clients : m # l => flight'[m] = flight[m]
    BY <1>1 DEF TypeOK
  <1>3. f # None
    BY NoneAssumption
  <1>4. \A m \in Clients : m # l => FlightBlob(m)' = FlightBlob(m) /\ Writes(m)' = Writes(m)
    BY <1>2 DEF FlightBlob, Writes
  <1>5. FlightBlob(l)'.n = f.n /\ FlightBlob(l)'.key = req[l].key /\ FlightBlob(l).key = req[l].key
    BY <1>2 DEF FlightBlob
  <1>6. f.pc = "put" => FlightBlob(l)' = FlightBlob(l)
    BY <1>2 DEF FlightBlob
  <1>7. FlightBlob(l) \in Blob /\ FlightBlob(l).n = flight[l].n
    BY <1>1, FlightBlobType DEF FlightBlob
  <1>8. TypeOK'
    BY <1>1, <1>7 DEF TypeOK
  <1>9. IndexedBytesStored'
    BY DEF IInv, IndexedBytesStored
  <1>10. SingleFlight'
    BY <1>1, <1>2, <1>3, RequestFields DEF IInv, SingleFlight
  <1>11. OldIsIndexed'
    BY <1>2 DEF IInv, OldIsIndexed
  <1>12. NumbersUsed'
    <2>1. \A b \in store \cup deletes : b.n \in Nat
      BY <1>1 DEF TypeOK, Blob
    <2>2. \A c \in Clients : req[c].row # None => req[c].row.blob.n \in Nat
      BY <1>1, RequestFields DEF Row, Blob
    <2>3. \A m \in Clients : flight[m] # None => flight[m].n \in Nat
      BY <1>1, FlightFields
    <2>4. seq \in Nat
      BY <1>1 DEF TypeOK
    <2> QED
      BY <1>2, <1>7, <2>1, <2>2, <2>3, <2>4 DEF IInv, NumbersUsed
  <1>13. WrittenIsPrivate'
    <2>1. ASSUME NEW m \in Clients, m # l, Writes(m) PROVE
            /\ FlightBlob(m) \notin deletes'
            /\ flight'[m].pc = "put" => FlightBlob(m) \in store'
            /\ \A k \in Keys : index'[k] # None => index'[k].blob # FlightBlob(m)
            /\ \A c \in Clients : req'[c].row # None => req'[c].row.blob # FlightBlob(m)
      BY <1>2, <2>1 DEF IInv, WrittenIsPrivate
    <2>2. CASE f.pc = "body"
      <3>1. \A b \in store \cup deletes : b.n \in Nat /\ b.n <= seq
        BY <1>1 DEF TypeOK, Blob, IInv, NumbersUsed
      <3>2. \A c \in Clients : req[c].row # None =>
              req[c].row.blob.n \in Nat /\ req[c].row.blob.n <= seq
        BY <1>1, RequestFields DEF Row, Blob, IInv, NumbersUsed
      <3>3. \A k \in Keys : index[k] # None => index[k].blob.n \in Nat /\ index[k].blob.n <= seq
        BY <3>1 DEF IInv, IndexedBytesStored
      <3>4. seq \in Nat /\ f.n \in Nat
        BY <1>1 DEF TypeOK, Flight
      <3>5. /\ FlightBlob(l)' \notin deletes
            /\ \A k \in Keys : index[k] # None => index[k].blob # FlightBlob(l)'
            /\ \A c \in Clients : req[c].row # None => req[c].row.blob # FlightBlob(l)'
        BY <1>5, <2>2, <3>1, <3>2, <3>3, <3>4
      <3> QED
        BY <1>2, <1>4, <2>1, <2>2, <3>5 DEF WrittenIsPrivate
    <2>3. CASE f.pc = "put"
      BY <1>2, <1>4, <1>6, <2>1, <2>3 DEF IInv, WrittenIsPrivate
    <2>4. CASE f.pc \notin {"body", "put"}
      <3>1. ~Writes(l)'
        BY <1>2, <2>4 DEF Writes
      <3> QED
        BY <1>4, <2>1, <3>1 DEF WrittenIsPrivate
    <2> QED
      BY <2>2, <2>3, <2>4
  <1>14. RowsKnown'
    BY DEF IInv, RowsKnown, ReplyDescribesBytes
  <1>15. VersionsOrdered'
    <2>1. req[l].key \in Keys /\ Ver(req[l].key) \in Nat
      BY <1>1, RequestFields DEF TypeOK, Ver
    <2>2. \A k \in Keys : Ver(k)' = Ver(k)
      BY DEF Ver
    <2>3. Writes(l)' => f.pc \in {"body", "put"}
      BY <1>2 DEF Writes
    <2>4. f.pc \in {"body", "put"} =>
            /\ f.ver <= Ver(req[l].key)
            /\ index[req[l].key] # None => index[req[l].key].ver <= f.ver
      BY <2>1 DEF IInv, VersionsOrdered
    <2> QED
      BY <1>1, <1>2, <1>4, <2>2, <2>3, <2>4, RequestFields DEF IInv, VersionsOrdered
  <1> QED
    BY <1>8, <1>9, <1>10, <1>11, <1>12, <1>13, <1>14, <1>15 DEF IInv

\* Everybody who waits for a flight is woken up when it ends.
LEMMA Woken ==
    ASSUME IInv, NEW l \in Clients, flight[l] # None, NEW result, FlightEnds(l, result)
    PROVE  /\ flight'[l] = None
           /\ \A m \in Clients : m # l => flight'[m] = flight[m]
           /\ \A c \in Waiting(l) : req'[c] = result[c] /\ req[c].key = req[l].key
           /\ \A c \in Clients : c \notin Waiting(l) => req'[c] = req[c]
           /\ l \in Waiting(l)
           /\ \A m \in Clients : flight[m] # None /\ m # l =>
                /\ m \notin Waiting(l) /\ req[m].key # req[l].key
                /\ FlightBlob(m)' = FlightBlob(m) /\ Writes(m)' = Writes(m)
                /\ FlightBlob(m) # FlightBlob(l)
           /\ ~Writes(l)'
  <1>1. flight \in [Clients -> Flight \cup {None}]
    BY DEF IInv, TypeOK
  <1>2. flight'[l] = None /\ \A m \in Clients : m # l => flight'[m] = flight[m]
    BY <1>1 DEF FlightEnds
  <1>3. \A c \in Waiting(l) : req'[c] = result[c] /\ req[c].key = req[l].key
    BY DEF FlightEnds, Waiting, IInv, SingleFlight
  <1>4. \A c \in Clients : c \notin Waiting(l) => req'[c] = req[c]
    BY DEF FlightEnds
  <1>5. l \in Waiting(l)
    BY DEF Waiting, IInv, SingleFlight
  <1>6. \A m \in Clients : flight[m] # None /\ m # l =>
          m \notin Waiting(l) /\ req[m].key # req[l].key
    BY DEF Waiting, IInv, SingleFlight
  <1>7. \A m \in Clients : FlightBlob(m).key = req[m].key
    BY DEF FlightBlob
  <1>8. \A m \in Clients : flight[m] # None /\ m # l =>
                /\ FlightBlob(m)' = FlightBlob(m) /\ Writes(m)' = Writes(m)
                /\ FlightBlob(m) # FlightBlob(l)
    BY <1>2, <1>4, <1>6, <1>7 DEF FlightBlob, Writes
  <1> QED
    BY <1>2, <1>3, <1>4, <1>5, <1>6, <1>8 DEF Writes

\* The end of a flight keeps one flight per key and its participants.
LEMMA EndKeepsSingleFlight ==
    ASSUME IInv, NEW l \in Clients, flight[l] # None, NEW result, FlightEnds(l, result),
           \A c \in Waiting(l) : result[c].pc # "wait"
    PROVE  SingleFlight'
  <1>1. TypeOK
    BY DEF IInv
  <1>2. /\ flight'[l] = None
        /\ \A m \in Clients : m # l => flight'[m] = flight[m]
        /\ \A c \in Waiting(l) : req'[c] = result[c] /\ req[c].key = req[l].key
        /\ \A c \in Clients : c \notin Waiting(l) => req'[c] = req[c]
        /\ \A m \in Clients : flight[m] # None /\ m # l =>
             m \notin Waiting(l) /\ req[m].key # req[l].key
    BY Woken
  <1>3. \A m \in Clients : flight'[m] # None => m # l /\ flight[m] # None
    BY <1>2
  <1>4. \A m \in Clients : flight'[m] # None => req'[m].pc = "wait" /\ req'[m].lead = m
    BY <1>2, <1>3 DEF IInv, SingleFlight
  <1>5. ASSUME NEW c \in Clients, req'[c].pc = "wait"
        PROVE  flight'[req'[c].lead] # None /\ req'[req'[c].lead].key = req'[c].key
    <2>1. c \notin Waiting(l) /\ req'[c] = req[c]
      BY <1>2, <1>5
    <2>2. req[c].pc = "wait" /\ req[c].lead # l /\ req[c].lead \in Clients
      BY <1>1, <1>5, <2>1, RequestFields DEF Waiting
    <2>3. flight[req[c].lead] # None /\ req[req[c].lead].key = req[c].key
      BY <2>2 DEF IInv, SingleFlight
    <2> QED
      BY <1>2, <2>1, <2>2, <2>3
  <1>6. \A m, n \in Clients :
          flight'[m] # None /\ flight'[n] # None /\ req'[m].key = req'[n].key => m = n
    BY <1>2, <1>3 DEF IInv, SingleFlight
  <1> QED
    BY <1>4, <1>5, <1>6 DEF SingleFlight

\* A flight ends and the index row stays: what the leader had written, if
\* anything, is stored, scheduled for deletion, or neither.
LEMMA FlightEndsQuietly ==
    ASSUME IInv, NEW l \in Clients, flight[l] # None,
           NEW result \in [Clients -> Request], FlightEnds(l, result),
           \A c \in Waiting(l) :
              /\ result[c].pc \in {"flightErr", "reload"} /\ result[c].out # "missing"
              /\ result[c].key = req[c].key
              /\ result[c].row \in {None, req[c].row, index[req[c].key]},
           UNCHANGED <<clock, pub, index, seq, crashes>>,
           negative' \in [Keys -> Negative \cup {None}],
           \/ store' = store /\ deletes' = deletes
           \/ /\ Writes(l)
              /\ store' \in {store, store \cup {FlightBlob(l)}}
              /\ deletes' \in {deletes, deletes \cup {FlightBlob(l)}}
    PROVE  IInv'
  <1>1. TypeOK
    BY DEF IInv
  <1>2. /\ flight'[l] = None
        /\ \A m \in Clients : m # l => flight'[m] = flight[m]
        /\ \A c \in Waiting(l) : req'[c] = result[c] /\ req[c].key = req[l].key
        /\ \A c \in Clients : c \notin Waiting(l) => req'[c] = req[c]
        /\ l \in Waiting(l)
        /\ \A m \in Clients : flight[m] # None /\ m # l =>
             /\ m \notin Waiting(l) /\ req[m].key # req[l].key
             /\ FlightBlob(m)' = FlightBlob(m) /\ Writes(m)' = Writes(m)
             /\ FlightBlob(m) # FlightBlob(l)
        /\ ~Writes(l)'
    BY Woken
  <1>3. FlightBlob(l) \in Blob /\ FlightBlob(l).n = flight[l].n
    BY <1>1, FlightBlobType DEF FlightBlob
  <1>4. Waiting(l) \subseteq Clients
    BY DEF Waiting
  <1>5. \A m \in Clients : flight'[m] # None => m # l /\ flight[m] # None
    BY <1>2
  <1>6. TypeOK'
    <2>1. flight' \in [Clients -> Flight \cup {None}]
      BY <1>1 DEF TypeOK, FlightEnds
    <2>2. req' \in [Clients -> Request]
      BY <1>1 DEF TypeOK, FlightEnds
    <2> QED
      BY <1>1, <1>3, <2>1, <2>2 DEF TypeOK
  <1>7. IndexedBytesStored'
    BY DEF IInv, IndexedBytesStored, WrittenIsPrivate
  <1>8. SingleFlight'
    BY <1>4, EndKeepsSingleFlight
  <1>9. OldIsIndexed'
    BY <1>2, <1>5 DEF IInv, OldIsIndexed
  <1>10. NumbersUsed'
    <2>1. \A b \in (store \cup deletes)' : b.n <= seq
      BY <1>3 DEF IInv, NumbersUsed
    <2>2. \A c \in Clients : req'[c].row # None => req'[c].row.blob.n <= seq
      BY <1>1, <1>2, <1>4, RequestFields DEF IInv, NumbersUsed, IndexedBytesStored
    <2>3. \A m \in Clients : flight'[m] # None => flight'[m].n <= seq
      BY <1>2, <1>5 DEF IInv, NumbersUsed
    <2> QED
      BY <2>1, <2>2, <2>3 DEF NumbersUsed
  <1>11. WrittenIsPrivate'
    <2> SUFFICES ASSUME NEW m \in Clients, Writes(m)'
                 PROVE  /\ FlightBlob(m)' \notin deletes'
                        /\ flight'[m].pc = "put" => FlightBlob(m)' \in store'
                        /\ \A k \in Keys : index[k] # None => index[k].blob # FlightBlob(m)'
                        /\ \A c \in Clients : req'[c].row # None =>
                             req'[c].row.blob # FlightBlob(m)'
      BY DEF WrittenIsPrivate
    <2>1. m # l /\ flight[m] # None /\ Writes(m)
      BY <1>2 DEF Writes
    <2>2. FlightBlob(m)' = FlightBlob(m) /\ FlightBlob(m) # FlightBlob(l)
      BY <1>2, <2>1
    <2>3. /\ FlightBlob(m) \notin deletes
          /\ flight[m].pc = "put" => FlightBlob(m) \in store
          /\ \A k \in Keys : index[k] # None => index[k].blob # FlightBlob(m)
          /\ \A c \in Clients : req[c].row # None => req[c].row.blob # FlightBlob(m)
      BY <2>1 DEF IInv, WrittenIsPrivate
    <2> QED
      BY <1>1, <1>2, <1>4, <2>1, <2>2, <2>3, RequestFields
  <1>12. RowsKnown'
    <2>1. \A c \in Waiting(l) : req'[c].row # None =>
            /\ req'[c].row.blob.key = req'[c].key /\ req'[c].row.blob.ver = req'[c].row.ver
            /\ index[req'[c].key] # None
      BY <1>1, <1>2, <1>4, RequestFields DEF IInv, RowsKnown, ReplyDescribesBytes, IndexedBytesStored
    <2> QED
      BY <1>2, <1>4, <2>1 DEF IInv, RowsKnown, ReplyDescribesBytes
  <1>13. VersionsOrdered'
    <2>1. \A m \in Clients : Writes(m)' =>
            m # l /\ Writes(m) /\ flight'[m] = flight[m] /\ req'[m] = req[m]
      BY <1>2 DEF Writes
    <2> QED
      BY <2>1 DEF IInv, VersionsOrdered, Ver
  <1> QED
    BY <1>6, <1>7, <1>8, <1>9, <1>10, <1>11, <1>12, <1>13 DEF IInv

\* A flight ends by moving the index row of its key: to bytes that are
\* stored and not scheduled, and away from the old ones.
LEMMA FlightMovesIndex ==
    ASSUME IInv, NEW l \in Clients, flight[l] # None, NEW row \in Row,
           NEW out \in {"HIT", "MISS"}, FlightReturns(l, row, out),
           index' = [index EXCEPT ![req[l].key] = row],
           negative' = [negative EXCEPT ![req[l].key] = None],
           UNCHANGED <<clock, pub, store, seq, crashes>>,
           row.blob \in store, row.blob \notin deletes',
           row.blob.key = req[l].key, row.blob.ver = row.ver,
           row.ver <= Ver(req[l].key),
           deletes' \in {deletes, deletes \cup BytesOf(flight[l].old)}
    PROVE  IInv'
  <1> DEFINE k == req[l].key
  <1> DEFINE result == [c \in Clients |-> Go(c, "final", row, out)]
  <1>1. TypeOK /\ k \in Keys /\ Waiting(l) \subseteq Clients
    BY RequestFields DEF IInv, Waiting
  <1>2. FlightEnds(l, result)
    BY DEF FlightReturns
  <1>3. result \in [Clients -> Request]
    BY <1>1, GoType DEF ReqPcs, Outs
  <1>4. \A c \in Clients : /\ result[c].pc = "final" /\ result[c].row = row
                           /\ result[c].key = req[c].key /\ result[c].out = out
    BY DEF Go
  <1> HIDE DEF result
  <1>5. /\ flight'[l] = None
        /\ \A m \in Clients : m # l => flight'[m] = flight[m]
        /\ \A c \in Waiting(l) : req'[c] = result[c] /\ req[c].key = k
        /\ \A c \in Clients : c \notin Waiting(l) => req'[c] = req[c]
        /\ \A m \in Clients : flight[m] # None /\ m # l =>
             /\ m \notin Waiting(l) /\ req[m].key # k
             /\ FlightBlob(m)' = FlightBlob(m) /\ Writes(m)' = Writes(m)
             /\ FlightBlob(m) # FlightBlob(l)
        /\ ~Writes(l)'
    BY <1>2, Woken
  <1>6. \A m \in Clients : flight'[m] # None => m # l /\ flight[m] # None
    BY <1>5
  <1>7. index'[k] = row /\ \A j \in Keys : j # k => index'[j] = index[j]
    BY <1>1 DEF TypeOK
  <1>8. \A b \in BytesOf(flight[l].old) : b \in store /\ b.key = k
    BY <1>1 DEF BytesOf, IInv, OldIsIndexed, IndexedBytesStored
  <1>9. row # None
    BY NoneAssumption
  <1> HIDE DEF k
  <1>10. TypeOK'
    <2>1. flight' \in [Clients -> Flight \cup {None}] /\ req' \in [Clients -> Request]
      BY <1>1, <1>2, <1>3 DEF TypeOK, FlightEnds
    <2>2. deletes' \subseteq Blob
      BY <1>1, <1>8 DEF TypeOK
    <2>3. index' \in [Keys -> Row \cup {None}] /\ negative' \in [Keys -> Negative \cup {None}]
      BY <1>1 DEF TypeOK, k
    <2> QED
      BY <1>1, <2>1, <2>2, <2>3 DEF TypeOK
  <1>11. IndexedBytesStored'
    BY <1>7, <1>8 DEF IInv, IndexedBytesStored, k
  <1>12. SingleFlight'
    BY <1>1, <1>2, <1>4, EndKeepsSingleFlight
  <1>13. OldIsIndexed'
    BY <1>1, <1>5, <1>6, <1>7, RequestFields DEF IInv, OldIsIndexed
  <1>14. NumbersUsed'
    BY <1>1, <1>4, <1>5, <1>6, <1>8 DEF IInv, NumbersUsed
  <1>15. WrittenIsPrivate'
    <2> SUFFICES ASSUME NEW m \in Clients, Writes(m)'
                 PROVE  /\ FlightBlob(m)' \notin deletes'
                        /\ flight'[m].pc = "put" => FlightBlob(m)' \in store'
                        /\ \A j \in Keys : index'[j] # None => index'[j].blob # FlightBlob(m)'
                        /\ \A c \in Clients : req'[c].row # None =>
                             req'[c].row.blob # FlightBlob(m)'
      BY DEF WrittenIsPrivate
    <2>1. m # l /\ flight[m] # None /\ Writes(m)
      BY <1>5 DEF Writes
    <2>2. FlightBlob(m)' = FlightBlob(m) /\ FlightBlob(m).key # k
      BY <1>5, <2>1 DEF FlightBlob
    <2>3. /\ FlightBlob(m) \notin deletes
          /\ flight[m].pc = "put" => FlightBlob(m) \in store
          /\ \A j \in Keys : index[j] # None => index[j].blob # FlightBlob(m)
          /\ \A c \in Clients : req[c].row # None => req[c].row.blob # FlightBlob(m)
      BY <2>1 DEF IInv, WrittenIsPrivate
    <2> QED
      BY <1>1, <1>4, <1>5, <1>7, <1>8, <2>1, <2>2, <2>3 DEF k
  <1>16. RowsKnown'
    BY <1>1, <1>4, <1>5, <1>7, <1>9, RequestFields DEF IInv, RowsKnown, ReplyDescribesBytes, k
  <1>17. VersionsOrdered'
    <2>1. \A m \in Clients : Writes(m)' =>
            /\ m # l /\ Writes(m) /\ flight'[m] = flight[m] /\ req'[m] = req[m]
            /\ req[m].key # k
      BY <1>5 DEF Writes
    <2> QED
      BY <1>1, <1>7, <2>1, RequestFields DEF IInv, VersionsOrdered, Ver, k
  <1> QED
    BY <1>10, <1>11, <1>12, <1>13, <1>14, <1>15, <1>16, <1>17 DEF IInv

-----------------------------------------------------------------------------
(* Every action preserves the invariant *)

\* RequestMoves for the requests that move on by Go.
LEMMA RequestGoes ==
    ASSUME IInv, NEW c \in Clients, req[c].pc # "wait",
           NEW pc \in ReqPcs \ {"wait"}, NEW out \in Outs,
           NEW row \in {None, req[c].row, index[req[c].key]},
           pc \in {"hit", "final", "resolved"} \/ out = "missing" => row # None,
           out = "missing" => pc = "failed",
           req' = [req EXCEPT ![c] = Go(c, pc, row, out)],
           UNCHANGED <<clock, pub, index, store, seq, negative, flight, deletes, crashes>>
    PROVE  IInv'
  <1> DEFINE r == Go(c, pc, row, out)
  <1>1. TypeOK /\ req[c].row \in Row \cup {None} /\ index[req[c].key] \in Row \cup {None}
    BY RequestFields DEF IInv, TypeOK
  <1>2. r \in Request
    BY <1>1, GoType
  <1>3. r.pc = pc /\ r.row = row /\ r.out = out /\ r.key = req[c].key
    BY DEF Go
  <1> HIDE DEF r
  <1>4. req' = [req EXCEPT ![c] = r]
    BY DEF r
  <1>5. /\ r.pc # "wait"
        /\ \/ r.row = None
           \/ r.row = req[c].row /\ r.key = req[c].key
           \/ r.row = index[r.key]
        /\ r.pc \in {"hit", "final", "resolved"} \/ r.out = "missing" => r.row # None
        /\ r.out = "missing" => r.pc = "failed"
    BY <1>3
  <1> QED
    BY <1>2, <1>4, <1>5, RequestMoves

\* The steps of a request outside the flight preserve the invariant.
LEMMA RequestActions ==
    ASSUME IInv, NEW c \in Clients
    PROVE  /\ \A k \in Keys : FetchMeta(c, k) => IInv'
           /\ Hit(c) => IInv'
           /\ CheckNegative(c) => IInv'
           /\ AfterError(c) => IInv'
           /\ Reload(c) => IInv'
           /\ Final(c) => IInv'
           /\ OpenBody(c) => IInv'
           /\ Leave(c) => IInv'
  <1>1. TypeOK
    BY DEF IInv
  <1>2. /\ req[c].key \in Keys /\ req[c].row \in Row \cup {None} /\ req[c].out \in Outs
    BY <1>1, RequestFields
  <1>3. \A k \in Keys : IndexReads(k) \subseteq {None, index[k]}
    BY DEF IndexReads
  <1>4. \A k \in Keys : index[k] \in Row \cup {None}
    BY <1>1 DEF TypeOK
  <1>6. IdleReq(c) \in Request /\ IdleReq(c).row = None /\ IdleReq(c).pc = "idle" /\ IdleReq(c).out = ""
    BY IdleReqType DEF IdleReq
  <1>7. /\ req[c].pc \in {"hit", "final", "resolved"} \/ req[c].out = "missing" => req[c].row # None
        /\ req[c].out = "missing" => req[c].pc = "failed"
    BY DEF IInv, RowsKnown
  <1>8. ASSUME NEW k \in Keys, FetchMeta(c, k) PROVE IInv'
    <2>1. PICK row \in IndexReads(k) :
            req' = [req EXCEPT ![c] =
                      [pc  |-> IF Fresh(row) THEN "hit" ELSE "neg",
                       key |-> k, lead |-> c, row |-> row, out |-> ""]]
      BY <1>8 DEF FetchMeta
    <2> DEFINE r == [pc  |-> IF Fresh(row) THEN "hit" ELSE "neg",
                     key |-> k, lead |-> c, row |-> row, out |-> ""]
    <2>2. r \in Request /\ r.row \in {None, index[r.key]}
      BY <1>3, <1>4, <2>1 DEF Request, ReqPcs, Outs
    <2>3. /\ r.pc # "wait" /\ r.out # "missing"
          /\ (r.pc \in {"hit", "final", "resolved"} \/ r.out = "missing" => r.row # None)
      BY DEF Fresh
    <2> HIDE DEF r
    <2> QED
      BY <1>8, <2>1, <2>2, <2>3, RequestMoves DEF FetchMeta, r
  <1>9. ASSUME Hit(c) PROVE IInv'
    <2>1. \/ req' = [req EXCEPT ![c] = Go(c, "resolved", req[c].row, "HIT")]
          \/ req' = [req EXCEPT ![c] = Go(c, "neg", req[c].row, "")]
      BY <1>9 DEF Hit
    <2>2. req[c].row # None /\ req[c].pc # "wait"
      BY <1>7, <1>9 DEF Hit
    <2> QED
      BY <1>9, <2>1, <2>2, RequestGoes DEF Hit, ReqPcs, Outs
  <1>10. ASSUME CheckNegative(c) PROVE IInv'
    <2>1. NegativeActive(req[c].key) => negative[req[c].key].err \in {"nf", "up"}
      BY <1>1, <1>2 DEF NegativeActive, TypeOK, Negative
    <2>2. PICK pc \in {"join", "resolved", "failed"}, out \in {"", "STALE", "nf", "up"} :
            /\ req' = [req EXCEPT ![c] = Go(c, pc, req[c].row, out)]
            /\ pc = "resolved" => req[c].row # None
      BY <1>10, <2>1 DEF CheckNegative, StaleAllowed
    <2>3. pc \in ReqPcs \ {"wait"} /\ out \in Outs /\ out # "missing" /\ pc \notin {"hit", "final"}
      BY DEF ReqPcs, Outs
    <2> QED
      BY <1>10, <2>2, <2>3, RequestGoes DEF CheckNegative
  <1>11. ASSUME AfterError(c) PROVE IInv'
    <2>1. PICK pc \in {"resolved", "failed"}, out \in {"STALE", req[c].out} :
            /\ req' = [req EXCEPT ![c] = Go(c, pc, req[c].row, out)]
            /\ pc = "resolved" => req[c].row # None
      BY <1>11 DEF AfterError, StaleAllowed
    <2>2. pc \in ReqPcs \ {"wait"} /\ out \in Outs /\ pc \notin {"hit", "final"}
      BY <1>2 DEF ReqPcs, Outs
    <2> QED
      BY <1>7, <1>11, <2>1, <2>2, RequestGoes DEF AfterError
  <1>12. ASSUME Reload(c) PROVE IInv'
    <2>1. PICK row \in IndexReads(req[c].key) :
            req' = [req EXCEPT ![c] = IF row = None THEN Go(c, "failed", None, "other")
                                      ELSE Go(c, "final", row, "HIT")]
      BY <1>12 DEF Reload
    <2>2. row \in {None, index[req[c].key]}
      BY <1>2, <1>3
    <2>3. CASE row = None
      BY <1>12, <2>1, <2>3, RequestGoes DEF Reload, ReqPcs, Outs
    <2>4. CASE row # None
      BY <1>12, <2>1, <2>2, <2>4, RequestGoes DEF Reload, ReqPcs, Outs
    <2> QED
      BY <2>3, <2>4
  <1>13. ASSUME Final(c) PROVE IInv'
    <2>1. PICK pc \in {"resolved", "failed"}, out \in {"missing", req[c].out} :
            /\ req' = [req EXCEPT ![c] = Go(c, pc, req[c].row, out)]
            /\ out = "missing" => pc = "failed"
      BY <1>7, <1>13 DEF Final
    <2>2. pc \in ReqPcs \ {"wait"} /\ out \in Outs
      BY <1>2 DEF ReqPcs, Outs
    <2> QED
      BY <1>7, <1>13, <2>1, <2>2, RequestGoes DEF Final
  <1>14. ASSUME OpenBody(c) PROVE IInv'
    <2>1. CASE req' = [req EXCEPT ![c] = IdleReq(c)]
      BY <1>6, <1>14, <2>1, RequestMoves DEF OpenBody
    <2>2. CASE req' = [req EXCEPT ![c] = Go(c, "failed", req[c].row, "missing")]
      BY <1>7, <1>14, <2>2, RequestGoes DEF OpenBody, ReqPcs, Outs
    <2> QED
      BY <1>14, <2>1, <2>2 DEF OpenBody
  <1>15. ASSUME Leave(c) PROVE IInv'
    BY <1>6, <1>15, RequestMoves DEF Leave
  <1> QED
    BY <1>8, <1>9, <1>10, <1>11, <1>12, <1>13, <1>14, <1>15

\* A caller of flights.Do leads a new flight or waits for the one there is.
LEMMA JoinAction == ASSUME IInv, NEW c \in Clients, Join(c) PROVE IInv'
  <1>1. TypeOK /\ req[c].key \in Keys /\ req[c].row \in Row \cup {None}
    BY RequestFields DEF IInv
  <1>2. PICK l \in Clients :
          /\ req' = [req EXCEPT ![c] = [Go(c, "wait", req[c].row, "") EXCEPT !.lead = l]]
          /\ \/ /\ l = c /\ LeadersOf(req[c].key) = {}
                /\ flight' = [flight EXCEPT ![c] = Phase("recheck", None, 0, 0, clock)]
             \/ l \in LeadersOf(req[c].key) /\ flight' = flight
    BY Zenon DEF Join, LeadersOf
  <1>3. UNCHANGED <<clock, pub, index, store, seq, negative, deletes, crashes>> /\ req[c].pc = "join"
    BY DEF Join
  <1> DEFINE r == [Go(c, "wait", req[c].row, "") EXCEPT !.lead = l]
  <1>4. /\ r \in Request
        /\ r.pc = "wait" /\ r.lead = l /\ r.key = req[c].key
        /\ r.row = req[c].row /\ r.out = ""
    BY <1>1 DEF Go, Request, ReqPcs, Outs
  <1> HIDE DEF r
  <1>5. /\ req'[c].pc = "wait" /\ req'[c].lead = l /\ req'[c].key = req[c].key
        /\ req'[c].row = req[c].row /\ req'[c].out = ""
        /\ \A d \in Clients : d # c => req'[d] = req[d]
    BY <1>1, <1>2, <1>4 DEF TypeOK, r
  <1>6. flight[c] = None
    BY <1>3 DEF IInv, SingleFlight
  <1> DEFINE f == Phase("recheck", None, 0, 0, clock)
  <1>7. f \in Flight /\ f # None /\ f.pc = "recheck" /\ f.old = None /\ f.n = 0
    BY <1>1, NoneAssumption DEF Phase, Flight, FlightPcs, TypeOK
  <1> HIDE DEF f
  <1>8. /\ \A m \in Clients : m # c => flight'[m] = flight[m]
        /\ \/ flight'[c] = None /\ flight[l] # None /\ req[l].key = req[c].key /\ l # c
           \/ /\ flight'[c] # None /\ flight'[c].pc = "recheck"
              /\ flight'[c].old = None /\ flight'[c].n = 0
              /\ l = c /\ LeadersOf(req[c].key) = {}
    BY <1>1, <1>2, <1>6, <1>7 DEF TypeOK, f, LeadersOf
  <1>9. \A m \in Clients : flight[m] # None =>
          /\ m # c /\ flight'[m] = flight[m] /\ req'[m] = req[m]
          /\ FlightBlob(m)' = FlightBlob(m) /\ Writes(m)' = Writes(m)
    BY <1>5, <1>6, <1>8 DEF FlightBlob, Writes
  <1>10. \A m \in Clients : Writes(m)' => flight[m] # None
    BY <1>8 DEF Writes
  <1>11. \A d \in Clients : /\ req'[d].row = req[d].row /\ req'[d].key = req[d].key
                            /\ req'[d].pc \in {"wait", req[d].pc}
                            /\ req'[d].out \in {"", req[d].out}
                            /\ req'[d].out = "missing" => req'[d].pc = req[d].pc
    BY <1>5
  <1>12. IndexedBytesStored'
    BY <1>3 DEF IInv, IndexedBytesStored
  <1>13. SingleFlight'
    <2>1. ASSUME NEW m \in Clients, flight'[m] # None
          PROVE  req'[m].pc = "wait" /\ req'[m].lead = m
      <3>1. CASE m = c
        BY <1>5, <1>8, <2>1, <3>1
      <3>2. CASE m # c
        BY <1>8, <1>9, <2>1, <3>2 DEF IInv, SingleFlight
      <3> QED
        BY <3>1, <3>2
    <2>2. ASSUME NEW d \in Clients, req'[d].pc = "wait"
          PROVE  flight'[req'[d].lead] # None /\ req'[req'[d].lead].key = req'[d].key
      <3>1. CASE d = c
        BY <1>5, <1>8, <1>11, <3>1
      <3>2. CASE d # c
        <4>1. req'[d] = req[d] /\ req[d].lead \in Clients
          BY <1>1, <1>5, <3>2, RequestFields
        <4>2. flight[req[d].lead] # None /\ req[req[d].lead].key = req[d].key
          BY <2>2, <4>1 DEF IInv, SingleFlight
        <4> QED
          BY <1>9, <4>1, <4>2
      <3> QED
        BY <3>1, <3>2
    <2>3. ASSUME NEW m \in Clients, NEW n \in Clients,
                 flight'[m] # None, flight'[n] # None, req'[m].key = req'[n].key
          PROVE  m = n
      <3>1. req[m].key = req[n].key
        BY <1>11, <2>3
      <3>2. flight'[c] # None => \A j \in Clients : flight[j] # None => req[j].key # req[c].key
        BY <1>8 DEF LeadersOf
      <3>3. (m # c => flight[m] # None) /\ (n # c => flight[n] # None)
        BY <1>8, <2>3
      <3>4. flight[m] # None /\ flight[n] # None => m = n
        BY <3>1 DEF IInv, SingleFlight
      <3> QED
        BY <2>3, <3>1, <3>2, <3>3, <3>4
    <2> QED
      BY <2>1, <2>2, <2>3 DEF SingleFlight
  <1>14. OldIsIndexed'
    BY <1>3, <1>8, <1>9 DEF IInv, OldIsIndexed
  <1>15. NumbersUsed'
    <2>1. \A m \in Clients : flight'[m] # None => flight'[m].n <= seq
      BY <1>1, <1>8 DEF IInv, NumbersUsed, TypeOK
    <2> QED
      BY <1>3, <1>11, <2>1 DEF IInv, NumbersUsed
  <1>16. WrittenIsPrivate'
    <2> SUFFICES ASSUME NEW m \in Clients, Writes(m)'
                 PROVE  /\ FlightBlob(m)' \notin deletes
                        /\ flight'[m].pc = "put" => FlightBlob(m)' \in store
                        /\ \A k \in Keys : index[k] # None => index[k].blob # FlightBlob(m)'
                        /\ \A d \in Clients : req'[d].row # None =>
                             req'[d].row.blob # FlightBlob(m)'
      BY <1>3 DEF WrittenIsPrivate
    <2>1. FlightBlob(m)' = FlightBlob(m) /\ Writes(m) /\ flight'[m] = flight[m]
      BY <1>9, <1>10
    <2> QED
      BY <1>11, <2>1 DEF IInv, WrittenIsPrivate
  <1>17. RowsKnown'
    <2>0. ReplyDescribesBytes /\ \A d \in Clients : req[d].row # None => index[req[d].key] # None
      BY DEF IInv, RowsKnown
    <2>1. ReplyDescribesBytes' /\ \A d \in Clients : req'[d].row # None => index'[req'[d].key] # None
      BY ONLY <1>3, <1>11, <2>0 DEF ReplyDescribesBytes
    <2>2. \A d \in Clients : req'[d].pc \in {"hit", "final", "resolved"} \/ req'[d].out = "missing"
                              => req'[d].row # None
      BY <1>11 DEF IInv, RowsKnown
    <2>3. \A d \in Clients : req'[d].out = "missing" => req'[d].pc = "failed"
      BY <1>11 DEF IInv, RowsKnown
    <2> QED
      BY <2>1, <2>2, <2>3 DEF RowsKnown
  <1>18. VersionsOrdered'
    BY <1>3, <1>9, <1>10 DEF IInv, VersionsOrdered, Ver
  <1>19. TypeOK'
    <2>1. req' \in [Clients -> Request]
      BY <1>1, <1>2, <1>4 DEF TypeOK, r
    <2>2. flight' \in [Clients -> Flight \cup {None}]
      BY <1>1, <1>2, <1>7 DEF TypeOK, f
    <2> QED
      BY <1>1, <1>3, <2>1, <2>2 DEF TypeOK
  <1> QED
    BY <1>12, <1>13, <1>14, <1>15, <1>16, <1>17, <1>18, <1>19 DEF IInv

\* A flight that fails or is cut short by a fresh row wakes its participants.
LEMMA FailedFlight ==
    ASSUME IInv, NEW l \in Clients, flight[l] # None,
           NEW e \in {"nf", "up", "other"}, FlightFails(l, e),
           UNCHANGED <<clock, pub, index, seq, crashes>>,
           negative' \in [Keys -> Negative \cup {None}],
           \/ store' = store /\ deletes' = deletes
           \/ /\ Writes(l)
              /\ store' \in {store, store \cup {FlightBlob(l)}}
              /\ deletes' \in {deletes, deletes \cup {FlightBlob(l)}}
    PROVE  IInv'
  <1>1. TypeOK
    BY DEF IInv
  <1> DEFINE rowOf(c) == IF c = l THEN flight[l].old ELSE req[c].row
  <1>2. \A c \in Clients : rowOf(c) \in Row \cup {None}
    BY <1>1, FlightFields, RequestFields
  <1>3. \A c \in Clients : rowOf(c) \in {None, req[c].row, index[req[c].key]}
    BY DEF IInv, OldIsIndexed
  <1>4. PICK result \in [Clients -> Request] :
          /\ FlightEnds(l, result)
          /\ \A c \in Clients : result[c] = Go(c, "flightErr", rowOf(c), e)
    <2> DEFINE res == [c \in Clients |-> Go(c, "flightErr", rowOf(c), e)]
    <2>1. res \in [Clients -> Request]
      BY <1>1, <1>2, GoType DEF ReqPcs, Outs
    <2>2. FlightEnds(l, res)
      BY DEF FlightFails
    <2> QED
      BY <2>1, <2>2
  <1>5. \A c \in Waiting(l) :
              /\ result[c].pc \in {"flightErr", "reload"} /\ result[c].out # "missing"
              /\ result[c].key = req[c].key
              /\ result[c].row \in {None, req[c].row, index[req[c].key]}
    BY <1>3, <1>4 DEF Waiting, Go
  <1> QED
    BY <1>4, <1>5, FlightEndsQuietly

\* FlightMoves for the phases of fetchOnce.
LEMMA FlightGoes ==
    ASSUME IInv, NEW l \in Clients, flight[l] # None,
           NEW pc \in FlightPcs, NEW old \in {None, index[req[l].key]},
           NEW ver \in Nat, NEW n \in Nat, NEW at \in Nat,
           flight' = [flight EXCEPT ![l] = Phase(pc, old, ver, n, at)],
           UNCHANGED <<clock, pub, index, negative, req, deletes, crashes>>,
           seq' \in Nat, seq <= seq', n <= seq', pc = "extend" => old # None,
           \/ pc \notin {"body", "put"} /\ store' = store
           \/ pc = "body" /\ n > seq /\ ver = Ver(req[l].key) /\ store' = store
           \/ /\ pc = "put" /\ Writes(l)
              /\ n = flight[l].n /\ ver = flight[l].ver /\ at = flight[l].at
              /\ store' = store \cup {FlightBlob(l)}
    PROVE  IInv'
  <1>1. old \in Row \cup {None}
    BY RequestFields DEF IInv, TypeOK
  <1>2. PICK f \in Flight : f = Phase(pc, old, ver, n, at)
    BY <1>1 DEF Phase, Flight
  <1>3. f.pc = pc /\ f.old = old /\ f.ver = ver /\ f.n = n /\ f.at = at
    BY <1>2 DEF Phase
  <1>4. flight' = [flight EXCEPT ![l] = f]
    BY <1>2
  <1>5. /\ f.old \in {None, index[req[l].key]} /\ (f.pc = "extend" => f.old # None)
        /\ f.n <= seq'
        /\ \/ f.pc \notin {"body", "put"} /\ store' = store
           \/ f.pc = "body" /\ f.n > seq /\ f.ver = Ver(req[l].key) /\ store' = store
           \/ /\ f.pc = "put" /\ Writes(l)
              /\ f.n = flight[l].n /\ f.ver = flight[l].ver /\ f.at = flight[l].at
              /\ store' = store \cup {FlightBlob(l)}
    BY <1>3
  <1> QED
    BY <1>4, <1>5, FlightMoves

\* The steps of a flight preserve the invariant.
LEMMA FlightActions ==
    ASSUME IInv, NEW l \in Clients, FlightStep(l)
    PROVE  IInv'
  <1>1. TypeOK /\ flight[l] # None
    BY DEF IInv, FlightStep, Recheck, Ask304, Ask200, AskFails, Extend, Commit,
           CommitFails, PutMeta, PutMetaFails
  <1>2. /\ flight[l] \in Flight /\ flight[l].old \in Row \cup {None} /\ flight[l].ver \in Nat
        /\ flight[l].n \in Nat /\ flight[l].at \in Nat
        /\ flight[l].old \in {None, index[req[l].key]} /\ flight[l].n <= seq
        /\ flight[l].pc = "extend" => flight[l].old # None
    BY <1>1, FlightFields DEF IInv, OldIsIndexed, NumbersUsed
  <1>3. req[l].key \in Keys /\ seq \in Nat /\ clock \in Nat
    BY <1>1, RequestFields DEF TypeOK
  <1>4. negative \in [Keys -> Negative \cup {None}]
    BY <1>1 DEF TypeOK
  <1>5. CASE Recheck(l)
    <2>1. PICK row \in IndexReads(req[l].key) :
            \/ FlightEnds(l, [c \in Clients |-> Go(c, "reload", req[c].row, "")])
            \/ /\ flight' = [flight EXCEPT ![l] = Phase("ask", row, 0, 0, flight[l].at)]
               /\ UNCHANGED req
      BY <1>1, <1>5 DEF Recheck, TypeOK
    <2>2. row \in {None, index[req[l].key]} /\ row \in Row \cup {None}
      BY <1>1, <1>3 DEF IndexReads, TypeOK
    <2>3. CASE FlightEnds(l, [c \in Clients |-> Go(c, "reload", req[c].row, "")])
      <3> DEFINE result == [c \in Clients |-> Go(c, "reload", req[c].row, "")]
      <3>1. result \in [Clients -> Request]
        BY <1>1, GoType, RequestFields DEF ReqPcs, Outs
      <3>2. \A c \in Waiting(l) :
              /\ result[c].pc \in {"flightErr", "reload"} /\ result[c].out # "missing"
              /\ result[c].key = req[c].key
              /\ result[c].row \in {None, req[c].row, index[req[c].key]}
        BY DEF Waiting, Go
      <3>3. FlightEnds(l, result)
        BY <2>3
      <3> HIDE DEF result
      <3> QED
        BY <1>1, <1>4, <1>5, <3>1, <3>2, <3>3, FlightEndsQuietly DEF Recheck
    <2>4. CASE /\ flight' = [flight EXCEPT ![l] = Phase("ask", row, 0, 0, flight[l].at)]
               /\ UNCHANGED req
      <3>0. UNCHANGED <<clock, pub, index, store, seq, negative, deletes, crashes>>
        BY <1>5 DEF Recheck
      <3>1. /\ UNCHANGED <<clock, pub, index, negative, req, deletes, crashes>>
            /\ store' = store /\ "ask" \in FlightPcs /\ 0 \in Nat
            /\ seq' \in Nat /\ seq <= seq' /\ 0 <= seq'
        BY <1>3, <2>4, <3>0 DEF FlightPcs
      <3>2. flight' = [flight EXCEPT ![l] = Phase("ask", row, 0, 0, flight[l].at)]
        BY <2>4
      <3>3. row \in {None, index[req[l].key]} /\ flight[l].at \in Nat /\ flight[l] # None
        BY <1>1, <1>2, <2>2
      <3> QED
        BY <3>1, <3>2, <3>3, FlightGoes
    <2> QED
      BY <2>1, <2>3, <2>4
  <1>6. CASE Ask304(l)
    <2>1. /\ flight' = [flight EXCEPT ![l] = Phase("extend", flight[l].old, 0, 0, clock)]
          /\ UNCHANGED <<clock, pub, index, negative, req, deletes, crashes>>
          /\ store' = store /\ flight[l].old # None /\ "extend" \in FlightPcs
          /\ seq' \in Nat /\ seq <= seq' /\ 0 <= seq' /\ 0 \in Nat
      BY <1>1, <1>3, <1>6 DEF Ask304, NotModified, FlightPcs, TypeOK
    <2> QED
      BY <1>1, <1>2, <1>3, <2>1, FlightGoes
  <1>7. CASE Ask200(l)
    <2>1. Ver(req[l].key) \in Nat
      BY <1>1, <1>3 DEF TypeOK, Ver
    <2>2. flight' = [flight EXCEPT ![l] =
                       Phase("body", flight[l].old, Ver(req[l].key), seq + 1, clock)]
      BY <1>1, <1>7 DEF Ask200, TypeOK
    <2> QED
      <3>1. /\ UNCHANGED <<clock, pub, index, negative, req, deletes, crashes>>
            /\ store' = store /\ "body" \in FlightPcs
            /\ seq' \in Nat /\ seq <= seq' /\ seq + 1 \in Nat /\ seq + 1 <= seq' /\ seq + 1 > seq
        BY <1>3, <1>7 DEF Ask200, FlightPcs
      <3> QED
        <4>1. flight[l] # None /\ flight[l].old \in {None, index[req[l].key]} /\ clock \in Nat
          BY <1>1, <1>2, <1>3
        <4> QED BY <2>1, <2>2, <3>1, <4>1, FlightGoes
  <1>8. CASE AskFails(l)
    <2>1. negative' \in [Keys -> Negative \cup {None}]
      BY <1>1, <1>3, <1>4, <1>8, RememberNegativeType, CacheAssumption DEF AskFails
    <2> QED
      BY <1>1, <1>8, <2>1, FailedFlight DEF AskFails
  <1>9. CASE Extend(l)
    <2>1. CASE FlightFails(l, "other") /\ UNCHANGED <<index, negative>>
      BY <1>1, <1>4, <1>9, <2>1, FailedFlight DEF Extend
    <2>2. CASE /\ index' = [index EXCEPT ![req[l].key] = ExtendedRow(l)]
               /\ negative' = [negative EXCEPT ![req[l].key] = None]
               /\ FlightReturns(l, ExtendedRow(l), "HIT")
      <3>1. flight[l].old \in Row /\ flight[l].old = index[req[l].key]
        BY <1>2, <1>9 DEF Extend
      <3>2. PICK row \in Row : row = ExtendedRow(l)
        <4>1. clock + TTL \in Nat
          BY <1>3, CacheAssumption
        <4>2. ExtendedRow(l) \in Row
          BY <3>1, <4>1 DEF ExtendedRow, Row
        <4> QED
          BY <4>2
      <3>3. row.blob = index[req[l].key].blob /\ row.ver = index[req[l].key].ver
        BY <3>1, <3>2 DEF ExtendedRow
      <3>4. index[req[l].key] # None
        BY <3>1, NoneAssumption
      <3>5. row.blob \in store \ deletes /\ row.blob.key = req[l].key /\ row.blob.ver = row.ver
        BY <1>3, <3>3, <3>4 DEF IInv, IndexedBytesStored
      <3>6. row.ver <= Ver(req[l].key)
        BY <1>3, <3>3, <3>4 DEF IInv, VersionsOrdered
      <3> QED
        BY <1>1, <1>9, <2>2, <3>2, <3>5, <3>6, FlightMovesIndex DEF Extend
    <2> QED
      BY <1>9, <2>1, <2>2 DEF Extend
  <1>10. CASE Commit(l)
    <2>1. flight' = [flight EXCEPT ![l] = Phase("put", flight[l].old, flight[l].ver,
                                                flight[l].n, flight[l].at)]
      BY <1>1, <1>10 DEF Commit, TypeOK
    <2> QED
      <3>1. /\ UNCHANGED <<clock, pub, index, negative, req, deletes, crashes>>
            /\ store' = store \cup {FlightBlob(l)} /\ "put" \in FlightPcs /\ Writes(l)
            /\ seq' \in Nat /\ seq <= seq' /\ flight[l].n <= seq'
        BY <1>2, <1>3, <1>10 DEF Commit, FlightPcs, Writes
      <3> QED
        BY <1>1, <1>2, <2>1, <3>1, FlightGoes
  <1>11. CASE CommitFails(l)
    <2>1. negative' \in [Keys -> Negative \cup {None}]
      BY <1>1, <1>3, <1>4, <1>11, RememberNegativeType, CacheAssumption DEF CommitFails
    <2>2. Writes(l)
      BY <1>11 DEF CommitFails, Writes
    <2> QED
      BY <1>1, <1>11, <2>1, <2>2, FailedFlight DEF CommitFails
  <1>12. CASE PutMeta(l)
    <2>1. Writes(l) /\ flight[l].pc = "put"
      BY <1>12 DEF PutMeta, Writes
    <2>2. FlightBlob(l) \in store \ deletes /\ FlightBlob(l).key = req[l].key
          /\ FlightBlob(l).ver = flight[l].ver /\ FlightBlob(l) \in Blob
      BY <1>1, <2>1, FlightBlobType DEF IInv, WrittenIsPrivate, FlightBlob
    <2>3. FlightBlob(l) \notin BytesOf(flight[l].old)
      BY <1>2, <1>3, <2>1 DEF BytesOf, IInv, WrittenIsPrivate
    <2>4. flight[l].ver <= Ver(req[l].key)
      BY <2>1 DEF IInv, VersionsOrdered
    <2>5. PICK row \in Row : row = NewRow(l)
      <3>1. clock + TTL \in Nat
        BY <1>3, CacheAssumption
      <3>2. NewRow(l) \in Row
        BY <1>2, <2>2, <3>1 DEF NewRow, Row
      <3> QED
        BY <3>2
    <2>6. row.blob = FlightBlob(l) /\ row.ver = flight[l].ver
      BY <2>5 DEF NewRow
    <2>7. /\ row.blob \in store /\ row.blob \notin deletes'
          /\ row.blob.key = req[l].key /\ row.blob.ver = row.ver /\ row.ver <= Ver(req[l].key)
      BY <1>12, <2>2, <2>3, <2>4, <2>6 DEF PutMeta
    <2> QED
      BY <1>1, <1>12, <2>5, <2>7, FlightMovesIndex DEF PutMeta
  <1>13. CASE PutMetaFails(l)
    <2>1. Writes(l)
      BY <1>13 DEF PutMetaFails, Writes
    <2> QED
      BY <1>1, <1>4, <1>13, <2>1, FailedFlight DEF PutMetaFails, Unindexed
  <1> QED
    BY <1>5, <1>6, <1>7, <1>8, <1>9, <1>10, <1>11, <1>12, <1>13 DEF FlightStep

\* Background deletion, upstream, time and restarts preserve the invariant.
LEMMA OtherActions ==
    ASSUME IInv
    PROVE  /\ \A b \in deletes : DeleteOnce(b) => IInv'
           /\ \A k \in Keys : Publish(k) => IInv'
           /\ Tick => IInv'
           /\ Crash => IInv'
           /\ UNCHANGED vars => IInv'
  <1>1. TypeOK
    BY DEF IInv
  <1>2. ASSUME NEW b \in deletes, DeleteOnce(b) PROVE IInv'
    <2>1. UNCHANGED <<clock, pub, index, seq, negative, flight, req, crashes>>
          /\ deletes' \subseteq deletes /\ store' \subseteq store /\ store \ {b} \subseteq store'
      BY <1>2 DEF DeleteOnce
    <2>2. \A l \in Clients : FlightBlob(l)' = FlightBlob(l) /\ Writes(l)' = Writes(l)
      BY <2>1 DEF FlightBlob, Writes
    <2>3. TypeOK'
      BY <1>1, <2>1 DEF TypeOK
    <2>4. IndexedBytesStored'
      BY <2>1 DEF IInv, IndexedBytesStored
    <2>5. SingleFlight' /\ OldIsIndexed'
      BY <2>1 DEF IInv, SingleFlight, OldIsIndexed
    <2>6. NumbersUsed' /\ RowsKnown'
      BY <2>1 DEF IInv, NumbersUsed, RowsKnown, ReplyDescribesBytes
    <2>7. WrittenIsPrivate'
      BY <2>1, <2>2 DEF IInv, WrittenIsPrivate
    <2>8. VersionsOrdered'
      BY <2>1, <2>2 DEF IInv, VersionsOrdered, Ver
    <2> QED
      BY <2>3, <2>4, <2>5, <2>6, <2>7, <2>8 DEF IInv
  <1>3. ASSUME NEW k \in Keys, Publish(k) PROVE IInv'
    <2>1. UNCHANGED <<clock, index, store, seq, negative, flight, req, deletes, crashes>>
          /\ pub' = [pub EXCEPT ![k] = Append(@, clock)]
      BY <1>3 DEF Publish
    <2>2. \A j \in Keys : Ver(j) \in Nat /\ Ver(j)' \in Nat /\ Ver(j) <= Ver(j)'
      BY <1>1, <2>1 DEF TypeOK, Ver
    <2>3. \A l \in Clients : FlightBlob(l)' = FlightBlob(l) /\ Writes(l)' = Writes(l)
      BY <2>1 DEF FlightBlob, Writes
    <2>4. TypeOK'
      BY <1>1, <2>1 DEF TypeOK
    <2>5. IndexedBytesStored' /\ SingleFlight' /\ OldIsIndexed'
      BY <2>1 DEF IInv, IndexedBytesStored, SingleFlight, OldIsIndexed
    <2>6. NumbersUsed' /\ RowsKnown'
      BY <2>1 DEF IInv, NumbersUsed, RowsKnown, ReplyDescribesBytes
    <2>7. WrittenIsPrivate'
      BY <2>1, <2>3 DEF IInv, WrittenIsPrivate
    <2>8. VersionsOrdered'
      <3>1. \A j \in Keys : index[j] # None => index[j].ver \in Nat
        BY <1>1 DEF TypeOK, Row
      <3>2. \A l \in Clients : Writes(l) => flight[l].ver \in Nat /\ req[l].key \in Keys
        BY <1>1, FlightFields, RequestFields DEF Writes
      <3> QED
        BY <2>1, <2>2, <2>3, <3>1, <3>2 DEF IInv, VersionsOrdered
    <2> QED
      BY <2>4, <2>5, <2>6, <2>7, <2>8 DEF IInv
  <1>4. ASSUME Tick \/ UNCHANGED vars PROVE IInv'
    <2>1. UNCHANGED <<pub, index, store, seq, negative, flight, req, deletes, crashes>>
          /\ clock' \in Nat
      BY <1>1, <1>4 DEF Tick, vars, TypeOK
    <2>2. \A l \in Clients : FlightBlob(l)' = FlightBlob(l) /\ Writes(l)' = Writes(l)
      BY <2>1 DEF FlightBlob, Writes
    <2>3. TypeOK'
      BY <1>1, <2>1 DEF TypeOK
    <2>4. IndexedBytesStored' /\ SingleFlight' /\ OldIsIndexed'
      BY <2>1 DEF IInv, IndexedBytesStored, SingleFlight, OldIsIndexed
    <2>5. NumbersUsed' /\ RowsKnown'
      BY <2>1 DEF IInv, NumbersUsed, RowsKnown, ReplyDescribesBytes
    <2>6. WrittenIsPrivate'
      BY <2>1, <2>2 DEF IInv, WrittenIsPrivate
    <2>7. VersionsOrdered'
      BY <2>1, <2>2 DEF IInv, VersionsOrdered, Ver
    <2> QED
      BY <2>3, <2>4, <2>5, <2>6, <2>7 DEF IInv
  <1>5. ASSUME Crash PROVE IInv'
    <2>1. /\ UNCHANGED <<clock, pub, index, store, seq>> /\ deletes' = {}
          /\ crashes' \in Nat /\ negative' \in [Keys -> Negative \cup {None}]
      BY <1>1, <1>5 DEF Crash, TypeOK
    <2>2. \A c \in Clients : flight'[c] = None
      BY <1>5 DEF Crash
    <2>3. \A c \in Clients : req'[c].row = None /\ req'[c].pc = "idle" /\ req'[c].out = ""
      BY <1>5 DEF Crash, IdleReq
    <2>4. TypeOK'
      <3>1. flight' \in [Clients -> Flight \cup {None}]
        BY <1>5 DEF Crash
      <3>2. req' \in [Clients -> Request]
        BY <1>5, IdleReqType DEF Crash
      <3> QED
        BY <1>1, <2>1, <3>1, <3>2 DEF TypeOK
    <2>5. IndexedBytesStored'
      BY <2>1 DEF IInv, IndexedBytesStored
    <2>6. SingleFlight' /\ OldIsIndexed' /\ WrittenIsPrivate'
      BY <2>2, <2>3 DEF SingleFlight, OldIsIndexed, WrittenIsPrivate, Writes
    <2>7. NumbersUsed' /\ RowsKnown'
      BY <2>1, <2>2, <2>3 DEF IInv, NumbersUsed, RowsKnown, ReplyDescribesBytes
    <2>8. VersionsOrdered'
      BY <2>1, <2>2 DEF IInv, VersionsOrdered, Ver, Writes
    <2> QED
      BY <2>4, <2>5, <2>6, <2>7, <2>8 DEF IInv
  <1> QED
    BY <1>2, <1>3, <1>4, <1>5

-----------------------------------------------------------------------------
(* Theorems *)

\* The invariant holds of an engine that has just been created.
LEMMA InitInv == Init => IInv
  <1> SUFFICES ASSUME Init PROVE IInv
    OBVIOUS
  <1>1. TypeOK
    BY IdleReqType DEF Init, TypeOK
  <1>2. /\ \A c \in Clients : flight[c] = None /\ req[c].row = None
                              /\ req[c].pc = "idle" /\ req[c].out = ""
        /\ \A k \in Keys : index[k] = None
        /\ store = {} /\ deletes = {}
    BY DEF Init, IdleReq
  <1> QED
    BY <1>1, <1>2 DEF IInv, IndexedBytesStored, SingleFlight, OldIsIndexed, NumbersUsed,
                      WrittenIsPrivate, RowsKnown, ReplyDescribesBytes, VersionsOrdered, Writes

\* Every step of the engine and of its environment preserves the invariant.
LEMMA StepInv == IInv /\ [Next]_vars => IInv'
  <1> SUFFICES ASSUME IInv, [Next]_vars PROVE IInv'
    OBVIOUS
  <1>1. ASSUME NEW c \in Clients, RequestStep(c) PROVE IInv'
    BY <1>1, RequestActions, JoinAction DEF RequestStep
  <1>2. ASSUME NEW c \in Clients, FlightStep(c) PROVE IInv'
    BY <1>2, FlightActions
  <1>3. ASSUME NEW c \in Clients, NEW k \in Keys, FetchMeta(c, k) PROVE IInv'
    BY <1>3, RequestActions
  <1>4. ASSUME \/ \E k \in Keys : Publish(k)
               \/ \E b \in deletes : DeleteOnce(b)
               \/ Tick \/ Crash \/ UNCHANGED vars
        PROVE IInv'
    BY <1>4, OtherActions
  <1> QED
    BY <1>1, <1>2, <1>3, <1>4 DEF Next

\* The inductive invariant holds in every reachable state.
THEOREM Invariance == Spec => []IInv
  BY InitInv, StepInv, PTL DEF Spec

\* Every variable keeps its type.
THEOREM TypeCorrect == Spec => []TypeOK
  <1>1. IInv => TypeOK
    BY DEF IInv
  <1> QED
    BY Invariance, <1>1, PTL

\* Whatever fails, however requests interleave and wherever the process
\* dies, a row of the object index names stored bytes of its own version.
THEOREM IndexNeverDangles == Spec => []IndexedBytesStored
  <1>1. IInv => IndexedBytesStored
    BY DEF IInv
  <1> QED
    BY Invariance, <1>1, PTL

\* No request pairs the validators of one version with bytes of another.
THEOREM RepliesConsistent == Spec => []ReplyDescribesBytes
  <1>1. IInv => ReplyDescribesBytes
    BY DEF IInv, RowsKnown
  <1> QED
    BY Invariance, <1>1, PTL

\* What a step does to the index: nothing, or the end of a flight moves the
\* row of its key to the same version or to the one the leader has committed.
LEMMA IndexSteps ==
    ASSUME IInv, [Next]_vars, index' # index
    PROVE  \E l \in Clients :
             /\ flight[l] # None
             /\ \E row \in Row, out \in {"HIT", "MISS"} :
                  /\ index' = [index EXCEPT ![req[l].key] = row]
                  /\ FlightReturns(l, row, out)
                  /\ row.exp = clock + TTL /\ clock' = clock /\ pub' = pub /\ store' = store
                  /\ \/ /\ index[req[l].key] # None
                        /\ row.blob = index[req[l].key].blob
                        /\ row.ver = index[req[l].key].ver
                        /\ flight[l].pc = "extend" /\ flight[l].old = index[req[l].key]
                        /\ deletes' = deletes
                     \/ /\ Writes(l) /\ row.blob = FlightBlob(l) /\ row.ver = flight[l].ver
                        /\ flight[l].pc = "put"
                        /\ deletes' = deletes \cup BytesOf(flight[l].old)
  <1>1. TypeOK /\ clock \in Nat /\ clock + TTL \in Nat
    BY CacheAssumption DEF IInv, TypeOK
  <1>2. PICK l \in Clients : Extend(l) \/ PutMeta(l)
    BY DEF Next, vars, RequestStep, FlightStep, FetchMeta, Hit, CheckNegative, Join,
           AfterError, Reload, Final, OpenBody, Leave, Recheck, Ask304, Ask200, AskFails,
           Commit, CommitFails, PutMetaFails, Publish, DeleteOnce, Tick, Crash
  <1>3. flight[l] # None /\ req[l].key \in Keys
    BY <1>1, <1>2, RequestFields DEF Extend, PutMeta
  <1>4. CASE Extend(l)
    <2>1. flight[l].old = index[req[l].key] /\ flight[l].old # None /\ flight[l].old \in Row
      BY <1>1, <1>3, <1>4, FlightFields DEF Extend, IInv, OldIsIndexed
    <2>2. ExtendedRow(l) \in Row
      BY <1>1, <2>1 DEF ExtendedRow, Row
    <2>3. ExtendedRow(l).blob = index[req[l].key].blob /\ ExtendedRow(l).ver = index[req[l].key].ver
      BY <2>1 DEF ExtendedRow
    <2>4. /\ index' = [index EXCEPT ![req[l].key] = ExtendedRow(l)]
          /\ FlightReturns(l, ExtendedRow(l), "HIT")
          /\ flight[l].pc = "extend" /\ clock' = clock /\ pub' = pub /\ store' = store
          /\ deletes' = deletes
      <3>1. Extend(l) /\ index' # index
        BY <1>4
      <3> QED
        BY <3>1 DEF Extend
    <2>5. ExtendedRow(l).exp = clock + TTL
      BY DEF ExtendedRow
    <2> QED
      BY <1>3, <2>1, <2>2, <2>3, <2>4, <2>5
  <1>5. CASE PutMeta(l)
    <2>1. NewRow(l) \in Row
      BY <1>1, <1>3, FlightBlobType, FlightFields DEF NewRow, Row
    <2>2. Writes(l) /\ NewRow(l).blob = FlightBlob(l) /\ NewRow(l).ver = flight[l].ver
      BY <1>5 DEF PutMeta, Writes, NewRow
    <2>3. /\ index' = [index EXCEPT ![req[l].key] = NewRow(l)]
          /\ FlightReturns(l, NewRow(l), "MISS")
          /\ flight[l].pc = "put" /\ clock' = clock /\ pub' = pub /\ store' = store
          /\ deletes' = deletes \cup BytesOf(flight[l].old)
      BY <1>5 DEF PutMeta
    <2>4. NewRow(l).exp = clock + TTL
      BY DEF NewRow
    <2> QED
      BY <1>3, <2>1, <2>2, <2>3, <2>4
  <1> QED
    BY <1>2, <1>4, <1>5

\* The index row of a key never goes back to an older upstream version.
THEOREM IndexMovesForward == Spec => VersionNeverGoesBack
  <1> DEFINE Forward == \A k \in Keys : index[k] # None =>
                          index'[k] # None /\ index'[k].ver >= index[k].ver
  <1>1. ASSUME IInv, [Next]_vars PROVE Forward
    <2>1. index \in [Keys -> Row \cup {None}] /\ \A k \in Keys : index[k] # None => index[k].ver \in Nat
      BY <1>1 DEF IInv, TypeOK, Row
    <2>2. CASE index' = index
      BY <2>1, <2>2
    <2>3. CASE index' # index
      <3>1. PICK l \in Clients, row \in Row :
              /\ index' = [index EXCEPT ![req[l].key] = row]
              /\ \/ index[req[l].key] # None /\ row.ver = index[req[l].key].ver
                 \/ Writes(l) /\ row.ver = flight[l].ver
        BY <1>1, <2>3, IndexSteps
      <3>2. req[l].key \in Keys
        BY <1>1, RequestFields DEF IInv
      <3>3. index[req[l].key] # None => row.ver >= index[req[l].key].ver
        BY <1>1, <2>1, <3>1, <3>2 DEF IInv, VersionsOrdered, Row
      <3> QED
        BY <2>1, <3>1, <3>2, <3>3, NoneAssumption
    <2> QED
      BY <2>2, <2>3
  <1>2. IInv /\ [Next]_vars => [Forward]_vars
    BY <1>1
  <1> QED
    BY Invariance, <1>2, PTL DEF Spec, VersionNeverGoesBack

\* Without faults of the storage a request misses bytes only when the bytes
\* of its row are gone, and it keeps its row while it reports that.
LEMMA MissingSteps ==
    ASSUME IInv, [Next]_vars, "stat" \notin Faults, NEW c \in Clients,
           req'[c].pc = "failed", req'[c].out = "missing"
    PROVE  /\ req'[c].row = req[c].row /\ req'[c].key = req[c].key
           /\ \/ req[c].pc = "failed" /\ req[c].out = "missing"
              \/ req[c].row # None /\ req[c].row.blob \notin store /\ index' = index
  <1>1. TypeOK /\ req \in [Clients -> Request]
    BY DEF IInv, TypeOK
  <1>2. CASE req'[c] = req[c]
    BY <1>2
  <1>3. ASSUME NEW d \in Clients, NEW r, req' = [req EXCEPT ![d] = r], r.pc = "failed" => r.out # "missing"
        PROVE  req'[c] = req[c]
    BY <1>1, <1>3
  <1>4. ASSUME NEW l \in Clients, NEW result, FlightEnds(l, result),
               \A d \in Clients : result[d].pc # "failed"
        PROVE  req'[c] = req[c]
    BY <1>4 DEF FlightEnds
  <1>5. ASSUME NEW d \in Clients, NEW pc, NEW row, NEW out, pc # "failed" \/ out # "missing",
               req' = [req EXCEPT ![d] = Go(d, pc, row, out)]
        PROVE  req'[c] = req[c]
    <2>1. Go(d, pc, row, out).pc = pc /\ Go(d, pc, row, out).out = out
      BY DEF Go
    <2> QED
      BY <1>1, <1>5, <2>1
  <1>6. \A l \in Clients : \A e : FlightFails(l, e) => req'[c] = req[c]
    <2> SUFFICES ASSUME NEW l \in Clients, NEW e, FlightFails(l, e) PROVE req'[c] = req[c]
      OBVIOUS
    <2> DEFINE result == [d \in Clients |-> Go(d, "flightErr",
                            IF d = l THEN flight[l].old ELSE req[d].row, e)]
    <2>1. \A d \in Clients : result[d].pc # "failed"
      BY DEF Go
    <2>2. FlightEnds(l, result)
      BY DEF FlightFails
    <2> QED
      BY <1>4, <2>1, <2>2
  <1>7. \A l \in Clients : \A row, out : FlightReturns(l, row, out) => req'[c] = req[c]
    <2> SUFFICES ASSUME NEW l \in Clients, NEW row, NEW out, FlightReturns(l, row, out)
                 PROVE req'[c] = req[c]
      OBVIOUS
    <2> DEFINE result == [d \in Clients |-> Go(d, "final", row, out)]
    <2>1. \A d \in Clients : result[d].pc # "failed"
      BY DEF Go
    <2>2. FlightEnds(l, result)
      BY DEF FlightReturns
    <2> QED
      BY <1>4, <2>1, <2>2
  <1>8. ASSUME NEW l \in Clients, FlightStep(l) PROVE req'[c] = req[c]
    <2>1. CASE Recheck(l)
      <3>1. CASE UNCHANGED req
        BY <3>1
      <3>2. CASE FlightEnds(l, [d \in Clients |-> Go(d, "reload", req[d].row, "")])
        <4> DEFINE result == [d \in Clients |-> Go(d, "reload", req[d].row, "")]
        <4>1. \A d \in Clients : result[d].pc # "failed"
          BY DEF Go
        <4>2. FlightEnds(l, result)
          BY <3>2
        <4> QED
          BY <1>4, <4>1, <4>2
      <3> QED
        BY <2>1, <3>1, <3>2 DEF Recheck
    <2>2. CASE Ask304(l) \/ Ask200(l) \/ Commit(l)
      BY <2>2 DEF Ask304, Ask200, Commit
    <2>3. CASE AskFails(l) \/ CommitFails(l) \/ PutMetaFails(l)
      BY <1>6, <2>3 DEF AskFails, CommitFails, PutMetaFails
    <2>4. CASE Extend(l) \/ PutMeta(l)
      BY <1>6, <1>7, <2>4 DEF Extend, PutMeta
    <2> QED
      BY <1>8, <2>1, <2>2, <2>3, <2>4 DEF FlightStep
  <1>9. ASSUME NEW d \in Clients, RequestStep(d) \/ \E k \in Keys : FetchMeta(d, k)
        PROVE  \/ req'[c] = req[c]
               \/ /\ req' = [req EXCEPT ![d] = Go(d, "failed", req[d].row, "missing")]
                  /\ req[d].row # None /\ req[d].row.blob \notin store /\ index' = index
    <2>1. CASE \E k \in Keys : FetchMeta(d, k)
      <3>1. PICK k \in Keys : \E row \in IndexReads(k) :
              req' = [req EXCEPT ![d] = [pc |-> IF Fresh(row) THEN "hit" ELSE "neg",
                        key |-> k, lead |-> d, row |-> row, out |-> ""]]
        BY <2>1 DEF FetchMeta
      <3> QED
        BY <1>3, <3>1
    <2>2. CASE Hit(d)
      <3>1. PICK pc \in {"resolved", "neg"}, out \in Outs :
              req' = [req EXCEPT ![d] = Go(d, pc, req[d].row, out)]
        BY <2>2 DEF Hit, Outs
      <3> QED
        BY <1>5, <3>1
    <2>3. CASE CheckNegative(d)
      <3>1. NegativeActive(req[d].key) => negative[req[d].key].err \in {"nf", "up"}
        BY <1>1, RequestFields DEF NegativeActive, TypeOK, Negative
      <3>2. PICK pc \in ReqPcs, out \in {"", "STALE", "nf", "up"} :
              req' = [req EXCEPT ![d] = Go(d, pc, req[d].row, out)]
        BY <2>3, <3>1 DEF CheckNegative, ReqPcs
      <3> QED
        BY <1>5, <3>2
    <2>4. CASE Join(d)
      <3>1. PICK l : req' = [req EXCEPT ![d] = [Go(d, "wait", req[d].row, "") EXCEPT !.lead = l]]
        BY <2>4, Zenon DEF Join
      <3>2. [Go(d, "wait", req[d].row, "") EXCEPT !.lead = l].pc # "failed"
        BY DEF Go
      <3> QED
        BY <1>3, <3>1, <3>2
    <2>5. CASE AfterError(d)
      <3>1. req[d].out # "missing"
        BY <2>5 DEF AfterError, IInv, RowsKnown
      <3>2. PICK pc \in ReqPcs, out \in {"STALE", req[d].out} :
              req' = [req EXCEPT ![d] = Go(d, pc, req[d].row, out)]
        BY <2>5 DEF AfterError, ReqPcs
      <3> QED
        BY <1>5, <3>1, <3>2
    <2>6. CASE Reload(d)
      <3>1. PICK row : req' = [req EXCEPT ![d] =
                         IF row = None THEN Go(d, "failed", None, "other")
                         ELSE Go(d, "final", row, "HIT")]
        BY <2>6 DEF Reload
      <3> QED
        BY <1>5, <3>1
    <2>7. CASE Final(d) \/ OpenBody(d)
      <3>1. req[d].row # None /\ index' = index /\ req[d].out # "missing"
        BY <2>7 DEF Final, OpenBody, IInv, RowsKnown
      <3>2. PICK ok \in StatResults(req[d].row) :
              \/ req' = [req EXCEPT ![d] = IF ok THEN Go(d, "resolved", req[d].row, req[d].out)
                                           ELSE Go(d, "failed", req[d].row, "missing")]
              \/ req' = [req EXCEPT ![d] = IF ok THEN IdleReq(d)
                                           ELSE Go(d, "failed", req[d].row, "missing")]
        BY <2>7 DEF Final, OpenBody
      <3>3. IdleReq(d).pc # "failed"
        BY DEF IdleReq
      <3>4. CASE ok
        BY <1>3, <1>5, <3>2, <3>3, <3>4
      <3>5. CASE ~ok
        <4>1. req[d].row.blob \notin store
          BY <3>2, <3>5 DEF StatResults
        <4> QED
          BY <3>1, <3>2, <3>5, <4>1
      <3> QED
        BY <3>4, <3>5
    <2>8. CASE Leave(d)
      <3>1. IdleReq(d).pc # "failed"
        BY DEF IdleReq
      <3> QED
        BY <1>3, <2>8, <3>1 DEF Leave
    <2> QED
      BY <1>9, <2>1, <2>2, <2>3, <2>4, <2>5, <2>6, <2>7, <2>8 DEF RequestStep
  <1>10. ASSUME \/ \E k \in Keys : Publish(k)
                \/ \E b \in deletes : DeleteOnce(b)
                \/ Tick \/ Crash \/ UNCHANGED vars
         PROVE  req'[c] = req[c]
    <2>1. CASE Crash
      BY <2>1 DEF Crash, IdleReq
    <2> QED
      BY <1>10, <2>1 DEF Publish, DeleteOnce, Tick, vars
  <1>11. ASSUME NEW d \in Clients,
                req' = [req EXCEPT ![d] = Go(d, "failed", req[d].row, "missing")],
                req[d].row # None, req[d].row.blob \notin store, index' = index
         PROVE  \/ req'[c] = req[c]
                \/ /\ req'[c].row = req[c].row /\ req'[c].key = req[c].key
                   /\ req[c].row # None /\ req[c].row.blob \notin store /\ index' = index
    <2>1. /\ Go(d, "failed", req[d].row, "missing").row = req[d].row
          /\ Go(d, "failed", req[d].row, "missing").key = req[d].key
      BY DEF Go
    <2> QED
      BY <1>1, <1>11, <2>1
  <1> QED
    BY <1>2, <1>8, <1>9, <1>10, <1>11 DEF Next

\* Without faults of the storage, bytes are missing for a request only when
\* the row it holds has been replaced.
THEOREM OnlyReplacementBreaksReaders ==
    ASSUME "stat" \notin Faults
    PROVE  Spec => []MissingOnlyAfterReplacement
  <1>1. Init => MissingOnlyAfterReplacement
    <2> SUFFICES ASSUME Init, NEW c \in Clients PROVE req[c].pc # "failed"
      BY DEF MissingOnlyAfterReplacement
    <2> QED
      BY DEF Init, IdleReq
  <1>2. ASSUME IInv, MissingOnlyAfterReplacement, [Next]_vars
        PROVE  MissingOnlyAfterReplacement'
    <2> SUFFICES ASSUME NEW c \in Clients, req'[c].pc = "failed", req'[c].out = "missing"
                 PROVE  index'[req'[c].key] # None /\ index'[req'[c].key].blob # req'[c].row.blob
      BY DEF MissingOnlyAfterReplacement
    <2>1. /\ req'[c].row = req[c].row /\ req'[c].key = req[c].key
          /\ \/ req[c].pc = "failed" /\ req[c].out = "missing"
             \/ req[c].row # None /\ req[c].row.blob \notin store /\ index' = index
      BY <1>2, MissingSteps
    <2>2. req[c].key \in Keys /\ index \in [Keys -> Row \cup {None}]
      BY <1>2, RequestFields DEF IInv, TypeOK
    <2>3. req[c].row # None
      BY <1>2, <2>1 DEF IInv, RowsKnown
    <2>4. index[req[c].key] # None /\ index[req[c].key].blob # req[c].row.blob
      BY <1>2, <2>1, <2>2, <2>3
         DEF IInv, RowsKnown, IndexedBytesStored, MissingOnlyAfterReplacement
    <2>5. CASE index' = index
      BY <2>1, <2>4, <2>5
    <2>6. CASE index' # index
      <3>1. PICK l \in Clients, row \in Row :
              /\ index' = [index EXCEPT ![req[l].key] = row]
              /\ \/ index[req[l].key] # None /\ row.blob = index[req[l].key].blob
                 \/ Writes(l) /\ row.blob = FlightBlob(l)
        BY <1>2, <2>6, IndexSteps
      <3>2. Writes(l) => req[c].row.blob # FlightBlob(l)
        BY <1>2, <2>3 DEF IInv, WrittenIsPrivate
      <3> QED
        BY <2>1, <2>2, <2>4, <3>1, <3>2, NoneAssumption
    <2> QED
      BY <2>5, <2>6
  <1> QED
    BY <1>1, <1>2, Invariance, PTL DEF Spec

-----------------------------------------------------------------------------
(* Time: how long a transfer and a row may last *)

\* A client that takes part in no step of another one keeps its request while
\* it leads a flight.
LEMMA LeaderStays ==
    ASSUME IInv, NEW l \in Clients, NEW m \in Clients, m # l, flight[l] # None,
           NEW result, FlightEnds(m, result)
    PROVE  req'[l] = req[l] /\ flight'[l] = flight[l]
  <1>1. flight \in [Clients -> Flight \cup {None}]
    BY DEF IInv, TypeOK
  <1>2. l \notin Waiting(m)
    BY DEF Waiting, IInv, SingleFlight
  <1> QED
    BY <1>1, <1>2 DEF FlightEnds

\* How a flight moves on: from the second read of the row over the answer of
\* upstream to the committed object, the key and the row in hand unchanged.
FlightMoved(l) ==
    \/ flight'[l] = flight[l]
    \/ /\ flight[l].pc = "recheck" /\ flight'[l].pc = "ask"
       /\ flight'[l].old \in IndexReads(req[l].key)
    \/ /\ flight[l].pc = "ask" /\ flight'[l].pc = "extend" /\ flight'[l].old = flight[l].old
       /\ flight'[l].at = clock /\ flight[l].old.ver = Ver(req[l].key)
    \/ /\ flight[l].pc = "ask" /\ flight'[l].pc = "body" /\ flight'[l].old = flight[l].old
       /\ flight'[l].at = clock /\ flight'[l].ver = Ver(req[l].key)
    \/ /\ flight[l].pc = "body" /\ flight'[l].pc = "put" /\ flight'[l].old = flight[l].old
       /\ flight'[l].at = flight[l].at /\ flight'[l].ver = flight[l].ver
       /\ flight'[l].n = flight[l].n

\* A step of a flight moves it or ends it, and moves nobody else's.
LEMMA OneFlightMoves ==
    ASSUME IInv, NEW m \in Clients, FlightStep(m), NEW l \in Clients, flight'[l] # None
    PROVE  /\ flight[l] # None /\ req'[l].key = req[l].key
           /\ FlightMoved(l)
           /\ flight'[l] # flight[l] => clock' = clock /\ pub' = pub /\ index' = index
  <1>1. flight \in [Clients -> Flight \cup {None}] /\ flight[m] # None
    BY DEF IInv, TypeOK, FlightStep, Recheck, Ask304, Ask200, AskFails, Extend, Commit,
           CommitFails, PutMeta, PutMetaFails
  <1>2. ASSUME NEW result, FlightEnds(m, result)
        PROVE  flight[l] # None /\ req'[l] = req[l] /\ flight'[l] = flight[l]
    <2>1. flight' = [flight EXCEPT ![m] = None]
      BY <1>2 DEF FlightEnds
    <2>2. m # l /\ flight[l] # None
      BY <1>1, <2>1
    <2> QED
      BY <1>2, <2>2, LeaderStays
  <1>3. ASSUME NEW e, FlightFails(m, e) PROVE flight[l] # None /\ req'[l] = req[l] /\ flight'[l] = flight[l]
    BY <1>2, <1>3 DEF FlightFails
  <1>4. ASSUME NEW row, NEW out, FlightReturns(m, row, out)
        PROVE  flight[l] # None /\ req'[l] = req[l] /\ flight'[l] = flight[l]
    BY <1>2, <1>4 DEF FlightReturns
  <1>5. CASE AskFails(m) \/ CommitFails(m) \/ PutMetaFails(m)
    <2>1. \E e : FlightFails(m, e)
      BY <1>5 DEF AskFails, CommitFails, PutMetaFails
    <2> QED
      BY <1>3, <2>1 DEF FlightMoved
  <1>6. CASE Extend(m) \/ PutMeta(m)
    <2>1. \/ \E e : FlightFails(m, e)
          \/ \E row, out : FlightReturns(m, row, out)
      BY <1>6 DEF Extend, PutMeta
    <2> QED
      BY <1>3, <1>4, <2>1 DEF FlightMoved
  <1>7. CASE Recheck(m)
    <2>1. CASE \E result : FlightEnds(m, result)
      BY <1>2, <2>1 DEF FlightMoved
    <2>2. CASE \E row \in IndexReads(req[m].key) :
                  flight' = [flight EXCEPT ![m] = Phase("ask", row, 0, 0, @.at)] /\ req' = req
      <3>1. flight[m].pc = "recheck" /\ clock' = clock /\ pub' = pub /\ index' = index
        BY <1>7 DEF Recheck
      <3>2. PICK row \in IndexReads(req[m].key) :
                flight' = [flight EXCEPT ![m] = Phase("ask", row, 0, 0, flight[m].at)]
        BY <2>2
      <3>3. CASE l = m
        <4>1. flight'[m] = Phase("ask", row, 0, 0, flight[m].at)
          BY <1>1, <3>2
        <4>2. flight'[m].pc = "ask" /\ flight'[m].old = row
          BY <4>1 DEF Phase
        <4> QED
          BY <1>1, <2>2, <3>1, <3>2, <3>3, <4>2 DEF FlightMoved
      <3>4. CASE l # m
        BY <1>1, <2>2, <3>2, <3>4 DEF FlightMoved
      <3> QED
        BY <3>3, <3>4
    <2> QED
      BY <1>7, <2>1, <2>2 DEF Recheck
  <1>8. CASE Ask304(m)
    BY <1>1, <1>8 DEF FlightMoved, Phase, Ask304, NotModified
  <1>9. CASE Ask200(m)
    BY <1>1, <1>9 DEF FlightMoved, Phase, Ask200
  <1>10. CASE Commit(m)
    BY <1>1, <1>10 DEF FlightMoved, Phase, Commit
  <1> QED
    BY <1>5, <1>6, <1>7, <1>8, <1>9, <1>10 DEF FlightStep

\* What a step does to the flight of a client, seen from the state after it.
LEMMA FlightSteps ==
    ASSUME IInv, [Next]_vars, NEW l \in Clients, flight'[l] # None
    PROVE  \/ flight'[l].pc = "recheck" /\ flight[l] = None
           \/ /\ flight[l] # None /\ req'[l].key = req[l].key
              /\ FlightMoved(l)
              /\ flight'[l] # flight[l] => clock' = clock /\ pub' = pub /\ index' = index
  <1>1. /\ flight \in [Clients -> Flight \cup {None}] /\ req \in [Clients -> Request]
        /\ flight[l] # None => req[l].pc = "wait"
    BY DEF IInv, TypeOK, SingleFlight
  <1>2. ASSUME NEW c \in Clients, NEW r, req' = [req EXCEPT ![c] = r], req[c].pc # "wait",
               flight[l] # None
        PROVE  req'[l] = req[l]
    BY <1>1, <1>2
  <1>3. ASSUME NEW c \in Clients, RequestStep(c) \/ \E k \in Keys : FetchMeta(c, k)
        PROVE  /\ req[c].pc # "wait" /\ \E r : req' = [req EXCEPT ![c] = r]
               /\ \/ flight' = flight
                  \/ flight' = [flight EXCEPT ![c] = Phase("recheck", None, 0, 0, clock)]
    <2>1. CASE Join(c)
      BY <2>1 DEF Join
    <2>2. CASE \E k \in Keys : FetchMeta(c, k)
      BY <2>2 DEF FetchMeta
    <2>3. CASE Hit(c) \/ CheckNegative(c) \/ AfterError(c)
      BY <2>3 DEF Hit, CheckNegative, AfterError
    <2>4. CASE Reload(c) \/ Final(c) \/ OpenBody(c) \/ Leave(c)
      BY <2>4 DEF Reload, Final, OpenBody, Leave
    <2> QED
      BY <1>3, <2>1, <2>2, <2>3, <2>4 DEF RequestStep
  <1>4. ASSUME NEW c \in Clients, RequestStep(c) \/ \E k \in Keys : FetchMeta(c, k)
        PROVE  \/ flight'[l].pc = "recheck" /\ flight[l] = None
               \/ flight[l] # None /\ req'[l].key = req[l].key /\ flight'[l] = flight[l]
    <2>1. PICK r : req' = [req EXCEPT ![c] = r]
      BY <1>3, <1>4
    <2>2. req[c].pc # "wait"
      BY <1>3, <1>4
    <2>3. CASE flight' = flight
      BY <1>2, <2>1, <2>2, <2>3
    <2>4. CASE flight' = [flight EXCEPT ![c] = Phase("recheck", None, 0, 0, clock)]
      <3>1. CASE c = l
        BY <1>1, <2>2, <2>4, <3>1 DEF Phase
      <3>2. CASE c # l
        BY <1>1, <1>2, <2>1, <2>2, <2>4, <3>2
      <3> QED
        BY <3>1, <3>2
    <2> QED
      BY <1>3, <1>4, <2>3, <2>4
  <1>5. ASSUME NEW m \in Clients, FlightStep(m)
        PROVE  /\ flight[l] # None /\ req'[l].key = req[l].key
               /\ FlightMoved(l)
               /\ flight'[l] # flight[l] => clock' = clock /\ pub' = pub /\ index' = index
    BY <1>5, OneFlightMoves
  <1>6. CASE Crash
    BY <1>6 DEF Crash
  <1>7. CASE \/ \E k \in Keys : Publish(k)
             \/ \E b \in deletes : DeleteOnce(b)
             \/ Tick
             \/ UNCHANGED vars
    BY <1>7 DEF Publish, DeleteOnce, Tick, vars, FlightMoved
  <1> QED
    BY <1>4, <1>5, <1>6, <1>7 DEF Next, FlightMoved

\* Only Tick moves the clock, only Publish what upstream holds.
LEMMA ClockSteps ==
    ASSUME [Next]_vars
    PROVE  /\ clock' = clock \/ Tick
           /\ pub' = pub \/ \E k \in Keys : Publish(k)
  BY DEF Next, vars, RequestStep, FlightStep, FetchMeta, Hit, CheckNegative, Join,
         AfterError, Reload, Final, OpenBody, Leave, Recheck, Ask304, Ask200, AskFails,
         Extend, Commit, CommitFails, PutMeta, PutMetaFails, Publish, DeleteOnce, Tick, Crash

\* No step lets a transfer in progress outlast MaxTransfer.
LEMMA InTimeStep == ASSUME IInv, InTime, [Next]_vars PROVE InTime'
  <1> SUFFICES ASSUME NEW l \in Clients, flight'[l] # None,
                      flight'[l].pc \in {"extend", "body", "put"}
               PROVE  flight'[l].at <= clock' /\ clock' <= flight'[l].at + MaxTransfer
    BY DEF InTime
  <1>1. /\ flight[l] # None
        /\ FlightMoved(l)
        /\ flight'[l] # flight[l] => clock' = clock
    BY FlightSteps
  <1>2. clock \in Nat /\ MaxTransfer \in Nat /\ flight[l].at \in Nat
    BY <1>1, CacheAssumption, FlightFields DEF IInv, TypeOK
  <1>3. CASE flight'[l] = flight[l]
    <2>1. flight[l].at <= clock /\ clock <= flight[l].at + MaxTransfer
      BY <1>1, <1>3 DEF InTime
    <2>2. CASE Tick
      BY <1>1, <1>2, <1>3, <2>1, <2>2 DEF Tick
    <2>3. CASE clock' = clock
      BY <1>3, <2>1, <2>3
    <2> QED
      BY <2>2, <2>3, ClockSteps
  <1>4. CASE flight'[l] # flight[l]
    BY <1>1, <1>2, <1>4 DEF FlightMoved, InTime
  <1> QED
    BY <1>3, <1>4

\* A version that was current at a time that is over remains one that was: a
\* new version is published now.
LEMMA CurrentKept ==
    ASSUME IInv, [Next]_vars, NEW k \in Keys, NEW v \in Nat, NEW t \in Int, t <= clock,
           v < Len(pub[k]) => t <= pub[k][v + 1]
    PROVE  v < Len(pub'[k]) => t <= pub'[k][v + 1]
  <1>1. pub \in [Keys -> Seq(Nat)] /\ clock \in Nat
    BY DEF IInv, TypeOK
  <1>2. CASE pub' = pub
    BY <1>2
  <1>3. ASSUME NEW j \in Keys, Publish(j)
        PROVE  v < Len(pub'[k]) => t <= pub'[k][v + 1]
    <2>1. pub' = [pub EXCEPT ![j] = Append(pub[j], clock)]
      BY <1>3 DEF Publish
    <2>2. CASE j # k
      BY <1>1, <2>1, <2>2
    <2>3. CASE j = k
      <3> DEFINE s == pub[k]
      <3>1. s \in Seq(Nat) /\ pub'[k] = Append(s, clock)
        BY <1>1, <2>1, <2>3
      <3>2. Len(Append(s, clock)) = Len(s) + 1 /\ Len(s) \in Nat
        BY <1>1, <3>1
      <3>3. CASE v < Len(s)
        <4>1. Append(s, clock)[v + 1] = s[v + 1]
          BY <1>1, <3>1, <3>2, <3>3
        <4> QED
          BY <3>1, <3>3, <4>1
      <3>4. CASE v = Len(s)
        <4>1. Append(s, clock)[v + 1] = clock
          BY <1>1, <3>1, <3>2, <3>4
        <4> QED
          BY <3>1, <4>1
      <3> QED
        BY <3>1, <3>2, <3>3, <3>4
    <2> QED
      BY <2>2, <2>3
  <1> QED
    BY <1>2, <1>3, ClockSteps

\* The versions of a key are published at times.
LEMMA PublishedAt ==
    ASSUME NEW s \in Seq(Nat), NEW v \in Nat, v < Len(s)
    PROVE  s[v + 1] \in Nat
  OBVIOUS

\* The arithmetic of a row's expiry: seen from its writer, and from a reader.
LEMMA ExpiryArithmetic ==
    ASSUME NEW now \in Nat, NEW at \in Nat, NEW exp \in Nat, NEW p \in Nat,
           NEW ttl \in Nat, NEW mt \in Nat
    PROVE  /\ now <= at + mt /\ at <= p => (now + ttl) - ttl - mt <= p
           /\ exp > now /\ exp - ttl - mt <= p => now < p + ttl + mt
  OBVIOUS

\* The clock is a number that does not go back.
LEMMA ClockForward == ASSUME IInv, [Next]_vars PROVE clock' \in Nat /\ clock <= clock'
  BY ClockSteps DEF Tick, IInv, TypeOK

\* The expiry of a row remains bounded, whoever writes it.
LEMMA ExpiryStep ==
    ASSUME IInv, InTime, ExpiryBounded, [Next]_vars
    PROVE  ExpiryBounded'
  <1>1. /\ index \in [Keys -> Row \cup {None}] /\ clock \in Nat
        /\ TTL \in Nat /\ MaxTransfer \in Nat /\ pub \in [Keys -> Seq(Nat)]
    BY CacheAssumption DEF IInv, TypeOK
  <1>2. ASSUME NEW k \in Keys, index'[k] # None
        PROVE  /\ index'[k].exp <= clock' + TTL
               /\ index'[k].ver < Len(pub'[k]) =>
                     index'[k].exp - TTL - MaxTransfer <= pub'[k][index'[k].ver + 1]
    <2>1. CASE index'[k] = index[k]
      <3>1. index[k] # None /\ index[k].ver \in Nat /\ index[k].exp \in Nat
        BY <1>1, <1>2, <2>1 DEF Row
      <3>2. /\ index[k].exp <= clock + TTL
            /\ index[k].ver < Len(pub[k]) =>
                  index[k].exp - TTL - MaxTransfer <= pub[k][index[k].ver + 1]
        BY <3>1 DEF ExpiryBounded, CurrentAt, Ver
      <3>3. index[k].exp <= clock' + TTL
        BY <1>1, <3>1, <3>2, ClockForward
      <3>4. index[k].exp - TTL - MaxTransfer \in Int /\ index[k].exp - TTL - MaxTransfer <= clock
        BY <1>1, <3>1, <3>2
      <3>5. index[k].ver < Len(pub'[k]) =>
                index[k].exp - TTL - MaxTransfer <= pub'[k][index[k].ver + 1]
        BY <3>1, <3>2, <3>4, CurrentKept
      <3> QED
        BY <2>1, <3>3, <3>5
    <2>2. CASE index'[k] # index[k]
      <3>1. index' # index
        BY <2>2
      <3>2. PICK l \in Clients, row \in Row :
              /\ flight[l] # None
              /\ index' = [index EXCEPT ![req[l].key] = row]
              /\ row.exp = clock + TTL /\ clock' = clock /\ pub' = pub
              /\ \/ /\ row.ver = index[req[l].key].ver /\ flight[l].pc = "extend"
                    /\ flight[l].old = index[req[l].key]
                 \/ Writes(l) /\ row.ver = flight[l].ver
        BY <3>1, IndexSteps
      <3>3. k = req[l].key /\ index'[k] = row
        BY <1>1, <2>2, <3>2
      <3>4. row.ver < Len(pub[k]) => flight[l].at <= pub[k][row.ver + 1]
        BY <3>2, <3>3 DEF ExpiryBounded, CurrentAt, Ver
      <3>5. flight[l].at \in Nat /\ clock <= flight[l].at + MaxTransfer
        BY <3>2, FlightFields DEF InTime, Writes, IInv
      <3>6. row.ver \in Nat /\ (row.ver < Len(pub[k]) => pub[k][row.ver + 1] \in Nat)
        <4>1. row.ver \in Nat /\ pub[k] \in Seq(Nat)
          BY <1>1 DEF Row
        <4> QED
          BY <4>1, PublishedAt
      <3>7. row.ver < Len(pub[k]) => (clock + TTL) - TTL - MaxTransfer <= pub[k][row.ver + 1]
        BY <1>1, <3>4, <3>5, <3>6, ExpiryArithmetic
      <3>8. clock + TTL <= clock + TTL
        BY <1>1
      <3>9. /\ index'[k].exp = clock + TTL /\ index'[k].ver = row.ver
            /\ pub'[k] = pub[k] /\ clock' = clock
        BY <3>2, <3>3
      <3> QED
        <4>1. index'[k].exp <= clock' + TTL
          BY <3>8, <3>9, Zenon
        <4>2. index'[k].ver < Len(pub'[k]) =>
                index'[k].exp - TTL - MaxTransfer <= pub'[k][index'[k].ver + 1]
          <5> SUFFICES ASSUME index'[k].ver < Len(pub'[k])
                       PROVE  index'[k].exp - TTL - MaxTransfer <= pub'[k][index'[k].ver + 1]
            OBVIOUS
          <5>1. row.ver < Len(pub[k])
            BY <3>9, Zenon
          <5>2. (clock + TTL) - TTL - MaxTransfer <= pub[k][row.ver + 1]
            BY <3>7, <5>1
          <5>3. pub'[k][index'[k].ver + 1] = pub[k][row.ver + 1]
            BY <3>9, Zenon
          <5>4. index'[k].exp - TTL - MaxTransfer = (clock + TTL) - TTL - MaxTransfer
            BY <3>9, Zenon
          <5> QED
            BY <5>2, <5>3, <5>4, Zenon
        <4> QED
          BY <4>1, <4>2
    <2> QED
      BY <2>1, <2>2
  <1>3. ASSUME NEW l \in Clients, flight'[l] # None
        PROVE  /\ flight'[l].pc = "extend" =>
                     (flight'[l].old.ver < Len(pub'[req'[l].key]) =>
                        flight'[l].at <= pub'[req'[l].key][flight'[l].old.ver + 1])
               /\ flight'[l].pc \in {"body", "put"} =>
                     (flight'[l].ver < Len(pub'[req'[l].key]) =>
                        flight'[l].at <= pub'[req'[l].key][flight'[l].ver + 1])
    <2>1. CASE flight'[l].pc = "recheck"
      BY <2>1
    <2>2. ASSUME flight[l] # None, req'[l].key = req[l].key, flight'[l] = flight[l]
          PROVE  /\ flight[l].pc = "extend" =>
                       (flight[l].old.ver < Len(pub'[req[l].key]) =>
                          flight[l].at <= pub'[req[l].key][flight[l].old.ver + 1])
                 /\ flight[l].pc \in {"body", "put"} =>
                       (flight[l].ver < Len(pub'[req[l].key]) =>
                          flight[l].at <= pub'[req[l].key][flight[l].ver + 1])
      <3>1. flight[l].at \in Int /\ flight[l].ver \in Nat /\ req[l].key \in Keys
        BY <2>2, FlightFields, RequestFields DEF IInv
      <3>2. flight[l].pc \in {"extend", "body", "put"} => flight[l].at <= clock
        BY <2>2 DEF InTime
      <3>3. flight[l].pc = "extend" => flight[l].old.ver \in Nat
        BY <2>2, FlightFields DEF IInv, OldIsIndexed, Row
      <3>4. CASE flight[l].pc = "extend"
        <4>1. flight[l].old.ver < Len(pub[req[l].key]) =>
                flight[l].at <= pub[req[l].key][flight[l].old.ver + 1]
          BY <2>2, <3>4 DEF ExpiryBounded, CurrentAt, Ver
        <4> QED
          BY <3>1, <3>2, <3>3, <3>4, <4>1, CurrentKept
      <3>5. CASE flight[l].pc \in {"body", "put"}
        <4>1. flight[l].ver < Len(pub[req[l].key]) =>
                flight[l].at <= pub[req[l].key][flight[l].ver + 1]
          BY <2>2, <3>5 DEF ExpiryBounded, CurrentAt, Ver, Writes
        <4> QED
          BY <3>1, <3>2, <3>5, <4>1, CurrentKept
      <3> QED
        BY <3>4, <3>5
    <2>3. ASSUME flight[l] # None, req'[l].key = req[l].key, FlightMoved(l), pub' = pub,
                 flight'[l] # flight[l], flight'[l].pc # "ask"
          PROVE  \/ /\ flight'[l].pc = "extend" /\ flight'[l].old.ver = Len(pub'[req'[l].key])
                 \/ /\ flight'[l].pc = "body" /\ flight'[l].ver = Len(pub'[req'[l].key])
                 \/ /\ flight'[l].pc = "put"
                    /\ flight'[l].ver < Len(pub'[req'[l].key]) =>
                        flight'[l].at <= pub'[req'[l].key][flight'[l].ver + 1]
      <3>1. flight[l].pc = "body" =>
              (flight[l].ver < Len(pub[req[l].key]) =>
                 flight[l].at <= pub[req[l].key][flight[l].ver + 1])
        BY <2>3 DEF ExpiryBounded, CurrentAt, Ver, Writes
      <3>2. CASE flight[l].pc = "body"
        BY <2>3, <3>1, <3>2 DEF FlightMoved
      <3>3. CASE flight[l].pc = "ask"
        BY <2>3, <3>3 DEF FlightMoved, Ver
      <3> QED
        BY <2>3, <3>2, <3>3 DEF FlightMoved
    <2>4. req'[l].key \in Keys /\ Len(pub'[req'[l].key]) \in Nat
      <3>1. TypeOK'
        BY StepInv DEF IInv
      <3> QED
        BY <3>1 DEF TypeOK, Request
    <2>5. CASE flight'[l] = flight[l]
      <3>1. flight[l] # None
        BY <1>3, <2>5
      <3>2. CASE flight[l].pc = "recheck"
        BY <2>5, <3>2
      <3>3. CASE flight[l].pc # "recheck"
        <4>1. req'[l].key = req[l].key
          BY <1>3, <2>5, <3>3, FlightSteps
        <4> QED
          BY <2>2, <2>5, <3>1, <4>1
      <3> QED
        BY <3>2, <3>3
    <2>6. CASE flight'[l] # flight[l] /\ flight'[l].pc \notin {"recheck", "ask"}
      <3>1. flight[l] # None /\ req'[l].key = req[l].key /\ FlightMoved(l) /\ pub' = pub
        BY <1>3, <2>6, FlightSteps
      <3>2. \/ flight'[l].pc = "extend" /\ flight'[l].old.ver = Len(pub'[req'[l].key])
            \/ flight'[l].pc = "body" /\ flight'[l].ver = Len(pub'[req'[l].key])
            \/ /\ flight'[l].pc = "put"
               /\ flight'[l].ver < Len(pub'[req'[l].key]) =>
                     flight'[l].at <= pub'[req'[l].key][flight'[l].ver + 1]
        BY <2>3, <2>6, <3>1
      <3> QED
        BY <2>4, <3>2
    <2>7. CASE flight'[l].pc = "ask"
      BY <2>7
    <2> QED
      BY <2>1, <2>5, <2>6, <2>7
  <1> QED
    BY <1>2, <1>3 DEF ExpiryBounded, CurrentAt, Ver, Writes

\* A request takes a row for fresh only by reading it from the index.
LEMMA HitSteps ==
    ASSUME IInv, [Next]_vars, NEW c \in Clients, req[c].pc = "idle", req'[c].pc = "hit"
    PROVE  /\ req'[c].key \in Keys
           /\ req'[c].row = index[req'[c].key]
           /\ req'[c].row # None /\ req'[c].row.exp > clock
  <1>1. req \in [Clients -> Request]
    BY DEF IInv, TypeOK
  <1>2. PICK d \in Clients, k \in Keys : FetchMeta(d, k)
    <2>1. ASSUME NEW l \in Clients, NEW result, FlightEnds(l, result) PROVE FALSE
      <3>1. c \notin Waiting(l)
        BY DEF Waiting
      <3> QED
        BY <2>1, <3>1 DEF FlightEnds
    <2>2. ASSUME NEW l \in Clients, FlightStep(l) PROVE FALSE
      <3>1. CASE AskFails(l) \/ CommitFails(l) \/ PutMetaFails(l)
        <4>1. \E e : FlightFails(l, e)
          BY <3>1 DEF AskFails, CommitFails, PutMetaFails
        <4> QED
          BY <2>1, <4>1 DEF FlightFails
      <3>2. CASE Extend(l) \/ PutMeta(l)
        <4>1. (\E e : FlightFails(l, e)) \/ (\E row, out : FlightReturns(l, row, out))
          BY <3>2 DEF Extend, PutMeta
        <4> QED
          BY <2>1, <4>1 DEF FlightFails, FlightReturns
      <3>3. CASE Recheck(l)
        <4>1. (\E result : FlightEnds(l, result)) \/ req' = req
          BY <3>3 DEF Recheck
        <4> QED
          BY <2>1, <4>1
      <3>4. CASE Ask304(l) \/ Ask200(l) \/ Commit(l)
        BY <3>4 DEF Ask304, Ask200, Commit
      <3> QED
        BY <2>2, <3>1, <3>2, <3>3, <3>4 DEF FlightStep
    <2>3. ASSUME NEW d \in Clients, RequestStep(d) PROVE FALSE
      <3>1. /\ \E r : req' = [req EXCEPT ![d] = r]
            /\ req[d].pc # "idle"
        <4>1. CASE Join(d)
          BY <4>1 DEF Join
        <4>2. CASE Hit(d) \/ CheckNegative(d) \/ AfterError(d)
          BY <4>2 DEF Hit, CheckNegative, AfterError
        <4>3. CASE Reload(d) \/ Final(d) \/ OpenBody(d) \/ Leave(d)
          BY <4>3 DEF Reload, Final, OpenBody, Leave
        <4> QED
          BY <2>3, <4>1, <4>2, <4>3 DEF RequestStep
      <3> QED
        BY <1>1, <3>1
    <2>4. ~Crash
      <3>1. Crash => req'[c] = IdleReq(c)
        BY DEF Crash
      <3>2. IdleReq(c).pc = "idle"
        BY DEF IdleReq
      <3> QED
        BY <3>1, <3>2
    <2>5. ~(\/ \E k \in Keys : Publish(k)
            \/ \E b \in deletes : DeleteOnce(b)
            \/ Tick \/ UNCHANGED vars)
      BY DEF Publish, DeleteOnce, Tick, vars
    <2> QED
      BY <2>2, <2>3, <2>4, <2>5 DEF Next
  <1>3. PICK row \in IndexReads(k) :
          req' = [req EXCEPT ![d] = [pc  |-> IF Fresh(row) THEN "hit" ELSE "neg",
                                     key |-> k, lead |-> d, row |-> row, out |-> ""]]
    BY <1>2 DEF FetchMeta
  <1>4. d = c
    BY <1>1, <1>3
  <1>5. Fresh(row) /\ req'[c].key = k /\ req'[c].row = row
    BY <1>1, <1>3, <1>4
  <1>6. row = index[k]
    BY <1>5 DEF IndexReads, Fresh
  <1>7. row \in Row /\ row.exp \in Nat /\ clock \in Nat
    BY <1>5, <1>6 DEF IInv, TypeOK, Fresh, Row
  <1> QED
    BY <1>5, <1>6, <1>7 DEF Fresh, Expired

\* A row served without asking upstream is at most TTL and a transfer behind.
THEOREM StalenessBounded == Spec => BoundedStaleness
  <1> DEFINE TInv == IInv /\ InTime /\ ExpiryBounded
  <1> DEFINE Bounded == \A c \in Clients :
                          req[c].pc = "idle" /\ req'[c].pc = "hit" =>
                            LET k == req'[c].key
                                v == req'[c].row.ver
                            IN v < Ver(k) => clock < pub[k][v + 1] + TTL + MaxTransfer
  <1>1. Init => TInv
    <2>1. Init => InTime /\ ExpiryBounded
      BY DEF Init, InTime, ExpiryBounded
    <2> QED
      BY <2>1, InitInv
  <1>2. TInv /\ [Next]_vars => TInv'
    BY StepInv, InTimeStep, ExpiryStep
  <1>3. ASSUME TInv, [Next]_vars PROVE Bounded
    <2> SUFFICES ASSUME NEW c \in Clients, req[c].pc = "idle", req'[c].pc = "hit",
                        req'[c].row.ver < Ver(req'[c].key)
                 PROVE  clock < pub[req'[c].key][req'[c].row.ver + 1] + TTL + MaxTransfer
      OBVIOUS
    <2>1. PICK k \in Keys : /\ k = req'[c].key /\ req'[c].row = index[k]
                           /\ index[k] # None /\ index[k].exp > clock
      BY <1>3, HitSteps
    <2>2. index[k].exp - TTL - MaxTransfer <= pub[k][index[k].ver + 1]
      BY <1>3, <2>1 DEF ExpiryBounded, CurrentAt
    <2>3. /\ index[k].exp \in Nat /\ index[k].ver \in Nat /\ clock \in Nat
          /\ TTL \in Nat /\ MaxTransfer \in Nat /\ pub[k] \in Seq(Nat)
      BY <1>3, <2>1, CacheAssumption DEF IInv, TypeOK, Row
    <2>4. pub[k][index[k].ver + 1] \in Nat
      <3>1. index[k].ver < Len(pub[k])
        BY <2>1 DEF Ver
      <3> QED
        BY <2>3, <3>1, PublishedAt
    <2>5. clock < pub[k][index[k].ver + 1] + TTL + MaxTransfer
      <3>1. PICK p \in Nat, exp \in Nat : p = pub[k][index[k].ver + 1] /\ exp = index[k].exp
        BY <2>3, <2>4
      <3>2. exp > clock /\ exp - TTL - MaxTransfer <= p
        BY <2>1, <2>2, <3>1, Zenon
      <3>3. clock < p + TTL + MaxTransfer
        BY <2>3, <3>2, ExpiryArithmetic
      <3> QED
        BY <3>1, <3>3, Zenon
    <2> QED
      BY <2>1, <2>5
  <1>4. TInv /\ [Next]_vars => [Bounded]_vars
    BY <1>3
  <1>5. Spec => []TInv
    BY <1>1, <1>2, PTL DEF Spec
  <1> QED
    BY <1>4, <1>5, PTL DEF Spec, BoundedStaleness

-----------------------------------------------------------------------------
(* No orphans *)

\* A leader that has committed its object keeps it in hand until it writes the
\* index, unless the process dies.
LEMMA PutSteps ==
    ASSUME IInv, [Next]_vars, ~Crash, NEW l \in Clients, flight[l] # None,
           flight[l].pc = "put"
    PROVE  \/ PutMeta(l) \/ PutMetaFails(l)
           \/ flight'[l] = flight[l] /\ req'[l] = req[l]
  <1>1. /\ flight \in [Clients -> Flight \cup {None}] /\ req \in [Clients -> Request]
        /\ req[l].pc = "wait"
    BY DEF IInv, TypeOK, SingleFlight
  <1>2. ASSUME NEW m \in Clients, FlightStep(m)
        PROVE  \/ PutMeta(l) \/ PutMetaFails(l)
               \/ flight'[l] = flight[l] /\ req'[l] = req[l]
    <2>1. CASE m = l
      BY <1>2, <2>1 DEF FlightStep, Recheck, Ask304, Ask200, AskFails, Extend, Commit,
                        CommitFails
    <2>2. CASE m # l
      <3>1. CASE AskFails(m) \/ CommitFails(m) \/ PutMetaFails(m)
        <4>1. \E e : FlightFails(m, e)
          BY <3>1 DEF AskFails, CommitFails, PutMetaFails
        <4> QED
          BY <2>2, <4>1, LeaderStays DEF FlightFails
      <3>2. CASE Extend(m) \/ PutMeta(m)
        <4>1. (\E e : FlightFails(m, e)) \/ (\E row, out : FlightReturns(m, row, out))
          BY <3>2 DEF Extend, PutMeta
        <4> QED
          BY <2>2, <4>1, LeaderStays DEF FlightFails, FlightReturns
      <3>3. CASE Recheck(m)
        <4>1. CASE \E result : FlightEnds(m, result)
          BY <2>2, <4>1, LeaderStays
        <4>2. CASE req' = req /\ \E p : flight' = [flight EXCEPT ![m] = p]
          BY <1>1, <2>2, <4>2
        <4> QED
          BY <3>3, <4>1, <4>2 DEF Recheck
      <3>4. CASE Ask304(m) \/ Ask200(m) \/ Commit(m)
        <4>1. req' = req /\ \E p : flight' = [flight EXCEPT ![m] = p]
          BY <3>4 DEF Ask304, Ask200, Commit
        <4> QED
          BY <1>1, <2>2, <4>1
      <3> QED
        BY <1>2, <3>1, <3>2, <3>3, <3>4 DEF FlightStep
    <2> QED
      BY <2>1, <2>2
  <1>3. ASSUME NEW c \in Clients, RequestStep(c) \/ \E k \in Keys : FetchMeta(c, k)
        PROVE  flight'[l] = flight[l] /\ req'[l] = req[l]
    <2>1. /\ req[c].pc # "wait" /\ \E r : req' = [req EXCEPT ![c] = r]
          /\ flight' = flight \/ \E p : flight' = [flight EXCEPT ![c] = p]
      <3>1. CASE Join(c)
        BY <3>1 DEF Join
      <3>2. CASE \E k \in Keys : FetchMeta(c, k)
        BY <3>2 DEF FetchMeta
      <3>3. CASE Hit(c) \/ CheckNegative(c) \/ AfterError(c)
        BY <3>3 DEF Hit, CheckNegative, AfterError
      <3>4. CASE Reload(c) \/ Final(c) \/ OpenBody(c) \/ Leave(c)
        BY <3>4 DEF Reload, Final, OpenBody, Leave
      <3> QED
        BY <1>3, <3>1, <3>2, <3>3, <3>4 DEF RequestStep
    <2> QED
      BY <1>1, <2>1
  <1>4. CASE \/ \E k \in Keys : Publish(k)
             \/ \E b \in deletes : DeleteOnce(b)
             \/ Tick
             \/ UNCHANGED vars
    BY <1>4 DEF Publish, DeleteOnce, Tick, vars
  <1> QED
    BY <1>2, <1>3, <1>4 DEF Next

\* Who adds to the storage, who takes scheduled deletions away, and what the
\* end of a put leaves behind.
LEMMA StoreSteps ==
    ASSUME IInv, [Next]_vars, ~Crash, {"commit_seen", "delete"} \cap Faults = {}
    PROVE  /\ \A b \in store' \ store : \E l \in Clients : Commit(l) /\ b = FlightBlob(l)
           /\ \A b \in deletes \ deletes' : b \notin store'
  <1>1. "commit_seen" \notin Faults /\ "delete" \notin Faults
    OBVIOUS
  <1>2. CASE \E c \in Clients : RequestStep(c) \/ \E k \in Keys : FetchMeta(c, k)
    <2>1. store' = store /\ deletes' = deletes
      BY <1>2 DEF RequestStep, FetchMeta, Hit, CheckNegative, Join, AfterError, Reload,
                  Final, OpenBody, Leave
    <2> QED
      BY <2>1
  <1>3. CASE \E l \in Clients : Commit(l)
    <2>1. PICK l \in Clients : Commit(l)
      BY <1>3
    <2>2. store' = store \cup {FlightBlob(l)} /\ deletes' = deletes
      BY <2>1 DEF Commit
    <2> QED
      BY <2>1, <2>2
  <1>4. CASE \E l \in Clients : FlightStep(l) /\ ~Commit(l)
    <2>1. store' = store
      BY <1>1, <1>4 DEF FlightStep, Recheck, Ask304, Ask200, AskFails, Extend, CommitFails,
                        PutMeta, PutMetaFails
    <2>2. deletes \subseteq deletes'
      BY <1>1, <1>4 DEF FlightStep, Recheck, Ask304, Ask200, AskFails, Extend, CommitFails,
                        PutMeta, PutMetaFails
    <2> QED
      BY <2>1, <2>2
  <1>5. CASE \E b \in deletes : DeleteOnce(b)
    BY <1>1, <1>5 DEF DeleteOnce
  <1>6. CASE (\E k \in Keys : Publish(k)) \/ Tick \/ UNCHANGED vars
    BY <1>6 DEF Publish, Tick, vars
  <1> QED
    BY <1>2, <1>3, <1>4, <1>5, <1>6 DEF Next

\* A leader whose reads do not fail keeps knowing the row it replaces: nobody
\* else moves that row.
LEMMA OldIsExactStep ==
    ASSUME IInv, OldIsExact, [Next]_vars, "index_read" \notin Faults
    PROVE  OldIsExact'
  <1> SUFFICES ASSUME NEW l \in Clients, flight'[l] # None, flight'[l].pc # "recheck"
               PROVE  flight'[l].old = index'[req'[l].key]
    BY DEF OldIsExact
  <1>1. /\ flight[l] # None /\ req'[l].key = req[l].key
        /\ FlightMoved(l)
        /\ flight'[l] # flight[l] => index' = index
    BY FlightSteps
  <1>2. CASE flight'[l] = flight[l]
    <2>1. flight[l].old = index[req[l].key]
      BY <1>1, <1>2 DEF OldIsExact
    <2>2. CASE index' # index
      <3>1. PICK m \in Clients, row \in Row :
              /\ flight[m] # None /\ index' = [index EXCEPT ![req[m].key] = row]
              /\ \E out : FlightReturns(m, row, out)
        BY <2>2, IndexSteps
      <3>2. flight \in [Clients -> Flight \cup {None}]
        BY DEF IInv, TypeOK
      <3>3. m # l
        BY <3>1, <3>2 DEF FlightReturns, FlightEnds
      <3>4. req[m].key # req[l].key
        BY <1>1, <3>1, <3>3 DEF IInv, SingleFlight
      <3>5. index \in [Keys -> Row \cup {None}] /\ req[l].key \in Keys
        BY RequestFields DEF IInv, TypeOK
      <3> QED
        BY <1>1, <1>2, <2>1, <3>1, <3>4, <3>5
    <2> QED
      BY <1>1, <1>2, <2>1, <2>2
  <1>3. CASE flight'[l] # flight[l]
    <2>1. flight[l].pc = "recheck" => flight'[l].old = index[req[l].key]
      BY <1>1, <1>3 DEF FlightMoved, IndexReads
    <2>2. flight[l].pc # "recheck" => flight'[l].old = index[req[l].key]
      BY <1>1, <1>3 DEF FlightMoved, OldIsExact
    <2> QED
      BY <1>1, <1>3, <2>1, <2>2
  <1> QED
    BY <1>2, <1>3

\* As long as the process lives and reads, deletes and commits tell the truth,
\* a failing PutObjectMeta and a replaced version leak nothing.
THEOREM NothingLeaks ==
    ASSUME {"index_read", "commit_seen", "delete"} \cap Faults = {}, MaxCrashes = 0
    PROVE  Spec => []NoOrphans
  <1> DEFINE OInv == IInv /\ OldIsExact /\ NoOrphans
  <1>1. Init => OInv
    <2>1. Init => OldIsExact /\ NoOrphans
      BY DEF Init, OldIsExact, NoOrphans
    <2> QED
      BY <2>1, InitInv
  <1>2. ASSUME OInv, [Next]_vars PROVE OInv'
    <2>1. "index_read" \notin Faults /\ {"commit_seen", "delete"} \cap Faults = {}
      OBVIOUS
    <2>2. ~Crash
      BY <1>2 DEF Crash, IInv, TypeOK
    <2>3. IInv' /\ OldIsExact'
      BY <1>2, <2>1, StepInv, OldIsExactStep
    <2>4. /\ \A b \in store' \ store : \E l \in Clients : Commit(l) /\ b = FlightBlob(l)
          /\ \A b \in deletes \ deletes' : b \notin store'
      BY <1>2, <2>1, <2>2, StoreSteps
    <2>5. ASSUME NEW b \in store'
          PROVE  \/ index'[b.key] # None /\ index'[b.key].blob = b
                 \/ b \in deletes'
                 \/ \E l \in Clients : /\ flight'[l] # None /\ flight'[l].pc = "put"
                                       /\ FlightBlob(l)' = b
      <3>1. CASE b \notin store
        <4>1. PICK l \in Clients : Commit(l) /\ b = FlightBlob(l)
          BY <2>4, <2>5, <3>1
        <4>2. /\ flight' = [flight EXCEPT ![l] = Phase("put", flight[l].old, flight[l].ver,
                                                       flight[l].n, flight[l].at)]
              /\ req' = req
          BY <4>1 DEF Commit
        <4>3. flight \in [Clients -> Flight \cup {None}]
          BY <1>2 DEF IInv, TypeOK
        <4>4. flight'[l] = Phase("put", flight[l].old, flight[l].ver, flight[l].n, flight[l].at)
          BY <4>2, <4>3
        <4>5. FlightBlob(l)' = FlightBlob(l) /\ flight'[l].pc = "put"
          BY <4>2, <4>4 DEF FlightBlob, Phase
        <4>6. flight'[l] # None
          <5>1. TypeOK /\ flight[l] # None
            BY <1>2, <4>1 DEF IInv, Commit
          <5>2. flight'[l] \in Flight
            BY <4>4, <5>1, FlightFields DEF Phase, Flight, FlightPcs
          <5> QED
            BY <5>2, NoneAssumption
        <4> QED
          BY <4>1, <4>5, <4>6
      <3>2. CASE b \in store /\ b \in deletes
        BY <2>4, <2>5, <3>2
      <3>3. CASE b \in store /\ index[b.key] # None /\ index[b.key].blob = b
        <4>1. index \in [Keys -> Row \cup {None}]
          BY <1>2 DEF IInv, TypeOK
        <4>2. CASE index' = index
          BY <3>3, <4>2
        <4>3. CASE index' # index
          <5>1. PICK l \in Clients, row \in Row :
                  /\ flight[l] # None /\ index' = [index EXCEPT ![req[l].key] = row]
                  /\ \/ index[req[l].key] # None /\ row.blob = index[req[l].key].blob
                     \/ /\ flight[l].pc = "put"
                        /\ deletes' = deletes \cup BytesOf(flight[l].old)
            BY <1>2, <4>3, IndexSteps
          <5>2. CASE b.key # req[l].key
            BY <3>3, <4>1, <5>1, <5>2
          <5>3. CASE b.key = req[l].key
            <6>1. req[l].key \in Keys
              BY <1>2, RequestFields DEF IInv
            <6>2. CASE row.blob = index[req[l].key].blob
              BY <3>3, <4>1, <5>1, <5>3, <6>1, <6>2, NoneAssumption
            <6>3. CASE flight[l].pc = "put" /\ deletes' = deletes \cup BytesOf(flight[l].old)
              <7>1. flight[l].old = index[b.key]
                BY <1>2, <5>1, <5>3, <6>3 DEF OldIsExact
              <7> QED
                BY <3>3, <6>3, <7>1 DEF BytesOf
            <6> QED
              BY <5>1, <6>2, <6>3
          <5> QED
            BY <5>2, <5>3
        <4> QED
          BY <4>2, <4>3
      <3>4. ASSUME NEW l \in Clients, flight[l] # None, flight[l].pc = "put", FlightBlob(l) = b
            PROVE  \/ index'[b.key] # None /\ index'[b.key].blob = b
                   \/ b \in deletes'
                   \/ /\ flight'[l] # None /\ flight'[l].pc = "put" /\ FlightBlob(l)' = b
        <4>1. CASE PutMeta(l)
          <5>1. index' = [index EXCEPT ![req[l].key] = NewRow(l)]
            BY <4>1 DEF PutMeta
          <5>2. index \in [Keys -> Row \cup {None}] /\ req[l].key \in Keys /\ clock + TTL \in Nat
            BY <1>2, RequestFields, CacheAssumption DEF IInv, TypeOK
          <5>3. NewRow(l) \in Row
            BY <1>2, <3>4, <5>2, FlightBlobType, FlightFields DEF IInv, NewRow, Row
          <5>4. NewRow(l).blob = b /\ b.key = req[l].key
            BY <3>4 DEF NewRow, FlightBlob
          <5> QED
            BY <5>1, <5>2, <5>3, <5>4, NoneAssumption
        <4>2. CASE PutMetaFails(l)
          BY <3>4, <4>2 DEF PutMetaFails, Unindexed
        <4>3. CASE flight'[l] = flight[l] /\ req'[l] = req[l]
          BY <3>4, <4>3 DEF FlightBlob
        <4> QED
          BY <1>2, <2>2, <3>4, <4>1, <4>2, <4>3, PutSteps
      <3> QED
        BY <1>2, <3>1, <3>2, <3>3, <3>4 DEF NoOrphans
    <2> QED
      BY <2>3, <2>5 DEF NoOrphans
  <1>3. OInv => NoOrphans
    OBVIOUS
  <1> QED
    BY <1>1, <1>2, <1>3, PTL DEF Spec

-----------------------------------------------------------------------------
(***************************************************************************)
(* The sweeper and the cache engine share the storage without a lock.      *)
(* These proofs show, for every number of clients and keys and every fault *)
(* that may happen, that a grace of a scan and a transfer is enough.       *)
(*                                                                         *)
(* An object the index names was in the snapshot of the pass, or it was    *)
(* written after it; then its leader had asked upstream at most a transfer *)
(* before the snapshot, and the clock of the pass was read at most a scan  *)
(* after it.                                                               *)
(***************************************************************************)

\* The numbers of a pass.
LEMMA SweepNumbers ==
    ASSUME SweepInv
    PROVE  /\ clock \in Nat /\ sweep.at \in Nat /\ sweep.at <= clock
           /\ Grace \in Nat /\ MaxScan \in Nat /\ MaxTransfer \in Nat
           /\ Grace >= MaxScan + MaxTransfer
           /\ \A k \in Keys : index[k] # None => index[k].blob.mtime \in Nat
  BY GraceAssumption, CacheAssumption DEF SweepInv, SnapshotCovered, IInv, TypeOK, Row, Blob

\* What a leader is writing is no older than a transfer.
LEMMA WrittenIsYoung ==
    ASSUME IInv, InTime, NEW l \in Clients, Writes(l)
    PROVE  FlightBlob(l).mtime \in Nat /\ clock <= FlightBlob(l).mtime + MaxTransfer
  BY FlightFields DEF IInv, InTime, Writes, FlightBlob

\* The invariant keeps what the index names and what is being written from
\* the pass.
LEMMA CoveredIsSpared == ASSUME SweepInv PROVE LiveNeverSwept
  <1> SUFFICES ASSUME sweep.pc = "list", NEW b \in Candidates
               PROVE  /\ \A k \in Keys : index[k] # None => index[k].blob # b
                      /\ \A l \in Clients : Writes(l) => FlightBlob(l) # b
    BY DEF LiveNeverSwept
  <1>1. b \notin sweep.live /\ b.mtime < sweep.at - Grace
    BY DEF Candidates, cacheOrphan
  <1>2. ASSUME NEW k \in Keys, index[k] # None, index[k].blob = b PROVE FALSE
    <2>1. sweep.at <= b.mtime + MaxTransfer + MaxScan
      BY <1>1, <1>2 DEF SweepInv, SnapshotCovered, NamedIsCovered
    <2>2. b.mtime \in Nat
      BY <1>2, SweepNumbers
    <2> QED
      BY <1>1, <2>1, <2>2, SweepNumbers
  <1>3. ASSUME NEW l \in Clients, Writes(l), FlightBlob(l) = b PROVE FALSE
    <2>1. b.mtime \in Nat /\ clock <= b.mtime + MaxTransfer
      BY <1>3, WrittenIsYoung DEF SweepInv
    <2> QED
      BY <1>1, <2>1, SweepNumbers
  <1> QED
    BY <1>2, <1>3

\* Rows that move while a pass is running remain covered by its snapshot or by
\* the grace.
LEMMA CoveredStays ==
    ASSUME SweepInv, [Next]_vars, sweep' = sweep, NEW slack \in Nat, NamedIsCovered(slack)
    PROVE  \A k \in Keys : index'[k] # None =>
              \/ index'[k].blob \in sweep.live
              \/ sweep.at <= index'[k].blob.mtime + MaxTransfer + slack
  <1> SUFFICES ASSUME NEW k \in Keys, index'[k] # None
               PROVE  \/ index'[k].blob \in sweep.live
                      \/ sweep.at <= index'[k].blob.mtime + MaxTransfer + slack
    OBVIOUS
  <1>1. index \in [Keys -> Row \cup {None}] /\ IInv /\ InTime
    BY DEF SweepInv, IInv, TypeOK
  <1>2. CASE index'[k] = index[k]
    BY <1>2 DEF NamedIsCovered
  <1>3. CASE index'[k] # index[k]
    <2>1. index' # index
      BY <1>3
    <2>2. PICK l \in Clients, row \in Row :
            /\ index' = [index EXCEPT ![req[l].key] = row]
            /\ \/ index[req[l].key] # None /\ row.blob = index[req[l].key].blob
               \/ Writes(l) /\ row.blob = FlightBlob(l)
      BY <1>1, <2>1, IndexSteps
    <2>3. k = req[l].key /\ index'[k] = row
      BY <1>1, <1>3, <2>2
    <2>4. CASE index[k] # None /\ row.blob = index[k].blob
      BY <2>3, <2>4 DEF NamedIsCovered
    <2>5. CASE Writes(l) /\ row.blob = FlightBlob(l)
      <3>1. row.blob.mtime \in Nat /\ clock <= row.blob.mtime + MaxTransfer
        BY <1>1, <2>5, WrittenIsYoung
      <3>2. sweep.at <= row.blob.mtime + MaxTransfer + slack
        BY <3>1, SweepNumbers
      <3> QED
        BY <2>3, <3>2
    <2> QED
      BY <2>2, <2>3, <2>4, <2>5
  <1> QED
    BY <1>2, <1>3

\* The steps of the engine keep a pass covered; a restart ends it.
LEMMA EngineKeepsSweepInv == ASSUME SweepInv, EngineStep PROVE SweepInv'
  <1>1. IInv /\ InTime /\ [Next]_vars
    BY DEF SweepInv, EngineStep
  <1>2. IInv' /\ InTime' /\ clock' \in Nat /\ clock <= clock'
    BY <1>1, StepInv, InTimeStep, ClockForward
  <1>3. CASE sweep' = NoSweep
    <2>1. sweep'.pc = "idle" /\ sweep'.at = 0
      BY <1>3 DEF NoSweep
    <2>2. 0 <= clock'
      BY <1>2
    <2> QED
      BY <1>2, <2>1, <2>2 DEF SweepInv, SnapshotCovered
  <1>4. CASE sweep' = sweep
    <2>1. /\ sweep'.pc \in {"idle", "scan", "list"} /\ sweep'.at \in Nat
          /\ sweep'.at <= clock'
      BY <1>2, <1>4, SweepNumbers DEF SweepInv, SnapshotCovered
    <2>2. sweep.pc = "scan" => clock' <= sweep.at + MaxScan
      <3>1. CASE clock' = clock
        BY <3>1 DEF SweepInv, SnapshotCovered
      <3>2. CASE Tick /\ clock' # clock
        BY <3>2, SweepNumbers DEF Tick, EngineStep
      <3> QED
        BY <1>1, <3>1, <3>2, ClockSteps
    <2>3. sweep.pc = "scan" => NamedIsCovered(0)'
      <3>1. ASSUME sweep.pc = "scan" PROVE NamedIsCovered(0)
        BY <3>1 DEF SweepInv, SnapshotCovered
      <3> QED
        BY <1>1, <1>4, <3>1, CoveredStays DEF NamedIsCovered
    <2>4. sweep.pc = "list" => NamedIsCovered(MaxScan)'
      <3>1. ASSUME sweep.pc = "list" PROVE NamedIsCovered(MaxScan)
        BY <3>1 DEF SweepInv, SnapshotCovered
      <3> QED
        BY <1>1, <1>4, <3>1, CoveredStays, SweepNumbers DEF NamedIsCovered
    <2> QED
      BY <1>2, <1>4, <2>1, <2>2, <2>3, <2>4 DEF SweepInv, SnapshotCovered
  <1> QED
    BY <1>3, <1>4 DEF EngineStep

\* The steps of a pass that delete nothing: the snapshot covers the index as it
\* is, and the clock is read in time.
LEMMA PassKeepsSweepInv ==
    ASSUME SweepInv, SweepIndex \/ SweepNow \/ SweepEnd \/ SweepAborts
    PROVE  SweepInv'
  <1>1. UNCHANGED vars
    BY DEF SweepIndex, SweepNow, SweepEnd, SweepAborts
  <1>2. IInv' /\ InTime' /\ clock' = clock /\ index' = index
    <2>1. [Next]_vars /\ IInv /\ InTime
      BY <1>1 DEF SweepInv
    <2> QED
      BY <1>1, <2>1, StepInv, InTimeStep DEF vars
  <1>3. CASE SweepIndex
    <2>1. sweep' = [sweep EXCEPT !.pc = "scan", !.keys = IndexedKeys, !.at = clock,
                                 !.live = LiveObjects]
      BY <1>3 DEF SweepIndex
    <2>2. sweep'.pc = "scan" /\ sweep'.at = clock /\ sweep'.live = LiveObjects
      BY <2>1
    <2>3. clock <= clock /\ clock <= clock + MaxScan
      BY SweepNumbers
    <2>4. NamedIsCovered(0)'
      BY <1>2, <2>2 DEF NamedIsCovered, LiveObjects, IndexedKeys
    <2> QED
      BY <1>2, <2>2, <2>3, <2>4, SweepNumbers DEF SweepInv, SnapshotCovered
  <1>4. CASE SweepNow
    <2>1. sweep' = [sweep EXCEPT !.pc = "list", !.at = clock, !.todo =
                      {b \in store : cacheOrphan(b, sweep.live, sweep.keys, clock)}]
      BY <1>4 DEF SweepNow
    <2>2. sweep'.pc = "list" /\ sweep'.at = clock /\ sweep'.live = sweep.live
      BY <2>1
    <2>3. clock <= sweep.at + MaxScan /\ NamedIsCovered(0)
      BY <1>4 DEF SweepNow, SweepInv, SnapshotCovered
    <2>4. ASSUME NEW k \in Keys, index[k] # None
          PROVE  index[k].blob \in sweep.live \/ clock <= index[k].blob.mtime + MaxTransfer + MaxScan
      <3>1. \/ index[k].blob \in sweep.live
            \/ sweep.at <= index[k].blob.mtime + MaxTransfer + 0
        BY <2>3, <2>4 DEF NamedIsCovered
      <3>2. index[k].blob.mtime \in Nat
        BY <2>4, SweepNumbers
      <3> QED
        BY <2>3, <3>1, <3>2, SweepNumbers
    <2>5. NamedIsCovered(MaxScan)'
      BY <1>2, <2>2, <2>4 DEF NamedIsCovered
    <2>6. clock <= clock
      BY SweepNumbers
    <2> QED
      BY <1>2, <2>2, <2>5, <2>6, SweepNumbers DEF SweepInv, SnapshotCovered
  <1>5. CASE SweepEnd \/ SweepAborts
    <2>1. sweep'.pc = "idle" /\ sweep'.at = 0
      BY <1>5 DEF SweepEnd, SweepAborts, NoSweep
    <2>2. 0 <= clock
      BY SweepNumbers
    <2> QED
      BY <1>2, <2>1, <2>2 DEF SweepInv, SnapshotCovered
  <1> QED
    BY <1>3, <1>4, <1>5

\* A deletion of the pass takes nothing from the engine: what it removes is
\* neither named by the index nor being written.
LEMMA DeleteKeepsSweepInv ==
    ASSUME SweepInv, NEW b, SweepDelete(b)
    PROVE  SweepInv'
  <1>1. /\ store' = store \/ store' = store \ {b}
        /\ UNCHANGED <<clock, pub, index, seq, negative, flight, req, deletes, crashes>>
        /\ sweep.pc = "list" /\ b \in Candidates
    BY DEF SweepDelete
  <1>2. /\ \A k \in Keys : index[k] # None => index[k].blob # b
        /\ \A l \in Clients : Writes(l) => FlightBlob(l) # b
    BY <1>1, CoveredIsSpared DEF LiveNeverSwept
  <1>3. sweep'.pc = sweep.pc /\ sweep'.at = sweep.at /\ sweep'.live = sweep.live
    BY DEF SweepDelete
  <1>4. SnapshotCovered' /\ InTime'
    BY <1>1, <1>3 DEF SweepInv, SnapshotCovered, NamedIsCovered, InTime
  <1>5. TypeOK'
    BY <1>1 DEF SweepInv, IInv, TypeOK
  <1>6. IndexedBytesStored'
    BY <1>1, <1>2 DEF SweepInv, IInv, IndexedBytesStored
  <1>7. SingleFlight' /\ OldIsIndexed' /\ VersionsOrdered'
    BY <1>1 DEF SweepInv, IInv, SingleFlight, OldIsIndexed, VersionsOrdered, Writes, Ver
  <1>8. NumbersUsed'
    BY <1>1 DEF SweepInv, IInv, NumbersUsed
  <1>9. RowsKnown'
    BY <1>1 DEF SweepInv, IInv, RowsKnown, ReplyDescribesBytes
  <1>10. WrittenIsPrivate'
    <2>1. \A l \in Clients : FlightBlob(l)' = FlightBlob(l) /\ (Writes(l)' <=> Writes(l))
      BY <1>1 DEF FlightBlob, Writes
    <2> QED
      BY <1>1, <1>2, <2>1 DEF SweepInv, IInv, WrittenIsPrivate, Writes
  <1> QED
    BY <1>4, <1>5, <1>6, <1>7, <1>8, <1>9, <1>10 DEF SweepInv, IInv

\* The engine and the sweeper preserve the invariant together.
THEOREM SweepInvariance == SweepSpec => []SweepInv
  <1>1. SweepInit => SweepInv
    <2> SUFFICES ASSUME SweepInit PROVE SweepInv
      OBVIOUS
    <2>1. IInv /\ InTime
      BY InitInv DEF SweepInit, Init, InTime
    <2>2. sweep.pc = "idle" /\ sweep.at = 0 /\ clock = 0
      BY DEF SweepInit, Init, NoSweep
    <2> QED
      BY <2>1, <2>2 DEF SweepInv, SnapshotCovered
  <1>2. ASSUME SweepInv, [SweepNext]_allVars PROVE SweepInv'
    <2>1. CASE EngineStep
      BY <1>2, <2>1, EngineKeepsSweepInv
    <2>2. CASE SweepIndex \/ SweepNow \/ SweepEnd \/ SweepAborts
      BY <1>2, <2>2, PassKeepsSweepInv
    <2>3. CASE \E b \in store : SweepDelete(b)
      BY <1>2, <2>3, DeleteKeepsSweepInv
    <2>4. CASE UNCHANGED allVars
      BY <1>2, <2>4 DEF allVars, vars, SweepInv, SnapshotCovered, NamedIsCovered, InTime, IInv,
            TypeOK, IndexedBytesStored, SingleFlight, OldIsIndexed, NumbersUsed,
            WrittenIsPrivate, RowsKnown, ReplyDescribesBytes, VersionsOrdered, Writes, FlightBlob, Ver
    <2> QED
      BY <1>2, <2>1, <2>2, <2>3, <2>4 DEF SweepNext, SweepStep
  <1> QED
    BY <1>1, <1>2, PTL DEF SweepSpec

\* A pass never meets an orphan that the index names or that a leader is about
\* to put into the index: Sweep's grace covers every version it cannot know.
THEOREM SweepSparesLive == SweepSpec => []LiveNeverSwept
  <1>1. SweepInv => LiveNeverSwept
    BY CoveredIsSpared
  <1> QED
    BY <1>1, SweepInvariance, PTL

\* With the sweeper beside it the index of the engine still never dangles.
THEOREM SweptIndexNeverDangles == SweepSpec => []IndexedBytesStored
  <1>1. SweepInv => IndexedBytesStored
    BY DEF SweepInv, IInv
  <1> QED
    BY <1>1, SweepInvariance, PTL
=============================================================================
