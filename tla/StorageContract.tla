---------------------------- MODULE StorageContract ----------------------------
(***************************************************************************)
(* What port.Storage promises, whatever the medium: an object changes at   *)
(* once or not at all, at some moment of the call; a call that returned    *)
(* without an error has had its effect, and a Commit that returned         *)
(* survives a power loss; a listing that ended without an error misses     *)
(* nothing that was there all the time.                                    *)
(***************************************************************************)
EXTENDS Integers

CONSTANTS Keys, Contents, Clients

Nothing == 0
NoCall == [op |-> "none", key |-> 0, val |-> 0, st |-> "none", ret |-> "none", out |-> {}]

VARIABLES
    objects,  \* the content of each key, Nothing when it is absent
    undo,     \* what a key may fall back to when the power is lost
    calls,    \* the calls in progress
    during    \* the contents each key has had during each call

contractVars == <<objects, undo, calls, during>>

Init ==
    /\ objects = [k \in Keys |-> Nothing]
    /\ undo = [k \in Keys |-> {}]
    /\ calls = [c \in Clients |-> NoCall]
    /\ during = [c \in Clients |-> [k \in Keys |-> {}]]

Track ==
    during' = [c \in Clients |-> [k \in Keys |->
        IF calls'[c].op = "none" THEN {}
        ELSE IF calls[c].op = "none" THEN {objects'[k]} ELSE during[c][k] \cup {objects'[k]}]]

Call(c) ==
    /\ calls[c] = NoCall
    /\ \E op \in {"put", "get", "range", "delete", "list"}, k \in Keys, v \in Contents :
          calls' = [calls EXCEPT ![c] = [NoCall EXCEPT !.op = op, !.key = k, !.val = v, !.st = "run"]]
    /\ UNCHANGED <<objects, undo>>

\* The object changes; it may be on stable storage at once or later.
Effect(c) ==
    LET k == calls[c].key
        new == IF calls[c].op = "put" THEN calls[c].val ELSE Nothing
    IN  /\ calls[c].op \in {"put", "delete"} /\ calls[c].st = "run"
        /\ objects' = [objects EXCEPT ![k] = new]
        /\ \E durable \in BOOLEAN :
              /\ undo' = [undo EXCEPT ![k] = IF durable THEN {} ELSE (@ \cup {objects[k]}) \ {new}]
              /\ calls' = [calls EXCEPT ![c].st = IF durable THEN "durable" ELSE "done"]

\* What is there becomes stable, for this key and maybe for others.
Settles(c) ==
    /\ calls[c].op = "put" /\ calls[c].st = "done"
    /\ calls' = [calls EXCEPT ![c].st = "durable"]
    /\ undo' \in [Keys -> {{}} \cup {undo[k] : k \in Keys}]
    /\ \A k \in Keys : undo'[k] \in {{}, undo[k]}
    /\ undo'[calls[c].key] = {}
    /\ UNCHANGED objects

\* The answers that are correct, given what was there during the call.
Correct(c, ret, out) ==
    LET seen == during[c][calls[c].key] IN
    CASE calls[c].op = "put" -> ret = "ok" /\ calls[c].st = "durable" /\ out = {}
      [] calls[c].op = "get" -> \/ ret = "ok" /\ \E v \in seen \ {Nothing} : out = {v}
                                \/ ret = "notfound" /\ Nothing \in seen /\ out = {}
      [] calls[c].op = "range" -> \/ ret = "ok" /\ \E v \in seen \ {Nothing} : v >= calls[c].val /\ out = {v}
                                  \/ ret = "invalid" /\ (\E v \in seen : v < calls[c].val) /\ out = {}
                                  \/ ret = "short" /\ (\E v, w \in seen : v # w) /\ out = {}
                                  \/ ret = "notfound" /\ Nothing \in seen /\ out = {}
      [] calls[c].op = "delete" -> \/ ret = "ok" /\ Nothing \in seen /\ seen # {Nothing} /\ out = {}
                                   \/ ret = "notfound" /\ Nothing \in seen /\ out = {}
      [] OTHER -> /\ ret = "ok"
                  /\ {k \in Keys : Nothing \notin during[c][k]} \subseteq out
                  /\ out \subseteq {k \in Keys : during[c][k] # {Nothing}}

Return(c) ==
    /\ calls[c].op # "none" /\ calls[c].ret = "none"
    /\ \E ret \in {"ok", "notfound", "invalid", "short", "error"} :
       \E out \in {{}} \cup {{v} : v \in Contents} \cup SUBSET Keys :
          /\ IF ret = "error" THEN out = {} ELSE Correct(c, ret, out)
          /\ calls' = [calls EXCEPT ![c].ret = ret, ![c].out = out]
    /\ UNCHANGED <<objects, undo>>

Leave(c) ==
    /\ calls[c].ret # "none"
    /\ calls' = [calls EXCEPT ![c] = NoCall]
    /\ UNCHANGED <<objects, undo>>

\* The process dies; with the power, what was not stable may be undone.
Crash ==
    /\ calls' = [c \in Clients |-> NoCall]
    /\ \/ UNCHANGED <<objects, undo>>
       \/ /\ objects' \in [Keys -> {Nothing} \cup Contents]
          /\ \A k \in Keys : objects'[k] \in {objects[k]} \cup undo[k]
          /\ undo' = [k \in Keys |-> {}]

Next == ((\E c \in Clients : Call(c) \/ Effect(c) \/ Settles(c) \/ Return(c) \/ Leave(c)) \/ Crash) /\ Track

Spec == Init /\ [][Next]_contractVars
=============================================================================
