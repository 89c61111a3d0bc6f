------------------------------ MODULE StorageDisk ------------------------------
(***************************************************************************)
(* The state of a storage backend, and what a call keeps while it runs     *)
(* (mod/storage).  A content is a number that is also its size.            *)
(***************************************************************************)
EXTENDS Integers, FiniteSets

CONSTANTS
    Keys, Contents, Clients,
    MaxCalls,   \* bound: calls
    MaxFaults   \* bound: failures of the medium and crashes

\* Keys are numbered in the order in which a listing meets them.
ASSUME StorageAssumption ==
    /\ IsFiniteSet(Keys) /\ Keys = 1 .. Cardinality(Keys)
    /\ Contents \subseteq Nat \ {0} /\ Contents # {}
    /\ MaxCalls \in Nat /\ MaxFaults \in Nat

Nothing == 0
Torn == -1   \* bytes that were never flushed, after a power loss
NoCall == [op |-> "none", key |-> 0, val |-> 0, st |-> "none", ret |-> "none", out |-> {},
           pc |-> "idle", got |-> 0]

VARIABLES
    driver,   \* "fs", "s3" or "fake"
    objs,     \* what is visible under each key
    may,      \* what each key may hold after a power loss
    call,
    synced,   \* the clients whose temporary file has been flushed
    tmp,      \* the clients whose temporary file exists
    litter,   \* temporary files left by a crash or a failed removal
    up, count, faults, during

diskVars == <<driver, objs, may, call, synced, tmp, litter, up, count, faults, during>>

Goes(c, pc) == call' = [call EXCEPT ![c].pc = pc]
Returns(c, ret, out) == call' = [call EXCEPT ![c].pc = "back", ![c].ret = ret, ![c].out = out]
Fault == faults < MaxFaults /\ faults' = faults + 1

\* An object changes in the directory; stable tells whether it is on the disk.
Visible(c, k, new, stable) ==
    /\ objs' = [objs EXCEPT ![k] = new]
    /\ may' = [may EXCEPT ![k] = IF stable THEN {new} ELSE @ \cup {new}]
=============================================================================
