SPECIFICATION Spec
CONSTANTS
    Keys = {1, 2}
    Contents = {1, 2}
    Clients = {c1, c2}
    MaxCalls = 3
    MaxFaults = 2
SYMMETRY ClientSymmetry
INVARIANTS TmpHasWriter
 
CHECK_DEADLOCK FALSE
