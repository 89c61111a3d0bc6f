CONSTANTS
    Jtis = {j1, j2}
    Toks = {t1}
    Requests = {r1, r2}
    Passwords = {p1, p2}
    NoPassword = NoPassword
    TTL = 1
    TouchInterval = 1
    MaxMem = 1
    MaxTouch = 1
    MaxCalls = 4
    MaxClock = 3
    MaxVersion = 3
    MaxFaults = 1
SPECIFICATION Spec
SYMMETRY Symmetry
PROPERTIES  ChangeEndsSessions RefusedForCause
CHECK_DEADLOCK FALSE
