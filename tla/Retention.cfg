SPECIFICATION Spec
CONSTANTS
    Pkgs <- MCPkgs
    Family <- MCFamily
    Version <- MCVersion
    Arch <- MCArch
    Dir <- MCDir
    Revs = {1, 2}
    Broken = {}
    Ecosystems = {"rpm-md"}
    Signers = {FALSE}
    Runners = {p1}
    Passes = {p1}
    Policies <- MCPolicies
    MaxRuns = 0
    MaxEdits = 2
    Uploaded <- MCUploaded
    MaxKeys = 1
    MaxClock = 3
    MaxFaults = 1
INVARIANTS MarksKept 
PROPERTIES SparesProtected
CHECK_DEADLOCK FALSE
