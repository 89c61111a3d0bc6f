SPECIFICATION IndexSpec
CONSTANTS
    Pkgs <- MCPkgs
    Family <- MCFamily
    Version <- MCVersion
    Arch <- MCArch
    Dir <- MCDir
    Revs = {1, 2}
    Broken = {2}
    Ecosystems = {"apt", "rpm-md", "pacman", "apk", "xbps", "nix"}
    Signers = {TRUE, FALSE}
    Runners = {g1}
    MaxRuns = 3
    MaxEdits = 3
CHECK_DEADLOCK FALSE
INVARIANTS IndexComplete IndexNamesStored IndexVerifies TwoGenerations

