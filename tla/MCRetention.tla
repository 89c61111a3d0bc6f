------------------------------ MODULE MCRetention ------------------------------
(* Versions of one package, under a policy that keeps the latest and one   *)
(* that keeps two and what was downloaded lately.                          *)
EXTENDS Retention

MCPkgs == 1 .. 3
MCFamily == [p \in MCPkgs |-> "a"]
MCVersion == [p \in MCPkgs |-> p]
MCArch == [p \in MCPkgs |-> "amd64"]
MCDir == MCArch
MCUploaded == <<2, 1, 2>>
MCPolicies == {[min |-> 1, age |-> 0], [min |-> 2, age |-> 1], [min |-> 0, age |-> 0]}
=============================================================================
