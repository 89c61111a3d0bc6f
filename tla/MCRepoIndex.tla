------------------------------ MODULE MCRepoIndex ------------------------------
(* Two versions of one package for amd64, the second in the directory of   *)
(* another architecture, one of the same name for arm64, and a package     *)
(* for all.                                                                *)
EXTENDS RepoIndex

MCPkgs == 1 .. 4
MCFamily == <<"a", "a", "a", "c">>
MCVersion == <<1, 2, 1, 1>>
MCArch == <<"amd64", "amd64", "arm64", "all">>
MCDir == <<"amd64", "arm64", "arm64", "all">>
=============================================================================
