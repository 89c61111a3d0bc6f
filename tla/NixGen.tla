-------------------------------- MODULE NixGen ---------------------------------
(* The nix publisher (mod/ecosystem/nix/publish.go): there is no index,    *)
(* each .narinfo is rewritten in place with the signature of the instance. *)
EXTENDS RepoObjects

\* A narinfo that parses and whose URL names a nar.
WantNar(o) == o.rev \notin Broken
ParseNarinfo(p, o) == IF WantNar(o) THEN {<<p, o.rev>>} ELSE {}

\* The narinfo just read is written back without foreign signatures and with
\* ours, unless that changes nothing.
resignNarinfo(p, o) == IF o.own THEN << >> ELSE << Resign(p, o.rev) >>

\* A client takes a narinfo whose signature is ours.
Index(pool) == {<<p, pool[p].rev>> : p \in {q \in DOMAIN pool : pool[q].own}}
=============================================================================
