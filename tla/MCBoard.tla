------------------------------ MODULE MCBoard ------------------------------
(***************************************************************************)
(* Two repositories with one agent each: stl commands and mesh syncs in    *)
(* the first, a server in the second.                                      *)
(***************************************************************************)
EXTENDS Board

MCHome == [p \in Proc |-> IF p = "codex" THEN "here" ELSE "there"]
=============================================================================
