-------------------------- MODULE MCCloudWorkflow --------------------------
(***************************************************************************)
(* CloudWorkflow for TLC: agents and processes are interchangeable.        *)
(***************************************************************************)
EXTENDS CloudWorkflow, TLC

MCSymmetry == Permutations(Agents) \cup Permutations(Procs)
=============================================================================
