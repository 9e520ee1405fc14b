----------------------------- MODULE MCWorkflow -----------------------------
(***************************************************************************)
(* Workflow for TLC.  Agents and processes are interchangeable.            *)
(***************************************************************************)
EXTENDS Workflow, TLC

MCSymmetry == Permutations(Agents) \cup Permutations(Procs)
=============================================================================
