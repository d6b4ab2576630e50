-------------------------- MODULE MCCloudOrchestrator --------------------------
(***************************************************************************)
(* Instances of CloudOrchestrator for TLC.                                 *)
(***************************************************************************)
EXTENDS OrchestratorRefinement, TLC

\* Sound for the safety runs: no definition tells identifiers apart.
Symmetry == Permutations(Ops) \cup Permutations(Tasks) \cup Permutations(Cancelers)
================================================================================
