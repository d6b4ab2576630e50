---------------------------- MODULE MCSessionRuntime ----------------------------
(***************************************************************************)
(* Instances of SessionRuntime for TLC.                                    *)
(***************************************************************************)
EXTENDS SessionRuntime, TLC

\* Sound for the safety runs: no definition tells identifiers apart.
Symmetry == Permutations(Ops) \cup Permutations(Turns) \cup Permutations(Callers)
==================================================================================
