------------------------------ MODULE MCControlPlane ------------------------------
(***************************************************************************)
(* The instance of ControlPlane for TLC; its bounds are in Control.cfg.    *)
(* Requests, keys and callers are interchangeable.                         *)
(***************************************************************************)
EXTENDS ControlPlane, TLC

Symmetry == Permutations(Requests) \cup Permutations(Keys) \cup Permutations(Callers)
===================================================================================
