------------------------------ MODULE MCEventStream ------------------------------
(***************************************************************************)
(* The instance of EventStream for TLC; its bounds are in Events.cfg.      *)
(***************************************************************************)
EXTENDS EventStream
==================================================================================
