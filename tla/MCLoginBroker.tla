------------------------------ MODULE MCLoginBroker ------------------------------
(***************************************************************************)
(* The instance of LoginBroker for TLC; its bounds are in the Login cfgs.  *)
(***************************************************************************)
EXTENDS LoginBroker
==================================================================================
