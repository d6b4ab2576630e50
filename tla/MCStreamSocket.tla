------------------------------ MODULE MCStreamSocket ------------------------------
(***************************************************************************)
(* The instance of StreamSocket for TLC; its bounds are in Socket.cfg.     *)
(***************************************************************************)
EXTENDS StreamSocket
===================================================================================
