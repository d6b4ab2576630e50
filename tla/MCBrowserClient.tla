------------------------------ MODULE MCBrowserClient ------------------------------
(***************************************************************************)
(* The instance of BrowserClient for TLC; its bounds are in Browser.cfg.   *)
(***************************************************************************)
EXTENDS BrowserClient
====================================================================================
