-------------------------- MODULE MCSessionManager --------------------------
(* SessionManager for TLC.                                                 *)
EXTENDS SessionManager
=============================================================================
