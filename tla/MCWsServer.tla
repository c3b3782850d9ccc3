----------------------------- MODULE MCWsServer -----------------------------
(* WsServer for TLC: the page may not use the third port.                  *)
EXTENDS WsServer

MCRestricted == {3}
=============================================================================
