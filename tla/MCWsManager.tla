----------------------------- MODULE MCWsManager -----------------------------
(* Instance of WsManager for TLC.                                          *)
EXTENDS WsManager
=============================================================================
