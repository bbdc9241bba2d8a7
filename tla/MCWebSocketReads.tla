--------------------------- MODULE MCWebSocketReads ---------------------------
(* WebSocketReads for TLC: a buffer of a few bytes. *)
EXTENDS WebSocketReads
===============================================================================
