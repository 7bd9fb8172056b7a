--------------------------- MODULE MCWebSocketHub ---------------------------
(* A small instance of WebSocketHub. *)
EXTENDS WebSocketHub

CONSTANTS c1, c2
=============================================================================
