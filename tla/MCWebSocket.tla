----------------------------- MODULE MCWebSocket ----------------------------
(* One client, one server; see the .cfg files.                             *)
EXTENDS WebSocket
=============================================================================
