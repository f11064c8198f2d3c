------------------------- MODULE MCSessionConnection -------------------------
(***************************************************************************)
(* Instances of SessionConnection for the handler classes of the server:   *)
(* http_handler, with two names, and a handler without websockets, which   *)
(* has no session.  The pusher of ws_only_handler needs its thread: see    *)
(* MCPushConnection.                                                       *)
(***************************************************************************)
EXTENDS SessionConnection
=============================================================================
