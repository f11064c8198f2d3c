-------------------------- MODULE MCPushConnection --------------------------
(***************************************************************************)
(* The instance of PushConnection for ws_only_handler, which only pushes.  *)
(***************************************************************************)
EXTENDS PushConnection
=============================================================================
