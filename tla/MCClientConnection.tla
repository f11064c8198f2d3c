------------------------- MODULE MCClientConnection -------------------------
(***************************************************************************)
(* The instance of ClientConnection: an owner with up to three requests or *)
(* upgrades, who drops the connection at any time.                         *)
(***************************************************************************)
EXTENDS ClientConnection
=============================================================================
