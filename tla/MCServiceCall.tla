---------------------------- MODULE MCServiceCall ----------------------------
(***************************************************************************)
(* The instance of ServiceCall: a few calls, patient or overlapping, while *)
(* the page's websocket is replaced.                                       *)
(***************************************************************************)
EXTENDS ServiceCall
=============================================================================
