---------------------------- MODULE MCKnownServers ----------------------------
(* An instance of KnownServers: a busy server and an idle one. *)
EXTENDS KnownServers, TLC

CONSTANTS s1, s2, k1, k2

MCKey == s1 :> k1 @@ s2 :> k2
MCAccepts == s1 :> 1 @@ s2 :> 0
=============================================================================
