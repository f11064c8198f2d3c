------------------------------ MODULE MCServers ------------------------------
(* Two processes on ports of their own, with the ports of the source.      *)
EXTENDS Servers

MCPort == [s \in Processes |->
             [a \in Acceptors |-> IF a = "http" THEN s ELSE a]]
MCPorts == Processes \cup Acceptors
=============================================================================
