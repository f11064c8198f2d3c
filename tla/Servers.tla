------------------------------- MODULE Servers -------------------------------
(***************************************************************************)
(* The processes of one host.  Each runs native-2-web-server.cpp's main:   *)
(* three coroutines accept connections, for http_handler on a port of the  *)
(* command line, for dummy_handler and ws_only_handler on ports of the     *)
(* source.  A process is started by hand or by the service spawn_server of *)
(* another, and stopped by a signal or by the service stop_server.         *)
(*                                                                         *)
(* The threads of the io_service are not told apart: a coroutine that is   *)
(* not waiting goes on whenever it can, even after the io_service was      *)
(* stopped, since a handler that has begun is not interrupted; but after   *)
(* the stop no handler begins.                                             *)
(***************************************************************************)
EXTENDS Integers, FiniteSets

CONSTANTS
  Processes,
  First,                \* the one that is started by hand
  Acceptors,            \* the calls of accept<Handler>
  Reporting,            \* those whose handler reports
  Ports,
  Port,                 \* of each process and acceptor
  MaxFiles              \* sockets that a process may open (RLIMIT_NOFILE)

ASSUME ServersAssumption ==
  /\ First \in Processes
  /\ Reporting \subseteq Acceptors
  /\ Port \in [Processes -> [Acceptors -> Ports]]
  /\ MaxFiles \in Nat

VARIABLES
  phase,                \* of each process
  acceptor,             \* where each coroutine is
  live,                 \* how many connections each has accepted
  connections,          \* stats.connections of each process
  failed,               \* failed accepts that were reported (history)
  short,                \* the acceptors that got no descriptor (history)
  listened              \* those whose socket ever listened (history)

vars == <<phase, acceptor, live, connections, failed, short, listened>>

history == <<short, listened>>

Init ==
  /\ phase = [s \in Processes |-> IF s = First THEN "running" ELSE "none"]
  /\ acceptor = [s \in Processes |-> [a \in Acceptors |-> "spawned"]]
  /\ live = [s \in Processes |-> [a \in Acceptors |-> 0]]
  /\ connections = [s \in Processes |-> 0]
  /\ failed = [s \in Processes |-> 0]
  /\ short = {}
  /\ listened = {}

Begins(s) == phase[s] = "running"
Lives(s) == phase[s] \in {"running", "stopped"}

\* A socket that listens, and one that was accepted.
Listens(s, a) == Lives(s) /\ acceptor[s][a] \in {"accepting", "accepted"}
Taken(port) == \E s \in Processes, a \in Acceptors :
                 Listens(s, a) /\ Port[s][a] = port

\* What is counted, one by one.
Each(count) == UNION {{a} \X (1 .. count[a]) : a \in DOMAIN count}

Files(s) ==
  Cardinality({a \in Acceptors : acceptor[s][a] \notin {"spawned", "ended"}})
    + Cardinality(Each(live[s]))

Goto(s, a, there) == acceptor' = [acceptor EXCEPT ![s][a] = there]

-----------------------------------------------------------------------------
(* A coroutine of accept<Handler>.                                         *)

\* Its first handler: the socket is opened.
Open(s, a) ==
  /\ Begins(s)
  /\ acceptor[s][a] = "spawned"
  /\ IF Files(s) < MaxFiles
     THEN Goto(s, a, "opened") /\ UNCHANGED short
     ELSE Goto(s, a, "ended") /\ short' = short \cup {<<s, a>>}
  /\ UNCHANGED <<phase, live, connections, failed, listened>>

\* Mutant: without reuse_address, a port is bound once.
BindAlone(s, a) ==
  /\ Lives(s)
  /\ acceptor[s][a] = "opened"
  /\ Goto(s, a, IF \E t \in Processes, b \in Acceptors :
                     /\ Lives(t) /\ Port[t][b] = Port[s][a]
                     /\ acceptor[t][b] \in {"bound", "accepting", "accepted"}
                  THEN "ended" ELSE "bound")
  /\ UNCHANGED <<phase, live, connections, failed, history>>

\* With reuse_address a port can be bound twice, unless one listens already.
Bind(s, a) ==
  /\ Lives(s)
  /\ acceptor[s][a] = "opened"
  /\ Goto(s, a, IF Taken(Port[s][a]) THEN "ended" ELSE "bound")
  /\ UNCHANGED <<phase, live, connections, failed, history>>

Listen(s, a) ==
  /\ Lives(s)
  /\ acceptor[s][a] = "bound"
  /\ IF Taken(Port[s][a])
     THEN Goto(s, a, "ended") /\ UNCHANGED listened
     ELSE Goto(s, a, "accepting") /\ listened' = listened \cup {<<s, a>>}
  /\ UNCHANGED <<phase, live, connections, failed, short>>

\* async_accept completes.
Accept(s, a) ==
  /\ Begins(s)
  /\ acceptor[s][a] = "accepting"
  /\ Files(s) < MaxFiles
  /\ live' = [live EXCEPT ![s][a] = @ + 1]
  /\ Goto(s, a, "accepted")
  /\ UNCHANGED <<phase, connections, failed, history>>

\* Mutant: a connection is made when there is a socket for it.
AcceptFailsUncounted(s, a) ==
  /\ Begins(s)
  /\ acceptor[s][a] = "accepting"
  /\ Files(s) = MaxFiles
  /\ Goto(s, a, "ended")
  /\ short' = short \cup {<<s, a>>}
  /\ failed' = [failed EXCEPT ![s] = @ + IF a \in Reporting THEN 1 ELSE 0]
  /\ UNCHANGED <<phase, live, connections, listened>>

\* It fails, for want of a descriptor: the loop is left, and the connection
\* that was made for it reports that it is closed.
AcceptFails(s, a) ==
  /\ Begins(s)
  /\ acceptor[s][a] = "accepting"
  /\ Files(s) = MaxFiles
  /\ Goto(s, a, "ended")
  /\ short' = short \cup {<<s, a>>}
  /\ IF a \in Reporting
     THEN /\ connections' = [connections EXCEPT ![s] = @ - 1]
          /\ failed' = [failed EXCEPT ![s] = @ + 1]
     ELSE UNCHANGED <<connections, failed>>
  /\ UNCHANGED <<phase, live, listened>>

\* report_accept, and the connection is served by a coroutine of its own.
Serve(s, a) ==
  /\ Lives(s)
  /\ acceptor[s][a] = "accepted"
  /\ connections' =
       [connections EXCEPT ![s] = @ + IF a \in Reporting THEN 1 ELSE 0]
  /\ Goto(s, a, "accepting")
  /\ UNCHANGED <<phase, live, failed, history>>

\* Served: the connections that are not in the hands of accept.
Served(s, a) == live[s][a] - IF acceptor[s][a] = "accepted" THEN 1 ELSE 0

\* The coroutines of a connection are done with it.
Destroy(s, a) ==
  /\ Lives(s)
  /\ Served(s, a) > 0
  /\ live' = [live EXCEPT ![s][a] = @ - 1]
  /\ connections' =
       [connections EXCEPT ![s] = @ - IF a \in Reporting THEN 1 ELSE 0]
  /\ UNCHANGED <<phase, acceptor, failed, history>>

-----------------------------------------------------------------------------
(* A process.                                                              *)

\* spawn_server, called over a connection to s: ./n2w-server, in the background
SpawnServer(s, t) ==
  /\ Lives(s)
  /\ \E a \in Acceptors : Served(s, a) > 0
  /\ phase[t] = "none"
  /\ phase' = [phase EXCEPT ![t] = "running"]
  /\ UNCHANGED <<acceptor, live, connections, failed, history>>

\* SIGINT, SIGTERM or stop_server: service.stop()
Stop(s) ==
  /\ Begins(s)
  /\ phase' = [phase EXCEPT ![s] = "stopped"]
  /\ UNCHANGED <<acceptor, live, connections, failed, history>>

End(s) ==
  /\ phase' = [phase EXCEPT ![s] = "ended"]
  /\ acceptor' = [acceptor EXCEPT ![s] = [a \in Acceptors |-> "ended"]]
  /\ live' = [live EXCEPT ![s] = [a \in Acceptors |-> 0]]
  /\ UNCHANGED <<connections, failed, history>>

\* main returns from run(), and destroys the threads it never joined: the
\* process is terminated, and its sockets are closed.
EndStopped(s) ==
  /\ phase[s] = "stopped"
  /\ End(s)

\* Nothing is left.
AllEnded ==
  /\ \A s \in Processes : ~Lives(s)
  /\ UNCHANGED vars

-----------------------------------------------------------------------------

Next ==
  \/ \E s \in Processes, a \in Acceptors :
       \/ Open(s, a) \/ Bind(s, a) \/ Listen(s, a)
       \/ Accept(s, a) \/ AcceptFails(s, a) \/ Serve(s, a) \/ Destroy(s, a)
  \/ \E s, t \in Processes : SpawnServer(s, t)
  \/ \E s \in Processes : Stop(s) \/ EndStopped(s)
  \/ AllEnded

Spec == Init /\ [][Next]_vars

-----------------------------------------------------------------------------
(* Properties.                                                             *)

\* An acceptor gives up for want of a descriptor of its own, or because of
\* another that listened on its port: those that bind it together do not all
\* give up to each other.  (That the other listens still is not said: it may
\* fail to accept later, or its process end, and whoever gave up stays away.)
GivesUpToListener ==
  \A s \in Processes, a \in Acceptors :
    Lives(s) /\ acceptor[s][a] = "ended" =>
      \/ <<s, a>> \in short
      \/ \E t \in Processes, b \in Acceptors :
           Port[t][b] = Port[s][a] /\ <<t, b>> \in listened \ {<<s, a>>}

\* The counter of connections is short of those that are served by one for
\* every accept that failed, and no other way.
CountShortByFailedAccepts ==
  \A s \in Processes :
    Lives(s) =>
      connections[s] + failed[s] =
        Cardinality(Each([a \in Reporting |-> Served(s, a)]))
=============================================================================
