----------------------------- MODULE Connection -----------------------------
(***************************************************************************)
(* One accepted connection of the server: connection<Handler>::serve and   *)
(* ws_serve read HTTP requests and websocket messages, async spawns a      *)
(* ticketed coroutine for each answer, write_response puts the answer on   *)
(* the socket in the coroutine's turn.  The traits of the handler class    *)
(* are constants; the peer and the network choose what the next read       *)
(* returns, when the peer leaves, and which write then fails.              *)
(*                                                                         *)
(* `wire' is what has been written to the socket, one record per HTTP      *)
(* response, handshake answer or websocket message.                        *)
(***************************************************************************)
EXTENDS Tickets, Integers, Sequences, FiniteSets

CONSTANTS
  SupportsHttp,         \* the handler answers HTTP requests (and reports)
  SupportsWebsocket,    \* it has a websocket_handler_type
  HandlesText,          \* ... callable with a string
  HandlesBinary,        \* ... callable with a vector<uint8_t>
  PushesText,           \* ... callable with a pusher
  UpgradePipelined,     \* the peer asks for the upgrade before its requests
                        \* are answered
  StrandsCollide        \* the fresh strand of spawn() can be busy: Asio draws
                        \* strands from a fixed pool of implementations

ASSUME WritePhasesAssumption == HeldPhases = {"writing", "written"}

ASSUME TraitsAssumption ==
  /\ {SupportsHttp, SupportsWebsocket, HandlesText, HandlesBinary, PushesText,
      UpgradePipelined, StrandsCollide} \subseteq BOOLEAN
  /\ HandlesText \/ HandlesBinary \/ PushesText => SupportsWebsocket

VARIABLES
  job,                  \* what each ticket was taken for
  pc,                   \* where the serve coroutine is
  peer,                 \* "up", "left" (writes may fail), "broken" (one did)
  wire,                 \* everything written to the socket, in order
  pusher,               \* the websocket handler stores a pusher, which owns
                        \* a reference to the connection
  held,                 \* a copy of the pusher exists outside the connection
  open,                 \* websocket_stuff::open
  stats,                \* this connection's share of server_statistics
  closed                \* ~connection has run

vars == <<ticketVars, job, pc, peer, wire, pusher, held, open, stats,
          closed>>

HttpJobs == {"http", "501"}
SocketJobs == {"text", "binary", "push"}
Jobs == HttpJobs \cup SocketJobs
ServePoints == {"reading", "accepting", "websocket", "finished"}

\* report_* calls are compiled in for a handler with HTTP support only.
Reports == SupportsHttp

\* The answer of an operator() that returns void is nullptr: nothing to write.
Writes(t) == job[t] # "text"

Counters == {"tasks", "connections", "upgrades"}
Statistics == [Counters -> Int]

Count(s, counter, change) ==
  IF Reports THEN [s EXCEPT ![counter] = @ + change] ELSE s

\* Mutant: the spawned coroutines capture `this' only, as request() does.
ReferencedByServe ==
  \/ pc # "finished"
  \/ pusher
  \/ held

\* Mutant: the stored pusher captures `this' only.
ReferencedByCoroutines ==
  \/ pc # "finished"
  \/ \E t \in Ticket : Active(t)
  \/ held

\* The shared_ptrs to the connection: the serve coroutine's, each spawned
\* coroutine's `self', the stored pusher's and its copies'.
Referenced ==
  \/ pc # "finished"
  \/ \E t \in Ticket : Active(t)
  \/ pusher
  \/ held

\* The connection is destroyed in the step that drops the last reference;
\* its destructor reports the close.
Release(s) ==
  IF Referenced' \/ closed
  THEN stats' = s /\ UNCHANGED closed
  ELSE /\ closed' = TRUE
       /\ stats' = Count(Count(s, "connections", -1), "upgrades",
                         IF open THEN -1 ELSE 0)

Init ==
  /\ TicketInit
  /\ job = [t \in Ticket |-> "none"]
  /\ pc = "reading"
  /\ peer = "up"
  /\ wire = <<>>
  /\ pusher = FALSE
  /\ held = FALSE
  /\ open = FALSE
  /\ stats = Count([tasks |-> 0, connections |-> 0, upgrades |-> 0],
                   "connections", 1)                \* report_accept
  /\ closed = FALSE

-----------------------------------------------------------------------------
(* serve and ws_serve.                                                     *)

\* Mutant: async posts its coroutines.
ServeRunsAhead(point) == pc = point

\* spawn() runs a coroutine at once, up to its first suspension, on the thread
\* that spawns it; only a busy strand defers it.  Until then serve is stuck.
ServeRuns(point) ==
  /\ pc = point
  /\ \/ StrandsCollide
     \/ \A t \in Ticket : job[t] \in Jobs \ {"push"} => task[t] # "spawned"

\* async(t)
Async(kind) ==
  /\ Issue
  /\ job' = [job EXCEPT ![ticket] = kind]

\* A request that is no upgrade: answered by the handler and followed by the
\* next read, or by NullHandler and the end of the connection.
ReadRequest ==
  /\ ServeRuns("reading")
  /\ Async(IF SupportsHttp THEN "http" ELSE "501")
  /\ pc' = IF SupportsHttp THEN pc ELSE "finished"
  /\ UNCHANGED <<peer, wire, pusher, held, open, stats, closed>>

\* The responses the peer has not been sent yet.
Unanswered == {t \in Ticket : task[t] \notin {"free", "written", "done"}}

\* Mutant: serve goes on reading after it refused an upgrade.
ReadUpgradeOn ==
  /\ ServeRuns("reading")
  /\ UpgradePipelined \/ Unanswered = {}
  /\ IF SupportsWebsocket
     THEN /\ pc' = "accepting"
          /\ UNCHANGED <<ticketVars, job>>
     ELSE /\ Async("501")
          /\ UNCHANGED pc
  /\ UNCHANGED <<peer, wire, pusher, held, open, stats, closed>>

\* An upgrade request: the handshake is answered by serve itself, without a
\* ticket.
ReadUpgrade ==
  /\ ServeRuns("reading")
  /\ UpgradePipelined \/ Unanswered = {}
  /\ IF SupportsWebsocket
     THEN /\ pc' = "accepting"
          /\ UNCHANGED <<ticketVars, job>>
     ELSE /\ Async("501")
          /\ pc' = "finished"
  /\ UNCHANGED <<peer, wire, pusher, held, open, stats, closed>>

Put(kind) == wire' = Append(wire, [kind |-> kind, ticket |-> ticket])

\* Mutant: a pusher is stored whether or not the handler asks for one.
AcceptUpgradePushes ==
  /\ ServeRuns("accepting")
  /\ peer # "broken"
  /\ Put("101")
  /\ pc' = "websocket"
  /\ pusher' = TRUE
  /\ open' = Reports
  /\ stats' = Count(Count(stats, "tasks", 1), "upgrades", 1)
  /\ UNCHANGED <<ticketVars, job, peer, held, closed>>

\* async_accept wrote the 101: the pusher is given to the handler, which stores
\* it, and ws_serve reports its task and the upgrade.
AcceptUpgrade ==
  /\ ServeRuns("accepting")
  /\ peer # "broken"
  /\ Put("101")
  /\ pc' = "websocket"
  /\ pusher' = PushesText
  /\ open' = Reports
  /\ stats' = Count(Count(stats, "tasks", 1), "upgrades", 1)
  /\ UNCHANGED <<ticketVars, job, peer, held, closed>>

\* Mutant: the error of async_accept is ignored.
FailUpgradeGoesOn ==
  /\ ServeRuns("accepting")
  /\ \/ peer # "broken" /\ Put("declined") /\ UNCHANGED peer
     \/ peer # "up" /\ peer' = "broken" /\ UNCHANGED wire
  /\ pc' = "websocket"
  /\ UNCHANGED <<ticketVars, job, pusher, held, open, stats, closed>>

\* async_accept failed: it declined the request with an answer of its own, or
\* could not write.
FailUpgrade ==
  /\ ServeRuns("accepting")
  /\ \/ peer # "broken" /\ Put("declined") /\ UNCHANGED peer
     \/ peer # "up" /\ peer' = "broken" /\ UNCHANGED wire
  /\ pc' = "finished"
  /\ UNCHANGED <<ticketVars, job, pusher, held, open>>
  /\ Release(stats)

\* A text or binary message; without a handler for it, it is dropped and no
\* ticket is taken.
ReadMessage ==
  /\ ServeRuns("websocket")
  /\ \/ HandlesText /\ Async("text")
     \/ HandlesBinary /\ Async("binary")
  /\ UNCHANGED <<pc, peer, wire, pusher, held, open, stats, closed>>

\* Mutant: ws_serve returns on the error without report_task_end.
ReadErrorUncounted ==
  /\ ServeRuns("reading") \/ ServeRuns("websocket")
  /\ pc' = "finished"
  /\ UNCHANGED <<ticketVars, job, peer, wire, pusher, held, open>>
  /\ Release(stats)

\* The read fails, because the peer left, closed its side, or sent what the
\* parser refuses: the serve coroutine returns.
ReadError ==
  /\ ServeRuns("reading") \/ ServeRuns("websocket")
  /\ pc' = "finished"
  /\ UNCHANGED <<ticketVars, job, peer, wire, pusher, held, open>>
  /\ Release(IF pc = "websocket" THEN Count(stats, "tasks", -1) ELSE stats)

-----------------------------------------------------------------------------
(* The coroutines async spawns, with write_response.                       *)

\* report_task_start; the sentinel; the handler runs, before the turn.
Start(t) ==
  /\ Begin(t)
  /\ stats' = Count(stats, "tasks", 1)
  /\ UNCHANGED <<job, pc, peer, wire, pusher, held, open, closed>>

\* Until its turn comes the coroutine posts itself again and again: a connection
\* that waits never stops running.
Poll(t) ==
  /\ task[t] = "waiting"
  /\ t # serving
  /\ UNCHANGED vars

BeginWrite(t) ==
  /\ TakeTurn(t, IF Writes(t) THEN "writing" ELSE "written")
  /\ UNCHANGED <<job, pc, peer, wire, pusher, held, open, stats, closed>>

\* Mutant: an answer that is due after serve returned is not written.
EndWriteWhileServing(t) ==
  /\ Proceed(t, "writing", "written")
  /\ peer # "broken"
  /\ wire' = IF pc = "finished" THEN wire
             ELSE Append(wire, [kind |-> job[t], ticket |-> t])
  /\ UNCHANGED <<job, pc, peer, pusher, held, open, stats, closed>>

EndWrite(t) ==
  /\ Proceed(t, "writing", "written")
  /\ peer # "broken"
  /\ wire' = Append(wire, [kind |-> job[t], ticket |-> t])
  /\ UNCHANGED <<job, pc, peer, pusher, held, open, stats, closed>>

\* Mutant: a failed write is tried again.
FailWriteRetries(t) ==
  /\ task[t] = "writing"
  /\ peer # "up"
  /\ peer' = "broken"
  /\ pusher' = (pusher /\ job[t] \in HttpJobs)
  /\ UNCHANGED <<ticketVars, job, pc, wire, held, open, stats, closed>>

\* Mutant: the websocket handler is left in place.
FailWriteKeepsHandler(t) ==
  /\ Proceed(t, "writing", "written")
  /\ peer # "up"
  /\ peer' = "broken"
  /\ UNCHANGED <<job, pc, wire, pusher, held, open, stats, closed>>

\* The error of an HTTP write is ignored; that of a websocket write resets the
\* websocket handler, and with it the stored pusher.
FailWrite(t) ==
  /\ Proceed(t, "writing", "written")
  /\ peer # "up"
  /\ peer' = "broken"
  /\ pusher' = (pusher /\ job[t] \in HttpJobs)
  /\ UNCHANGED <<job, pc, wire, held, open, stats, closed>>

\* report_task_end; ~ticket_sentinel; `self' is dropped.
Finish(t) ==
  /\ Return(t, "written")
  /\ UNCHANGED <<job, pc, peer, wire, pusher, held, open>>
  /\ Release(Count(stats, "tasks", -1))

\* The peer closes the socket or disappears.
PeerLeaves ==
  /\ peer = "up"
  /\ peer' = "left"
  /\ UNCHANGED <<ticketVars, job, pc, wire, pusher, held, open, stats,
                 closed>>

-----------------------------------------------------------------------------

Serve ==
  \/ ReadRequest
  \/ ReadUpgrade
  \/ AcceptUpgrade
  \/ FailUpgrade
  \/ ReadMessage
  \/ ReadError

Task(t) ==
  \/ Start(t)
  \/ Poll(t)
  \/ BeginWrite(t)
  \/ EndWrite(t)
  \/ FailWrite(t)
  \/ Finish(t)

\* Every coroutine of the connection has returned: nothing is left to do.
Terminated ==
  /\ pc = "finished"
  /\ \A t \in Ticket : ~Active(t)
  /\ UNCHANGED vars

Next ==
  \/ Serve
  \/ \E t \in Ticket : Task(t)
  \/ PeerLeaves
  \/ Terminated

\* The io_service threads run every coroutine that can run, a write ends, and a
\* read returns an error once the peer has left.
Fairness ==
  /\ \A t \in Ticket : WF_vars(Task(t))
  /\ WF_vars(AcceptUpgrade \/ FailUpgrade)
  /\ WF_vars(peer # "up" /\ ReadError)

Spec == Init /\ [][Next]_vars /\ Fairness

-----------------------------------------------------------------------------
(* Properties.                                                             *)

\* The variables keep their types.
TypeOK ==
  /\ ticket \in 0 .. MaxTickets
  /\ serving \in 0 .. MaxTickets
  /\ task \in [Ticket -> Phases]
  /\ job \in [Ticket -> Jobs \cup {"none"}]
  /\ pc \in ServePoints
  /\ peer \in {"up", "left", "broken"}
  /\ wire \in Seq([kind : Jobs \cup {"101", "declined"}, ticket : Nat])
  /\ {pusher, held, open, closed} \subseteq BOOLEAN
  /\ stats \in Statistics

\* Two coroutines of a connection are never between the first and the last
\* byte of a write at the same time (Beast allows one write per stream),
\* although async() is called from any thread.
WriteExclusion ==
  \A t, u \in Ticket :
    task[t] = "writing" /\ task[u] = "writing" => t = u

IsResponse(i) == wire[i].kind \in Jobs

\* Answers leave in the order in which async() took their tickets, whichever
\* handler finishes first, and none leaves twice.
ResponsesInOrder ==
  \A i, j \in DOMAIN wire :
    i < j /\ IsResponse(i) /\ IsResponse(j) => wire[i].ticket < wire[j].ticket

\* While no write has failed, the socket has been given exactly the answers
\* of the coroutines that are past their write: none is lost, and the
\* coroutine of a void handler writes nothing.
NoAnswerLost ==
  peer # "broken" =>
    \A t \in Ticket :
      task[t] \in {"written", "done"} /\ Writes(t)
        <=> \E i \in DOMAIN wire : wire[i] = [kind |-> job[t], ticket |-> t]

\* NullHandler's refusal ends the connection: no answer follows a 501.
RefusalIsLast ==
  \A i, j \in DOMAIN wire : i < j => wire[i].kind # "501"

\* A peer that waits for its answers before it asks for the upgrade gets a
\* handshake that no other write overlaps, the answers around it in the protocol
\* they belong to, and nothing after a declined one.
HandshakeSeparates ==
  ~UpgradePipelined =>
    /\ pc = "accepting" => \A t \in Ticket : task[t] # "writing"
    /\ \A i, j \in DOMAIN wire : i < j =>
         /\ wire[i].kind = "101" => wire[j].kind \in SocketJobs
         /\ wire[i].kind # "declined"
         /\ wire[j].kind = "101" => wire[i].kind \in HttpJobs

\* A connection is destroyed only after its last coroutine has returned, with
\* every ticket it issued served.
DestroyedLast ==
  closed => /\ serving = ticket
            /\ pc = "finished"
            /\ \A t \in Ticket : ~Active(t)

Started == {t \in Ticket : task[t] \in {"waiting"} \cup HeldPhases}

\* The counters of server_statistics that a connection moves are those of its
\* running tasks and its upgrade while it exists, and are given back when it
\* is destroyed: no path leaks a task, an upgrade or a connection.
StatsBalance ==
  stats = IF ~Reports \/ closed
          THEN [tasks |-> 0, connections |-> 0, upgrades |-> 0]
          ELSE [tasks |-> Cardinality(Started)
                            + (IF pc = "websocket" THEN 1 ELSE 0),
                connections |-> 1,
                upgrades |-> IF open THEN 1 ELSE 0]

\* Every ticket that is issued is served: a failed write, a void handler or
\* the end of the serve coroutine never leaves the queue stuck.
EveryTicketServed ==
  \A t \in Ticket : task[t] = "spawned" ~> serving > t

\* Once the peer has left, a connection without a pusher is destroyed.
EventuallyDestroyed ==
  (peer # "up" /\ ~PushesText) ~> closed

\* The tickets whose answer is still to be written.
Answered == serving + (IF \E t \in Ticket : task[t] = "written" THEN 1 ELSE 0)

Queue ==
  INSTANCE ResponseQueue
    WITH Work <- Jobs, Silent <- {"text"}, Handshakes <- {"101", "declined"},
         queue <- [i \in 1 .. ticket - Answered |-> job[Answered + i - 1]],
         sent <- [i \in DOMAIN wire |-> wire[i].kind],
         lost <- peer = "broken"

\* The coroutines and their tickets implement a queue that answers all work in
\* the order of async() calls.
ImplementsResponseQueue == Queue!Spec
=============================================================================
