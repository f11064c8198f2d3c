-------------------------- MODULE ClientConnection --------------------------
(***************************************************************************)
(* One connection made by connect(): the coroutine that connects has       *)
(* ticket 0, every request() and the final upgrade() take the next one and *)
(* use the socket in turn.  The owner is whoever holds the                 *)
(* client_connection, or the wsclient_connection it was moved to.          *)
(*                                                                         *)
(* The upgrade's coroutine owns a reference to the connection; that of a   *)
(* request has a bare pointer, and uses freed memory when the owner lets   *)
(* the connection go before it ends: fate "dangling".  An exception leaves *)
(* a coroutine, and ends the process, when the upgrade asks a socket that  *)
(* was reset for its remote endpoint: fate "aborted".                      *)
(***************************************************************************)
EXTENDS Tickets, Integers, Sequences, FiniteSets

ASSUME ClientPhasesAssumption ==
  HeldPhases = {"connecting", "abandoned", "sending", "reading", "answered",
                "handshaking"}

VARIABLES
  job,                  \* what each ticket was taken for
  owner,                \* "http": client_connection, "ws": wsclient_connection
  peer,                 \* the server at the other end: "up" or "closed"
  sent,                 \* requests the peer has yet to answer, in order
  replies,              \* the peer's answers that have not been read
  garbled,              \* the parser gave up within a response
  answer,               \* what each request's completion handler was given
  open,                 \* websocket_stuff::open
  stats,                \* this connection's share of server_statistics
  destroyed,            \* ~connection has run
  fate                  \* what became of the process

vars == <<ticketVars, job, owner, peer, sent, replies, garbled, answer, open,
          stats, destroyed, fate>>

stream == <<peer, sent, replies, garbled>>

Jobs == {"none", "connect", "request", "upgrade"}
Counters == {"tasks", "connections", "upgrades"}

Requests == {t \in Ticket : job[t] = "request"}
Connected == task[0] = "done"

\* Mutant: upgrade() captures `this' only.
ReferencedByOwner ==
  \/ owner # "none"
  \/ task[0] = "connecting"

\* The shared_ptrs to the connection: the owner's, the connecting coroutine's
\* and the `self' of upgrade().
Referenced ==
  \/ owner # "none"
  \/ task[0] = "connecting"
  \/ \E t \in Ticket : job[t] = "upgrade" /\ Active(t)

\* The connection goes with its last reference; ~connection reports the close,
\* whether or not a connection was ever reported.
Release(s) ==
  IF Referenced' \/ destroyed
  THEN stats' = s /\ UNCHANGED destroyed
  ELSE /\ destroyed' = TRUE
       /\ stats' = [s EXCEPT !.connections = @ - 1,
                             !.upgrades = @ - (IF open' THEN 1 ELSE 0)]

\* connect(): `++conn->ticket', and the coroutine that connects is spawned.
ClientInit ==
  /\ ticket = 1
  /\ serving = 0
  /\ task = [t \in Ticket |-> IF t = 0 THEN "connecting" ELSE "free"]
  /\ job = [t \in Ticket |-> IF t = 0 THEN "connect" ELSE "none"]
  /\ owner = "http"
  /\ peer = "up"
  /\ sent = <<>> /\ replies = <<>> /\ garbled = FALSE
  /\ answer = [t \in Ticket |-> "none"]
  /\ open = FALSE
  /\ stats = [c \in Counters |-> 0]
  /\ destroyed = FALSE
  /\ fate = "running"

Alive == fate = "running" /\ ~destroyed

-----------------------------------------------------------------------------
(* The connecting coroutine and the owner.                                 *)

\* Mutant: the turn is passed on before the connection is reported.
ConnectUnreported ==
  /\ Alive
  /\ Return(0, "connecting")
  /\ UNCHANGED <<job, owner, stream, answer, open, fate>>
  /\ Release(stats)

\* Resolved and connected: report_connect, `++conn->serving'.
Connect ==
  /\ Alive
  /\ Return(0, "connecting")
  /\ UNCHANGED <<job, owner, stream, answer, open, fate>>
  /\ Release([stats EXCEPT !.connections = @ + 1])

\* The address or the peer cannot be reached: `return', with the turn still
\* that of ticket 0.
ConnectFails ==
  /\ Alive
  /\ Proceed(0, "connecting", "abandoned")
  /\ UNCHANGED <<job, owner, stream, answer, open, fate>>
  /\ Release(stats)

Request ==
  /\ Alive
  /\ owner = "http"
  /\ Issue
  /\ job' = [job EXCEPT ![ticket] = "request"]
  /\ UNCHANGED <<owner, stream, answer, open, stats, destroyed, fate>>

\* upgrade(move(client)): the client_connection is empty from now on.
Upgrade ==
  /\ Alive
  /\ owner = "http"
  /\ Issue
  /\ job' = [job EXCEPT ![ticket] = "upgrade"]
  /\ owner' = "ws"
  /\ UNCHANGED <<stream, answer, open, stats, destroyed, fate>>

\* The client_connection or wsclient_connection is destroyed.
OwnerLeaves ==
  /\ Alive
  /\ owner # "none"
  /\ owner' = "none"
  /\ UNCHANGED <<ticketVars, job, stream, answer, open, fate>>
  /\ Release(stats)

-----------------------------------------------------------------------------
(* The coroutines of request() and upgrade().                              *)

\* report_task_start, which upgrade() does not have; the sentinel.
Start(t) ==
  /\ Alive
  /\ Begin(t)
  /\ stats' = IF job[t] = "request" THEN [stats EXCEPT !.tasks = @ + 1]
              ELSE stats
  /\ UNCHANGED <<job, owner, stream, answer, open, destroyed, fate>>

\* The coroutine posts itself until its turn comes.
Poll(t) ==
  /\ Alive
  /\ task[t] = "waiting"
  /\ t # serving
  /\ UNCHANGED vars

BeginRequest(t) ==
  /\ Alive
  /\ job[t] = "request"
  /\ TakeTurn(t, "sending")
  /\ UNCHANGED <<job, owner, stream, answer, open, stats, destroyed, fate>>

\* async_write; its error is overwritten by that of the read that follows.
WriteRequest(t) ==
  /\ Alive
  /\ Proceed(t, "sending", "reading")
  /\ sent' = IF peer = "up" THEN Append(sent, t) ELSE sent
  /\ UNCHANGED <<job, owner, peer, replies, garbled, answer, open, stats,
                 destroyed, fate>>

\* The completion handler is invoked, in the turn.
Answer(t, what) ==
  /\ Alive
  /\ Proceed(t, "reading", "answered")
  /\ answer' = [answer EXCEPT ![t] = what]
  /\ UNCHANGED <<job, owner, peer, sent, open, stats, destroyed, fate>>

ReadResponse(t) ==
  /\ replies # <<>> /\ ~garbled
  /\ Answer(t, IF Head(replies) = t THEN "own" ELSE "other")
  /\ replies' = Tail(replies)
  /\ UNCHANGED garbled

\* The parser refuses the response (it is malformed, or over the body limit) and
\* leaves the rest of it to the next read.
ReadRefused(t) ==
  /\ replies # <<>> /\ ~garbled
  /\ Answer(t, "error")
  /\ replies' = Tail(replies)
  /\ garbled' = TRUE

ReadGarbage(t) ==
  /\ garbled
  /\ \E what \in {"other", "error"} : Answer(t, what)
  /\ \/ UNCHANGED replies
     \/ replies # <<>> /\ replies' = Tail(replies)
  /\ UNCHANGED garbled

\* The end of the stream when nothing is left to read, or a reset, which takes
\* what was left with it.
ReadFails(t) ==
  /\ peer = "closed"
  /\ Answer(t, "error")
  /\ replies' = <<>>
  /\ UNCHANGED garbled

\* report_task_end; ~ticket_sentinel.
Finish(t) ==
  /\ Alive
  /\ Return(t, "answered")
  /\ stats' = [stats EXCEPT !.tasks = @ - 1]
  /\ UNCHANGED <<job, owner, stream, answer, open, destroyed, fate>>

\* The handshake request is written.
BeginUpgrade(t) ==
  /\ Alive
  /\ job[t] = "upgrade"
  /\ TakeTurn(t, "handshaking")
  /\ sent' = IF peer = "up" THEN Append(sent, t) ELSE sent
  /\ UNCHANGED <<job, owner, peer, replies, garbled, answer, open, stats,
                 destroyed, fate>>

\* socket.remote_endpoint() throws.
UpgradeThrows(t) ==
  /\ Alive
  /\ job[t] = "upgrade"
  /\ task[t] = "waiting" /\ t = serving
  /\ peer = "closed"
  /\ fate' = "aborted"
  /\ UNCHANGED <<ticketVars, job, owner, stream, answer, open, stats,
                 destroyed>>

\* Mutant: a handshake that fails is tried again.
EndUpgradeRetries(t) ==
  /\ Alive
  /\ \/ /\ Return(t, "handshaking")
        /\ replies # <<>> /\ replies' = Tail(replies)
        /\ open' = TRUE
        /\ UNCHANGED <<job, owner, peer, sent, garbled, answer, fate>>
        /\ Release([stats EXCEPT !.upgrades = @ + 1])
     \/ /\ task[t] = "handshaking" /\ (peer = "closed" \/ garbled)
        /\ UNCHANGED vars

\* The handshake has an answer or failed: either way the upgrade is reported
\* and inspected, the turn is given up and `self' is dropped.
EndUpgrade(t) ==
  /\ Alive
  /\ Return(t, "handshaking")
  /\ \/ replies # <<>> /\ replies' = Tail(replies)
     \/ garbled /\ UNCHANGED replies
     \/ peer = "closed" /\ replies' = <<>>
  /\ open' = TRUE
  /\ UNCHANGED <<job, owner, peer, sent, garbled, answer, fate>>
  /\ Release([stats EXCEPT !.upgrades = @ + 1])

\* The coroutine of a request goes on after the connection was destroyed.
UseAfterDestroy(t) ==
  /\ fate = "running"
  /\ destroyed
  /\ job[t] = "request" /\ Active(t)
  /\ fate' = "dangling"
  /\ UNCHANGED <<ticketVars, job, owner, stream, answer, open, stats,
                 destroyed>>

-----------------------------------------------------------------------------
(* The peer, which answers what it is sent in order (ResponseQueue).       *)

PeerReplies ==
  /\ Alive
  /\ peer = "up"
  /\ sent # <<>>
  /\ sent' = Tail(sent)
  /\ replies' = Append(replies, Head(sent))
  /\ UNCHANGED <<ticketVars, job, owner, peer, garbled, answer, open, stats,
                 destroyed, fate>>

PeerCloses ==
  /\ Alive
  /\ peer = "up"
  /\ peer' = "closed"
  /\ UNCHANGED <<ticketVars, job, owner, sent, replies, garbled, answer, open,
                 stats, destroyed, fate>>

-----------------------------------------------------------------------------

Task(t) ==
  \/ Start(t)
  \/ Poll(t)
  \/ BeginRequest(t)
  \/ WriteRequest(t)
  \/ ReadResponse(t)
  \/ ReadRefused(t)
  \/ ReadGarbage(t)
  \/ ReadFails(t)
  \/ Finish(t)
  \/ BeginUpgrade(t)
  \/ UpgradeThrows(t)
  \/ EndUpgrade(t)
  \/ UseAfterDestroy(t)

\* The connection is gone, or the process is no longer what the code says.
Over ==
  /\ ~Alive
  /\ UNCHANGED vars

Next ==
  \/ Connect
  \/ ConnectFails
  \/ Request
  \/ Upgrade
  \/ OwnerLeaves
  \/ \E t \in Ticket : Task(t)
  \/ PeerReplies
  \/ PeerCloses
  \/ Over

\* The io_service threads run every coroutine that can run, resolving and
\* connecting end, and the peer answers what it was sent as long as it is up:
\* the client has no timeout of its own.
Fairness ==
  /\ WF_vars(Connect \/ ConnectFails)
  /\ \A t \in Ticket : WF_vars(Task(t))
  /\ WF_vars(PeerReplies)

ClientSpec == ClientInit /\ [][Next]_vars /\ Fairness

-----------------------------------------------------------------------------
(* Properties.                                                             *)

\* Responses carry no number: a completion handler is given the response to
\* its own request, or an error, unless the parser lost its place.
RightResponse ==
  ~garbled => \A t \in Ticket : answer[t] # "other"

\* Every request made before an upgrade is safe, whenever the owner lets go:
\* the upgrade is last in the queue and keeps the connection until then.
UpgradeKeepsRequests ==
  (\E t \in Ticket : job[t] = "upgrade") => fate # "dangling"

\* A connection that was made gives back what it took of server_statistics; the
\* close of one that never was is reported all the same.
ClientStatsBalance ==
  fate = "running" /\ ~(destroyed /\ \E t \in Requests : Active(t)) =>
    stats = [tasks |-> Cardinality({t \in Requests :
                                      task[t] \in {"waiting"} \cup HeldPhases}),
             connections |-> (IF Connected THEN 1 ELSE 0)
                             - (IF destroyed THEN 1 ELSE 0),
             upgrades |-> IF open /\ ~destroyed THEN 1 ELSE 0]

\* Once connected, every request is answered: a failed write or read, or a peer
\* that closes, ends in an answer too.
EveryRequestAnswered ==
  \A t \in Ticket :
    (Connected /\ job[t] = "request" /\ task[t] # "free")
      ~> (answer[t] # "none" \/ ~Alive)

\* A connection its owner let go is destroyed, unless connecting failed: then
\* an upgrade polls, and holds it, forever.
LeakedOnlyIfUnconnected ==
  (owner = "none") ~> (~Alive \/ task[0] = "abandoned")
=============================================================================
