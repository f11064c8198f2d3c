----------------------- MODULE ClientConnectionProofs -----------------------
(***************************************************************************)
(* Proofs about ClientConnection, for every number of requests: the window *)
(* of tickets, which coroutine is in which phase, the lifetime an upgrade  *)
(* gives to the connection, the pairing of responses with requests, the    *)
(* counters.                                                               *)
(***************************************************************************)
EXTENDS ClientConnection, TicketsProofs, FiniteSetTheorems

\* The six phases of a turn are those of HeldPhases.
LEMMA ClientPhases ==
  /\ {"connecting", "abandoned", "sending", "reading", "answered",
      "handshaking"} = HeldPhases
  /\ Phases = {"free", "spawned", "waiting", "done", "connecting", "abandoned",
               "sending", "reading", "answered", "handshaking"}
  BY ClientPhasesAssumption DEF Phases, OutOfTurn

\* connect() reserves ticket 0 for the coroutine that connects, and serves it.
LEMMA ClientInitTicketInv == ClientInit => TicketInv
  <1> SUFFICES ASSUME ClientInit PROVE TicketInv
    OBVIOUS
  <1>1. /\ ticket = 1 /\ serving = 0
        /\ task = [t \in Ticket |-> IF t = 0 THEN "connecting" ELSE "free"]
    BY DEF ClientInit
  <1>2. \A t \in Ticket : t \in Nat /\ MaxTickets \in Nat /\ MaxTickets >= 1
    BY MaxTicketsAssumption DEF Ticket
  <1>3. Window
    BY <1>1, <1>2, ClientPhases, MaxTicketsAssumption DEF Window
  <1>4. HolderIsServed
    BY <1>1, ClientPhases DEF HolderIsServed, Holding
  <1>5. QED
    BY <1>3, <1>4 DEF TicketInv

\* Every step keeps the window and the single holder of the turn.
LEMMA ClientTicketInv == TicketInv /\ [Next]_vars => TicketInv'
  <1> SUFFICES ASSUME TicketInv, [Next]_vars PROVE TicketInv'
    OBVIOUS
  <1>1. 0 \in Ticket
    BY MaxTicketsAssumption DEF Ticket
  <1>2. CASE Connect
    BY <1>1, <1>2, ClientPhases, ReturnInv DEF Connect
  <1>3. CASE ConnectFails
    BY <1>1, <1>3, ClientPhases, ProceedInv DEF ConnectFails
  <1>4. CASE Request \/ Upgrade
    BY <1>4, IssueInv DEF Request, Upgrade
  <1>5. CASE OwnerLeaves \/ PeerReplies \/ PeerCloses \/ UNCHANGED vars
    BY <1>5, TicketStutterInv DEF OwnerLeaves, PeerReplies, PeerCloses, vars
  <1>6. ASSUME NEW t \in Ticket, Task(t) PROVE TicketInv'
    <2>1. CASE Start(t)
      BY <2>1, BeginInv DEF Start
    <2>2. CASE Poll(t) \/ UpgradeThrows(t) \/ UseAfterDestroy(t)
      BY <2>2, TicketStutterInv DEF Poll, UpgradeThrows, UseAfterDestroy, vars
    <2>3. CASE BeginRequest(t) \/ BeginUpgrade(t)
      BY <2>3, ClientPhases, TakeTurnInv DEF BeginRequest, BeginUpgrade
    <2>4. CASE WriteRequest(t)
      BY <2>4, ClientPhases, ProceedInv DEF WriteRequest
    <2>5. CASE ReadResponse(t) \/ ReadRefused(t) \/ ReadGarbage(t) \/ ReadFails(t)
      BY <2>5, ClientPhases, ProceedInv
      DEF ReadResponse, ReadRefused, ReadGarbage, ReadFails, Answer
    <2>6. CASE Finish(t) \/ EndUpgrade(t)
      BY <2>6, ClientPhases, ReturnInv DEF Finish, EndUpgrade
    <2>7. QED
      BY <1>6, <2>1, <2>2, <2>3, <2>4, <2>5, <2>6 DEF Task
  <1>7. QED
    BY <1>2, <1>3, <1>4, <1>5, <1>6 DEF Next, Over

-----------------------------------------------------------------------------

\* The variables that say what the coroutines do and what the counters are.
ClientTypes ==
  /\ job \in [Ticket -> Jobs]
  /\ owner \in {"http", "ws", "none"}
  /\ open \in BOOLEAN /\ destroyed \in BOOLEAN
  /\ answer \in [Ticket -> {"none", "own", "other", "error"}]

\* The coroutine of a ticket is in a phase of the function that spawned it.
JobPhases ==
  \A t \in Ticket :
    /\ job[t] = "none" <=> task[t] = "free"
    /\ job[t] = "connect" <=> t = 0
    /\ job[t] = "connect" => task[t] \in {"connecting", "abandoned", "done"}
    /\ job[t] = "request" => task[t] \in {"spawned", "waiting", "sending",
                                          "reading", "answered", "done"}
    /\ job[t] = "upgrade" => task[t] \in {"spawned", "waiting", "handshaking",
                                          "done"}

JobInv == TicketInv /\ ClientTypes /\ JobPhases

\* The moves a coroutine makes.
Moves ==
  {<<"connect", "connecting", "done">>, <<"connect", "connecting", "abandoned">>,
   <<"request", "spawned", "waiting">>, <<"upgrade", "spawned", "waiting">>,
   <<"request", "waiting", "sending">>, <<"request", "sending", "reading">>,
   <<"request", "reading", "answered">>, <<"request", "answered", "done">>,
   <<"upgrade", "waiting", "handshaking">>, <<"upgrade", "handshaking", "done">>}

Move(t, from, to) ==
  /\ <<job[t], from, to>> \in Moves
  /\ task[t] = from
  /\ task' = [task EXCEPT ![t] = to]
  /\ UNCHANGED <<ticket, job>>

Take(kind) ==
  /\ Issue
  /\ owner = "http"
  /\ job' = [job EXCEPT ![ticket] = kind]
  /\ owner' = IF kind = "upgrade" THEN "ws" ELSE owner
  /\ UNCHANGED <<open, destroyed, answer, stats, fate>>

\* A step takes a ticket, moves one coroutine, or leaves all where they are.
LEMMA ClientStep ==
  JobInv /\ [Next]_vars =>
    \/ Take("request") \/ Take("upgrade")
    \/ \E t \in Ticket : \E from, to \in Phases : Move(t, from, to)
    \/ UNCHANGED <<ticket, serving, task, job>>
  <1> SUFFICES ASSUME JobInv, [Next]_vars,
                      ~Take("request"), ~Take("upgrade"),
                      ~UNCHANGED <<ticket, serving, task, job>>
               PROVE  \E t \in Ticket : \E from, to \in Phases : Move(t, from, to)
    OBVIOUS
  <1>1. 0 \in Ticket /\ job[0] = "connect"
    BY MaxTicketsAssumption DEF Ticket, JobInv, JobPhases
  <1>2. CASE Connect \/ ConnectFails
    <2>1. \E to \in Phases : Move(0, "connecting", to)
      BY <1>1, <1>2, ClientPhases
      DEF Connect, ConnectFails, Return, Proceed, Move, Moves
    <2>2. QED
      BY <1>1, <2>1, ClientPhases
  <1>3. ASSUME NEW t \in Ticket, Task(t)
        PROVE  \E from, to \in Phases : Move(t, from, to)
    <2>1. job[t] \in Jobs
      BY DEF JobInv, ClientTypes
    <2>2. task[t] # "free" => job[t] \in {"connect", "request", "upgrade"}
      BY <2>1 DEF JobInv, JobPhases, Jobs
    <2>3. CASE Start(t)
      <3>1. Move(t, "spawned", "waiting")
        BY <2>2, <2>3 DEF Start, Begin, Move, Moves, JobInv, JobPhases
      <3>2. QED
        BY <3>1, ClientPhases
    <2>4. CASE BeginRequest(t)
      <3>1. Move(t, "waiting", "sending")
        BY <2>4 DEF BeginRequest, TakeTurn, Move, Moves
      <3>2. QED
        BY <3>1, ClientPhases
    <2>5. CASE BeginUpgrade(t)
      <3>1. Move(t, "waiting", "handshaking")
        BY <2>5 DEF BeginUpgrade, TakeTurn, Move, Moves
      <3>2. QED
        BY <3>1, ClientPhases
    <2>6. CASE WriteRequest(t)
      <3>1. Move(t, "sending", "reading")
        BY <2>2, <2>6 DEF WriteRequest, Proceed, Move, Moves, JobInv, JobPhases
      <3>2. QED
        BY <3>1, ClientPhases
    <2>7. CASE ReadResponse(t) \/ ReadRefused(t) \/ ReadGarbage(t) \/ ReadFails(t)
      <3>1. Move(t, "reading", "answered")
        BY <2>2, <2>7
        DEF ReadResponse, ReadRefused, ReadGarbage, ReadFails, Answer, Proceed,
            Move, Moves, JobInv, JobPhases
      <3>2. QED
        BY <3>1, ClientPhases
    <2>8. CASE Finish(t)
      <3>1. Move(t, "answered", "done")
        BY <2>2, <2>8 DEF Finish, Return, Move, Moves, JobInv, JobPhases
      <3>2. QED
        BY <3>1, ClientPhases
    <2>9. CASE EndUpgrade(t)
      <3>1. Move(t, "handshaking", "done")
        BY <2>2, <2>9 DEF EndUpgrade, Return, Move, Moves, JobInv, JobPhases
      <3>2. QED
        BY <3>1, ClientPhases
    <2>10. ~Poll(t) /\ ~UpgradeThrows(t) /\ ~UseAfterDestroy(t)
      BY DEF Poll, UpgradeThrows, UseAfterDestroy, vars, ticketVars
    <2>11. QED
      BY <1>3, <2>3, <2>4, <2>5, <2>6, <2>7, <2>8, <2>9, <2>10 DEF Task
  <1>4. ~Request /\ ~Upgrade
    BY DEF Request, Upgrade, Take
  <1>5. ~OwnerLeaves /\ ~PeerReplies /\ ~PeerCloses /\ ~Over /\ ~UNCHANGED vars
    BY DEF OwnerLeaves, PeerReplies, PeerCloses, Over, vars, ticketVars
  <1>6. QED
    BY <1>1, <1>2, <1>3, <1>4, <1>5 DEF Next

\* Every step keeps the types.
LEMMA ClientTypesInv == JobInv /\ [Next]_vars => ClientTypes'
  <1> SUFFICES ASSUME JobInv, [Next]_vars PROVE ClientTypes'
    OBVIOUS
  <1>1. ClientTypes
    BY DEF JobInv
  <1>2. ASSUME NEW s, Release(s) PROVE destroyed' \in BOOLEAN
    BY <1>1, <1>2 DEF Release, ClientTypes
  <1>3. CASE Connect \/ ConnectFails \/ OwnerLeaves
    BY <1>1, <1>2, <1>3 DEF Connect, ConnectFails, OwnerLeaves, ClientTypes
  <1>4. CASE Request \/ Upgrade
    BY <1>1, <1>4 DEF Request, Upgrade, ClientTypes, Jobs
  <1>5. CASE PeerReplies \/ PeerCloses \/ UNCHANGED vars
    BY <1>1, <1>5 DEF PeerReplies, PeerCloses, vars, ClientTypes
  <1>6. ASSUME NEW t \in Ticket, Task(t) PROVE ClientTypes'
    <2>1. CASE ReadResponse(t) \/ ReadRefused(t) \/ ReadGarbage(t) \/ ReadFails(t)
      BY <1>1, <2>1
      DEF ReadResponse, ReadRefused, ReadGarbage, ReadFails, Answer, ClientTypes
    <2>2. CASE EndUpgrade(t)
      BY <1>1, <1>2, <2>2 DEF EndUpgrade, ClientTypes
    <2>3. QED
      BY <1>1, <1>6, <2>1, <2>2
      DEF Task, Start, Poll, BeginRequest, WriteRequest, Finish, BeginUpgrade,
          UpgradeThrows, UseAfterDestroy, vars, ClientTypes
  <1>7. QED
    BY <1>3, <1>4, <1>5, <1>6 DEF Next, Over

\* Every step keeps the coroutines in the phases of their functions.
LEMMA ClientJobInv == JobInv /\ [Next]_vars => JobInv'
  <1> SUFFICES ASSUME JobInv, [Next]_vars PROVE JobInv'
    OBVIOUS
  <1>1. TicketInv' /\ ClientTypes'
    BY ClientTicketInv, ClientTypesInv DEF JobInv
  <1>2. /\ task \in [Ticket -> Phases] /\ job \in [Ticket -> Jobs]
        /\ ticket \in Nat /\ MaxTickets \in Nat
        /\ ticket \in Ticket => task[ticket] = "free" /\ ticket # 0
    <2>1. 0 \in Ticket /\ task[0] # "free"
      BY MaxTicketsAssumption DEF JobInv, JobPhases, Ticket
    <2>2. QED
      BY <2>1, MaxTicketsAssumption
      DEF JobInv, ClientTypes, TicketInv, Window
  <1>3. ASSUME NEW k \in {"request", "upgrade"}, Take(k) PROVE JobPhases'
    BY <1>2, <1>3 DEF Take, Issue, JobInv, JobPhases
  <1>4. ASSUME NEW t \in Ticket, NEW from \in Phases, NEW to \in Phases,
               Move(t, from, to)
        PROVE  JobPhases'
    <2>1. /\ job' = job
          /\ \A u \in Ticket : task'[u] = IF u = t THEN to ELSE task[u]
      BY <1>2, <1>4 DEF Move
    <2>2. /\ job[t] # "none" /\ to # "free"
          /\ job[t] = "connect" => to \in {"connecting", "abandoned", "done"}
          /\ job[t] = "request" => to \in {"spawned", "waiting", "sending",
                                           "reading", "answered", "done"}
          /\ job[t] = "upgrade" => to \in {"spawned", "waiting", "handshaking",
                                           "done"}
      BY <1>4 DEF Move, Moves
    <2>3. QED
      BY <2>1, <2>2 DEF JobInv, JobPhases
  <1>5. ASSUME UNCHANGED <<ticket, serving, task, job>> PROVE JobPhases'
    BY <1>5 DEF JobInv, JobPhases
  <1>6. JobPhases'
    BY <1>3, <1>4, <1>5, ClientStep
  <1>7. QED
    BY <1>1, <1>6 DEF JobInv

-----------------------------------------------------------------------------

\* The upgrade moves the client_connection away: no ticket is taken after it.
UpgradeLast ==
  \A t \in Ticket : job[t] = "upgrade" => ticket = t + 1 /\ owner # "http"

\* A destroyed connection has no owner, is not connecting and has no upgrade.
DestroyedInv == destroyed => ~Referenced

LifeInv == UpgradeLast /\ DestroyedInv /\ UpgradeKeepsRequests

\* The connection goes with its last reference.
LEMMA ClientRelease ==
  ASSUME NEW s, ~destroyed, Release(s)
  PROVE  DestroyedInv'
  BY DEF Release, DestroyedInv

\* Nobody takes a ticket after the upgrade.
LEMMA ClientUpgradeLast ==
  JobInv /\ UpgradeLast /\ [Next]_vars => UpgradeLast'
  <1> SUFFICES ASSUME JobInv, UpgradeLast, [Next]_vars PROVE UpgradeLast'
    OBVIOUS
  <1>1. job \in [Ticket -> Jobs] /\ ticket \in Nat /\ MaxTickets \in Nat
    BY MaxTicketsAssumption DEF JobInv, ClientTypes, TicketInv, Window
  <1>2. CASE Take("request") \/ Take("upgrade")
    BY <1>1, <1>2 DEF Take, Issue, UpgradeLast
  <1>3. CASE ~(Take("request") \/ Take("upgrade"))
    <2>1. UNCHANGED <<ticket, job>>
      BY <1>3, ClientStep DEF Move
    <2>2. owner' = owner \/ owner' = "none"
      BY <1>3
      DEF Next, Over, Connect, ConnectFails, Request, Upgrade, OwnerLeaves,
          PeerReplies, PeerCloses, Task, Start, Poll, BeginRequest,
          WriteRequest, ReadResponse, ReadRefused, ReadGarbage, ReadFails,
          Answer, Finish, BeginUpgrade, UpgradeThrows, EndUpgrade,
          UseAfterDestroy, vars, Take
    <2>3. QED
      BY <2>1, <2>2 DEF UpgradeLast
  <1>4. QED
    BY <1>2, <1>3

\* Nothing refers to a destroyed connection again.
LEMMA ClientDestroyedInv == DestroyedInv /\ [Next]_vars => DestroyedInv'
  <1> SUFFICES ASSUME DestroyedInv, [Next]_vars PROVE DestroyedInv'
    OBVIOUS
  <1>1. CASE destroyed
    <2>1. UNCHANGED <<destroyed, owner, task, job>>
      BY <1>1
      DEF Next, Over, Connect, ConnectFails, Request, Upgrade, OwnerLeaves,
          PeerReplies, PeerCloses, Task, Start, Poll, BeginRequest,
          WriteRequest, ReadResponse, ReadRefused, ReadGarbage, ReadFails,
          Answer, Finish, BeginUpgrade, UpgradeThrows, EndUpgrade,
          UseAfterDestroy, Alive, vars, ticketVars
    <2>2. QED
      BY <2>1 DEF DestroyedInv, Referenced, Active
  <1>2. CASE ~destroyed
    <2>1. ASSUME NEW s, Release(s) PROVE DestroyedInv'
      BY <1>2, <2>1, ClientRelease
    <2>2. CASE Connect \/ ConnectFails \/ OwnerLeaves
      BY <2>1, <2>2 DEF Connect, ConnectFails, OwnerLeaves
    <2>3. ASSUME NEW t \in Ticket, EndUpgrade(t) PROVE DestroyedInv'
      BY <2>1, <2>3 DEF EndUpgrade
    <2>4. CASE UNCHANGED destroyed
      BY <1>2, <2>4 DEF DestroyedInv
    <2>5. QED
      BY <2>2, <2>3, <2>4
      DEF Next, Over, Request, Upgrade, PeerReplies, PeerCloses, Task, Start,
          Poll, BeginRequest, WriteRequest, ReadResponse, ReadRefused,
          ReadGarbage, ReadFails, Answer, Finish, BeginUpgrade, UpgradeThrows,
          UseAfterDestroy, vars
  <1>3. QED
    BY <1>1, <1>2

\* When the connection is destroyed and it had an upgrade, all coroutines have
\* returned, those of the requests before it included.
LEMMA UpgradeOutlives ==
  ASSUME JobInv, UpgradeLast, DestroyedInv, destroyed,
         NEW u \in Ticket, job[u] = "upgrade"
  PROVE  \A t \in Ticket : ~Active(t)
  <1>1. task[u] = "done" /\ ticket = u + 1
    BY DEF DestroyedInv, Referenced, UpgradeLast, Active, JobInv, JobPhases
  <1>2. /\ u < serving /\ serving <= ticket
        /\ u \in Nat /\ serving \in Nat /\ ticket \in Nat
    BY <1>1, MaxTicketsAssumption DEF JobInv, TicketInv, Window, Ticket
  <1>3. serving = ticket
    BY <1>1, <1>2
  <1>4. ASSUME NEW t \in Ticket PROVE task[t] \in {"free", "done"}
    <2>1. t < serving \/ t >= ticket
      BY <1>2, <1>3, MaxTicketsAssumption DEF Ticket
    <2>2. QED
      BY <2>1 DEF JobInv, TicketInv, Window
  <1>5. QED
    BY <1>4 DEF Active

\* No coroutine goes on after the connection was destroyed, if there was an
\* upgrade.
LEMMA ClientLifeInv == JobInv /\ LifeInv /\ [Next]_vars => LifeInv'
  <1> SUFFICES ASSUME JobInv, LifeInv, [Next]_vars PROVE LifeInv'
    OBVIOUS
  <1>1. UpgradeLast' /\ DestroyedInv'
    BY ClientUpgradeLast, ClientDestroyedInv DEF LifeInv
  <1>2. ASSUME NEW t \in Ticket, UseAfterDestroy(t)
        PROVE  UpgradeKeepsRequests'
    <2>1. destroyed /\ Active(t) /\ job' = job
      BY <1>2 DEF UseAfterDestroy
    <2>2. ~\E u \in Ticket : job[u] = "upgrade"
      BY <2>1, UpgradeOutlives DEF LifeInv
    <2>3. QED
      BY <2>1, <2>2 DEF UpgradeKeepsRequests
  <1>3. CASE fate = "dangling"
    <2>1. UNCHANGED <<job, fate>>
      BY <1>3
      DEF Next, Over, Connect, ConnectFails, Request, Upgrade, OwnerLeaves,
          PeerReplies, PeerCloses, Task, Start, Poll, BeginRequest,
          WriteRequest, ReadResponse, ReadRefused, ReadGarbage, ReadFails,
          Answer, Finish, BeginUpgrade, UpgradeThrows, EndUpgrade,
          UseAfterDestroy, Alive, vars
    <2>2. QED
      BY <1>1, <2>1 DEF LifeInv, UpgradeKeepsRequests
  <1>4. CASE fate # "dangling" /\ ~\E t \in Ticket : UseAfterDestroy(t)
    <2>1. fate' # "dangling"
      BY <1>4
      DEF Next, Over, Connect, ConnectFails, Request, Upgrade, OwnerLeaves,
          PeerReplies, PeerCloses, Task, Start, Poll, BeginRequest,
          WriteRequest, ReadResponse, ReadRefused, ReadGarbage, ReadFails,
          Answer, Finish, BeginUpgrade, UpgradeThrows, EndUpgrade, vars
    <2>2. QED
      BY <1>1, <2>1 DEF LifeInv, UpgradeKeepsRequests
  <1>5. QED
    BY <1>1, <1>2, <1>3, <1>4 DEF LifeInv

\* The coroutines of a new connection.
LEMMA ClientInitJobInv == ClientInit => JobInv /\ LifeInv
  <1> SUFFICES ASSUME ClientInit PROVE JobInv /\ LifeInv
    OBVIOUS
  <1>1. TicketInv
    BY ClientInitTicketInv
  <1>2. ClientTypes /\ JobPhases
    BY DEF ClientInit, ClientTypes, JobPhases, Jobs
  <1>3. LifeInv
    BY DEF ClientInit, LifeInv, UpgradeLast, DestroyedInv, UpgradeKeepsRequests
  <1>4. QED
    BY <1>1, <1>2, <1>3 DEF JobInv

\* The window of tickets, the phases and the lifetime hold throughout.
LEMMA ClientCorrect == ClientSpec => [](JobInv /\ LifeInv)
  BY ClientInitJobInv, ClientJobInv, ClientLifeInv, PTL DEF ClientSpec

\* Every request made before an upgrade is safe, whenever the owner lets go: no
\* coroutine uses a destroyed connection.
THEOREM UpgradeKeeps == ClientSpec => []UpgradeKeepsRequests
  BY ClientCorrect, PTL DEF LifeInv

-----------------------------------------------------------------------------

\* The coroutine whose turn it is has written and not read yet.
InPipe == \E t \in Ticket : t = serving /\ task[t] \in {"reading", "handshaking"}

\* Nothing is under way between client and peer.
Idle == ~garbled => replies = <<>> /\ (peer = "up" => sent = <<>>)

\* At most one request is under way, that of the coroutine whose turn it is.
PipeInv ==
  /\ ~garbled =>
       /\ replies # <<>> => replies = <<serving>> /\ InPipe
       /\ peer = "up" /\ sent # <<>> =>
            sent = <<serving>> /\ InPipe /\ replies = <<>>
  /\ RightResponse

\* Outside of the two phases nothing is under way.
LEMMA PipeIdle == PipeInv /\ ~InPipe => Idle
  BY DEF PipeInv, Idle

\* A step that touches neither the stream nor the coroutine that uses it.
LEMMA PipeStutter ==
  ASSUME PipeInv, UNCHANGED <<stream, answer>>,
         Idle \/ (serving' = serving /\ InPipe' = InPipe)
  PROVE  PipeInv'
  BY DEF PipeInv, Idle, RightResponse, stream

\* Who holds the turn, and whether it is under way.
LEMMA TurnFacts ==
  ASSUME JobInv, NEW t \in Ticket
  PROVE  /\ task[t] \in HeldPhases => t = serving
         /\ task[t] \in {"connecting", "sending", "answered"} => ~InPipe
         /\ task[t] = "waiting" /\ t = serving => ~InPipe
         /\ task[t] \in {"reading", "handshaking"} => t = serving /\ InPipe
  BY ClientPhases
  DEF JobInv, TicketInv, HolderIsServed, Holding, InPipe

\* A coroutine that does not write or read leaves the pipe as it is.
LEMMA PipeMove ==
  ASSUME NEW t \in Ticket, serving' = serving,
         task[t] \notin {"reading", "handshaking"},
         task'[t] \notin {"reading", "handshaking"},
         \A u \in Ticket : u # t => task'[u] = task[u]
  PROVE  InPipe' = InPipe
  <1>1. \A u \in Ticket : task'[u] \in {"reading", "handshaking"}
                           <=> task[u] \in {"reading", "handshaking"}
    OBVIOUS
  <1>2. QED
    BY <1>1 DEF InPipe

\* What a coroutine writes is under way from then on.
LEMMA PipeWrite ==
  ASSUME JobInv, PipeInv, NEW t \in Ticket,
         task[t] = "sending" \/ (task[t] = "waiting" /\ t = serving),
         NEW to \in {"reading", "handshaking"},
         task' = [task EXCEPT ![t] = to],
         sent' = IF peer = "up" THEN Append(sent, t) ELSE sent,
         UNCHANGED <<serving, peer, replies, garbled, answer>>
  PROVE  PipeInv'
  <1>1. t = serving /\ ~InPipe
    BY TurnFacts, ClientPhases
  <1>2. Idle
    BY <1>1, PipeIdle
  <1>3. InPipe'
    BY <1>1 DEF InPipe, JobInv, TicketInv, Window
  <1>4. RightResponse'
    BY DEF PipeInv, RightResponse
  <1>5. ~garbled /\ peer = "up" => sent' = <<t>> /\ replies' = <<>>
    BY <1>2 DEF Idle
  <1>6. ~garbled => replies' = <<>>
    BY <1>2 DEF Idle
  <1>7. QED
    BY <1>1, <1>3, <1>4, <1>5, <1>6 DEF PipeInv

\* What a coroutine reads is the answer to what it wrote, and the last that was
\* under way.
LEMMA PipeRead ==
  ASSUME JobInv, PipeInv, NEW t \in Ticket,
         task[t] \in {"reading", "handshaking"},
         replies # <<>>, ~garbled
  PROVE  /\ Head(replies) = t
         /\ Tail(replies) = <<>>
         /\ peer = "up" => sent = <<>>
  <1>1. t = serving
    BY TurnFacts
  <1>2. replies = <<t>>
    BY <1>1 DEF PipeInv
  <1>3. peer = "up" => sent = <<>>
    BY DEF PipeInv
  <1>4. QED
    BY <1>2, <1>3

\* The response that is read is the one to the request that was written last,
\* as long as the parser keeps its place.
LEMMA ClientPipeInv == JobInv /\ PipeInv /\ [Next]_vars => PipeInv'
  <1> SUFFICES ASSUME JobInv, PipeInv, [Next]_vars PROVE PipeInv'
    OBVIOUS
  <1>1. answer \in [Ticket -> {"none", "own", "other", "error"}]
    BY DEF JobInv, ClientTypes
  <1>2. 0 \in Ticket
    BY MaxTicketsAssumption DEF Ticket
  <1>3. CASE Connect
    <2>1. ~InPipe
      BY <1>2, <1>3, TurnFacts DEF Connect, Return
    <2>2. QED
      BY <1>3, <2>1, PipeIdle, PipeStutter DEF Connect
  <1>4. CASE ConnectFails
    <2>1. /\ task[0] = "connecting" /\ task'[0] = "abandoned"
          /\ \A u \in Ticket : u # 0 => task'[u] = task[u]
          /\ serving' = serving /\ UNCHANGED <<stream, answer>>
      BY <1>2, <1>4 DEF ConnectFails, Proceed, JobInv, TicketInv, Window
    <2>2. InPipe' = InPipe
      BY <1>2, <2>1, PipeMove
    <2>3. QED
      BY <2>1, <2>2, PipeStutter
  <1>5. CASE Request \/ Upgrade
    <2>1. /\ ticket \in Ticket /\ task[ticket] = "free"
          /\ task'[ticket] = "spawned" /\ serving' = serving
          /\ \A u \in Ticket : u # ticket => task'[u] = task[u]
      BY <1>5, MaxTicketsAssumption
      DEF Request, Upgrade, Issue, JobInv, TicketInv, Window, Ticket
    <2>2. InPipe' = InPipe
      BY <2>1, PipeMove
    <2>3. QED
      BY <1>5, <2>1, <2>2, PipeStutter DEF Request, Upgrade
  <1>6. CASE OwnerLeaves \/ UNCHANGED vars
    <2>1. serving' = serving /\ InPipe' = InPipe /\ UNCHANGED <<stream, answer>>
      BY <1>6 DEF OwnerLeaves, vars, ticketVars, stream, InPipe
    <2>2. QED
      BY <2>1, PipeStutter
  <1>7. CASE PeerReplies
    <2>1. /\ peer = "up" /\ sent # <<>> /\ sent' = Tail(sent)
          /\ replies' = Append(replies, Head(sent))
          /\ UNCHANGED <<serving, task, peer, garbled, answer>>
      BY <1>7 DEF PeerReplies, ticketVars
    <2>2. RightResponse' /\ InPipe' = InPipe
      BY <2>1 DEF PipeInv, RightResponse, InPipe
    <2>3. ASSUME ~garbled
          PROVE  replies' = <<serving>> /\ sent' = <<>> /\ InPipe
      <3>1. sent = <<serving>> /\ replies = <<>> /\ InPipe
        BY <2>1, <2>3 DEF PipeInv
      <3>2. QED
        BY <2>1, <3>1
    <2>4. QED
      BY <2>1, <2>2, <2>3 DEF PipeInv
  <1>8. CASE PeerCloses
    BY <1>8 DEF PeerCloses, ticketVars, PipeInv, RightResponse, InPipe
  <1>9. ASSUME NEW t \in Ticket, Task(t) PROVE PipeInv'
    <2>1. CASE Start(t)
      <3>1. /\ task[t] = "spawned" /\ task'[t] = "waiting"
            /\ \A u \in Ticket : u # t => task'[u] = task[u]
            /\ serving' = serving /\ UNCHANGED <<stream, answer>>
        BY <2>1 DEF Start, Begin, JobInv, TicketInv, Window
      <3>2. InPipe' = InPipe
        BY <3>1, PipeMove
      <3>3. QED
        BY <3>1, <3>2, PipeStutter
    <2>2. CASE Poll(t) \/ UpgradeThrows(t) \/ UseAfterDestroy(t)
      <3>1. serving' = serving /\ InPipe' = InPipe /\ UNCHANGED <<stream, answer>>
        BY <2>2
        DEF Poll, UpgradeThrows, UseAfterDestroy, vars, ticketVars, stream,
            InPipe
      <3>2. QED
        BY <3>1, PipeStutter
    <2>3. CASE BeginRequest(t)
      <3>1. /\ task[t] = "waiting" /\ task'[t] = "sending"
            /\ \A u \in Ticket : u # t => task'[u] = task[u]
            /\ serving' = serving /\ UNCHANGED <<stream, answer>>
        BY <2>3 DEF BeginRequest, TakeTurn, JobInv, TicketInv, Window
      <3>2. InPipe' = InPipe
        BY <3>1, PipeMove
      <3>3. QED
        BY <3>1, <3>2, PipeStutter
    <2>4. CASE WriteRequest(t)
      BY <2>4, PipeWrite DEF WriteRequest, Proceed
    <2>5. CASE BeginUpgrade(t)
      BY <2>5, PipeWrite DEF BeginUpgrade, TakeTurn
    <2>6. CASE ReadResponse(t)
      <3>1. /\ replies # <<>> /\ ~garbled /\ task[t] = "reading"
            /\ replies' = Tail(replies)
            /\ answer' = [answer EXCEPT ![t] = IF Head(replies) = t THEN "own"
                                                                ELSE "other"]
            /\ UNCHANGED <<peer, sent, garbled>>
        BY <2>6 DEF ReadResponse, Answer, Proceed
      <3>2. /\ Head(replies) = t /\ Tail(replies) = <<>>
            /\ peer = "up" => sent = <<>>
        BY <3>1, PipeRead
      <3>3. RightResponse'
        BY <1>1, <3>1, <3>2 DEF PipeInv, RightResponse
      <3>4. QED
        BY <3>1, <3>2, <3>3 DEF PipeInv
    <2>7. CASE ReadRefused(t) \/ ReadGarbage(t)
      BY <2>7 DEF ReadRefused, ReadGarbage, PipeInv, RightResponse
    <2>8. CASE ReadFails(t)
      <3>1. /\ peer' = "closed" /\ replies' = <<>> /\ garbled' = garbled
            /\ answer' = [answer EXCEPT ![t] = "error"]
        BY <2>8 DEF ReadFails, Answer
      <3>2. RightResponse'
        BY <1>1, <3>1 DEF PipeInv, RightResponse
      <3>3. QED
        BY <3>1, <3>2 DEF PipeInv
    <2>9. CASE Finish(t)
      <3>1. ~InPipe
        BY <2>9, TurnFacts DEF Finish, Return
      <3>2. QED
        BY <2>9, <3>1, PipeIdle, PipeStutter DEF Finish
    <2>10. CASE EndUpgrade(t)
      <3>1. task[t] = "handshaking" /\ UNCHANGED <<peer, sent, garbled, answer>>
        BY <2>10 DEF EndUpgrade, Return
      <3>2. RightResponse'
        BY <3>1 DEF PipeInv, RightResponse
      <3>3. ASSUME ~garbled PROVE replies' = <<>> /\ (peer = "up" => sent = <<>>)
        BY <2>10, <3>1, <3>3, PipeRead DEF EndUpgrade
      <3>4. QED
        BY <3>1, <3>2, <3>3 DEF PipeInv
    <2>11. QED
      BY <1>9, <2>1, <2>2, <2>3, <2>4, <2>5, <2>6, <2>7, <2>8, <2>9, <2>10
      DEF Task
  <1>10. QED
    BY <1>3, <1>4, <1>5, <1>6, <1>7, <1>8, <1>9 DEF Next, Over

\* A completion handler is given the response to its own request, or an error,
\* unless the parser lost its place in the stream.
THEOREM RightAnswered == ClientSpec => []RightResponse
  <1>1. ClientInit => PipeInv
    BY DEF ClientInit, PipeInv, RightResponse
  <1>2. PipeInv => RightResponse
    BY DEF PipeInv
  <1>3. QED
    BY <1>1, <1>2, ClientPipeInv, ClientCorrect, PTL DEF ClientSpec

-----------------------------------------------------------------------------

Counts(n, c, u) == [tasks |-> n, connections |-> c, upgrades |-> u]

\* What an update does to the three counters.
LEMMA CountsExcept ==
  ASSUME NEW n, NEW c, NEW u, NEW m
  PROVE  /\ [Counts(n, c, u) EXCEPT !.tasks = m] = Counts(m, c, u)
         /\ [Counts(n, c, u) EXCEPT !.connections = m] = Counts(n, m, u)
         /\ [Counts(n, c, u) EXCEPT !.upgrades = m] = Counts(n, c, m)
         /\ Counts(n, c, u).tasks = n
         /\ Counts(n, c, u).connections = c
         /\ Counts(n, c, u).upgrades = u
  BY DEF Counts

\* The requests that have reported their start and not their end.
Reported == {t \in Requests : task[t] \in {"waiting"} \cup HeldPhases}

\* They are finitely many.
LEMMA ReportedFinite ==
  /\ IsFiniteSet(Reported) /\ Cardinality(Reported) \in Nat
  /\ IsFiniteSet(Reported)' /\ Cardinality(Reported)' \in Nat
  <1>1. IsFiniteSet(Ticket)
    BY FS_Interval, MaxTicketsAssumption DEF Ticket
  <1>2. Reported \subseteq Ticket /\ Reported' \subseteq Ticket
    BY DEF Reported, Requests
  <1>3. QED
    BY <1>1, <1>2, FS_Subset, FS_CardinalityType

Made == IF Connected THEN 1 ELSE 0

\* The counters are what the connection owes them, whatever the process came
\* to: nothing is counted in a step that ends it.
CountsInv ==
  stats = Counts(Cardinality(Reported), Made - (IF destroyed THEN 1 ELSE 0),
                 IF open /\ ~destroyed THEN 1 ELSE 0)

\* The websocket is open once its upgrade has ended.
OpenInv == open => \E t \in Ticket : job[t] = "upgrade" /\ task[t] = "done"

\* While the connection exists.
LEMMA CountsAlive ==
  ASSUME ~destroyed
  PROVE  CountsInv <=> stats = Counts(Cardinality(Reported), Made,
                                      IF open THEN 1 ELSE 0)
  BY DEF CountsInv, Made

\* The connection gives back what it took, or keeps it with its references.
LEMMA ReleaseCounts ==
  ASSUME ~destroyed,
         NEW n, NEW s,
         n = Cardinality(Reported)',
         s = Counts(n, Made', IF open' THEN 1 ELSE 0),
         Release(s)
  PROVE  CountsInv'
  <1> DEFINE c == Made'
             u == IF open' THEN 1 ELSE 0
  <1>1. c \in {0, 1} /\ u \in {0, 1}
    BY DEF Made
  <1>2. s = Counts(n, c, u)
    OBVIOUS
  <1>3. CASE Referenced'
    <2>1. stats' = s /\ ~destroyed'
      BY <1>3 DEF Release
    <2>2. Made' - 0 = Made'
      BY DEF Made
    <2>3. QED
      BY <2>1, <2>2 DEF CountsInv
  <1>4. CASE ~Referenced'
    <2>1. destroyed' = TRUE
          /\ stats' = [s EXCEPT !.connections = @ - 1,
                                !.upgrades = @ - (IF open' THEN 1 ELSE 0)]
      BY <1>4 DEF Release
    <2>2. CountsInv' <=> stats' = Counts(n, c - 1, 0)
      BY <2>1 DEF CountsInv
    <2> HIDE DEF c, u
    <2>3. /\ n \in Int /\ c \in Int /\ u \in Int
          /\ c - 1 \in Int /\ 0 \in Int /\ u - (IF open' THEN 1 ELSE 0) = 0
      BY <1>1, ReportedFinite DEF u
    <2>4. /\ s \in [Counters -> Int]
          /\ s["tasks"] = n /\ s["connections"] = c /\ s["upgrades"] = u
          /\ s.connections = c /\ s.upgrades = u
      BY <1>2, <2>3 DEF Counts, Counters
    <2> DEFINE x == c - 1
               after == Counts(n, x, 0)
    <2>5. stats' = [s EXCEPT !["connections"] = x, !["upgrades"] = 0]
      BY <2>1, <2>3, <2>4
    <2> HIDE DEF x
    <2>6. x \in Int
      BY <2>3 DEF x
    <2>7. /\ stats' \in [Counters -> Int]
          /\ stats'["tasks"] = n /\ stats'["connections"] = x
          /\ stats'["upgrades"] = 0
      BY <2>3, <2>4, <2>5, <2>6 DEF Counters
    <2>8. /\ after \in [Counters -> Int]
          /\ after["tasks"] = n /\ after["connections"] = x
          /\ after["upgrades"] = 0
      BY <2>3, <2>6 DEF Counts, Counters
    <2> HIDE DEF after
    <2>9. stats' = after
      BY <2>7, <2>8 DEF Counters
    <2>10. QED
      BY <2>2, <2>9 DEF after, x
  <1>5. QED
    BY <1>3, <1>4

\* A step that changes none of what is counted.
LEMMA CountsStutter ==
  ASSUME CountsInv, UNCHANGED <<open, destroyed, stats>>,
         Reported' = Reported, Connected' = Connected
  PROVE  CountsInv'
  BY DEF CountsInv, Made

\* The websocket stays open, and its upgrade done.
LEMMA ClientOpenInv == JobInv /\ OpenInv /\ [Next]_vars => OpenInv'
  <1> SUFFICES ASSUME JobInv, OpenInv, [Next]_vars PROVE OpenInv'
    OBVIOUS
  <1>1. /\ task \in [Ticket -> Phases] /\ job \in [Ticket -> Jobs]
        /\ ticket \in Ticket => task[ticket] = "free"
    BY MaxTicketsAssumption DEF JobInv, ClientTypes, TicketInv, Window
  <1>2. ASSUME NEW u \in Ticket, job[u] = "upgrade", task[u] = "done"
        PROVE  job'[u] = "upgrade" /\ task'[u] = "done"
    <2>1. CASE Take("request") \/ Take("upgrade")
      BY <1>1, <1>2, <2>1 DEF Take, Issue
    <2>2. CASE \E t \in Ticket : \E from, to \in Phases : Move(t, from, to)
      BY <1>1, <1>2, <2>2 DEF Move, Moves
    <2>3. CASE UNCHANGED <<ticket, serving, task, job>>
      BY <1>2, <2>3
    <2>4. QED
      BY <2>1, <2>2, <2>3, ClientStep
  <1>3. ASSUME NEW t \in Ticket, EndUpgrade(t) PROVE OpenInv'
    <2>1. job'[t] = "upgrade"
      <3>1. task[t] = "handshaking" /\ job' = job
        BY <1>3 DEF EndUpgrade, Return
      <3>2. job[t] \in Jobs
        BY <1>1
      <3>3. QED
        BY <3>1, <3>2 DEF Jobs, JobInv, JobPhases
    <2>2. task'[t] = "done"
      BY <1>1, <1>3 DEF EndUpgrade, Return
    <2>3. QED
      BY <2>1, <2>2 DEF OpenInv
  <1>4. ASSUME UNCHANGED open PROVE OpenInv'
    BY <1>2, <1>4 DEF OpenInv
  <1>5. QED
    BY <1>3, <1>4
    DEF Next, Over, Connect, ConnectFails, Request, Upgrade, OwnerLeaves,
        PeerReplies, PeerCloses, Task, Start, Poll, BeginRequest,
        WriteRequest, ReadResponse, ReadRefused, ReadGarbage, ReadFails,
        Answer, Finish, BeginUpgrade, UpgradeThrows, UseAfterDestroy, vars

\* How a coroutine's move changes what is counted.
LEMMA ReportedMove ==
  ASSUME JobInv, NEW t \in Ticket, NEW to, job' = job,
         task' = [task EXCEPT ![t] = to]
  PROVE  /\ job[t] # "request" => Reported' = Reported
         /\ /\ job[t] = "request"
            /\ to \in {"waiting"} \cup HeldPhases
            /\ task[t] \in {"waiting"} \cup HeldPhases
            => Reported' = Reported
         /\ job[t] = "request" /\ task[t] = "spawned" /\ to = "waiting" =>
              t \notin Reported /\ Reported' = Reported \cup {t}
         /\ job[t] = "request" /\ task[t] = "answered" /\ to = "done" =>
              t \in Reported /\ Reported' = Reported \ {t}
         /\ t # 0 => Connected' = Connected
  <1>1. \A u \in Ticket : task'[u] = IF u = t THEN to ELSE task[u]
    BY DEF JobInv, TicketInv, Window
  <1>2. 0 \in Ticket
    BY MaxTicketsAssumption DEF Ticket
  <1>3. Reported' = {u \in Ticket : job[u] = "request"
                                    /\ task'[u] \in {"waiting"} \cup HeldPhases}
    BY DEF Reported, Requests
  <1>4. Reported = {u \in Ticket : job[u] = "request"
                                   /\ task[u] \in {"waiting"} \cup HeldPhases}
    BY DEF Reported, Requests
  <1>5. t # 0 => Connected' = Connected
    BY <1>1, <1>2 DEF Connected
  <1>6. job[t] # "request" => Reported' = Reported
    BY <1>1, <1>3, <1>4
  <1>7. ASSUME job[t] = "request", to \in {"waiting"} \cup HeldPhases,
               task[t] \in {"waiting"} \cup HeldPhases
        PROVE  Reported' = Reported
    BY <1>1, <1>3, <1>4, <1>7
  <1>8. ASSUME job[t] = "request", task[t] = "spawned", to = "waiting"
        PROVE  t \notin Reported /\ Reported' = Reported \cup {t}
    BY <1>1, <1>3, <1>4, <1>8, ClientPhases
  <1>9. ASSUME job[t] = "request", task[t] = "answered", to = "done"
        PROVE  t \in Reported /\ Reported' = Reported \ {t}
    BY <1>1, <1>3, <1>4, <1>9, ClientPhases
  <1>10. QED
    BY <1>5, <1>6, <1>7, <1>8, <1>9

\* Every step keeps the counters at what the connection owes them.
LEMMA ClientCountsInv ==
  JobInv /\ LifeInv /\ OpenInv /\ CountsInv /\ [Next]_vars => CountsInv'
  <1> SUFFICES ASSUME JobInv, LifeInv, OpenInv, CountsInv, [Next]_vars
               PROVE  CountsInv'
    OBVIOUS
  <1> DEFINE n == Cardinality(Reported)
             u == IF open THEN 1 ELSE 0
  <1>1. /\ n \in Nat /\ Made \in {0, 1} /\ u \in {0, 1}
    BY ReportedFinite DEF Made
  <1>2. ~destroyed => stats = Counts(n, Made, u)
    BY CountsAlive
  <1>3. 0 \in Ticket /\ job[0] = "connect"
    BY MaxTicketsAssumption DEF Ticket, JobInv, JobPhases
  <1>4. CASE Connect
    <2>1. /\ ~destroyed /\ open' = open /\ job' = job
          /\ task[0] = "connecting" /\ task' = [task EXCEPT ![0] = "done"]
          /\ Release([stats EXCEPT !.connections = @ + 1])
      BY <1>4 DEF Connect, Alive, Return
    <2>2. Reported' = Reported
      BY <1>3, <2>1, ReportedMove
    <2>3. Made = 0 /\ Made' = 1
      BY <1>3, <2>1 DEF Made, Connected, JobInv, TicketInv, Window
    <2>4. [stats EXCEPT !.connections = @ + 1] = Counts(n, 1, u)
      <3>1. stats = Counts(n, 0, u)
        BY <1>2, <2>1, <2>3
      <3>2. stats.connections + 1 = 1
        BY <3>1 DEF Counts
      <3> HIDE DEF n, u
      <3>3. QED
        BY <3>1, <3>2, CountsExcept
    <2>5. QED
      BY <2>1, <2>2, <2>3, <2>4, ReleaseCounts
  <1>5. CASE ConnectFails \/ OwnerLeaves
    <2>1. ~destroyed /\ open' = open /\ Release(stats)
      BY <1>5 DEF ConnectFails, OwnerLeaves, Alive
    <2>2. Reported' = Reported /\ Made' = Made
      <3>1. CASE ConnectFails
        <4>1. /\ job' = job /\ task[0] = "connecting"
              /\ task' = [task EXCEPT ![0] = "abandoned"]
          BY <3>1 DEF ConnectFails, Proceed
        <4>2. Reported' = Reported
          BY <1>3, <4>1, ReportedMove
        <4>3. QED
          BY <1>3, <4>1, <4>2
          DEF Made, Connected, JobInv, TicketInv, Window
      <3>2. CASE OwnerLeaves
        BY <3>2
        DEF OwnerLeaves, ticketVars, Reported, Requests, Made, Connected
      <3>3. QED
        BY <1>5, <3>1, <3>2
    <2>3. QED
      BY <1>2, <2>1, <2>2, ReleaseCounts
  <1>6. CASE Request \/ Upgrade
    <2>1. /\ ticket \in Ticket /\ task[ticket] = "free" /\ job[ticket] = "none"
          /\ task' = [task EXCEPT ![ticket] = "spawned"]
          /\ \E k \in Jobs : job' = [job EXCEPT ![ticket] = k]
          /\ UNCHANGED <<open, destroyed, stats>>
      BY <1>6, MaxTicketsAssumption
      DEF Request, Upgrade, Issue, JobInv, JobPhases, TicketInv, Window, Ticket,
          Jobs
    <2>2. \A v \in Ticket : v # ticket => task'[v] = task[v] /\ job'[v] = job[v]
      BY <2>1 DEF JobInv, ClientTypes, TicketInv, Window
    <2>3. task'[ticket] = "spawned"
      BY <2>1 DEF JobInv, TicketInv, Window
    <2>4. Reported' = Reported
      BY <2>1, <2>2, <2>3, ClientPhases DEF Reported, Requests
    <2>5. Connected' = Connected
      BY <1>3, <2>1, <2>2 DEF Connected
    <2>6. QED
      BY <2>1, <2>4, <2>5, CountsStutter
  <1>7. CASE PeerReplies \/ PeerCloses \/ UNCHANGED vars
    BY <1>7, CountsStutter
    DEF PeerReplies, PeerCloses, vars, ticketVars, Reported, Requests, Connected
  <1>8. ASSUME NEW t \in Ticket, Task(t) PROVE CountsInv'
    <2>1. job[t] = "connect" <=> t = 0
      BY DEF JobInv, JobPhases
    <2>2. CASE Start(t)
      <3>1. /\ ~destroyed /\ UNCHANGED <<open, destroyed, job>>
            /\ task[t] = "spawned" /\ task' = [task EXCEPT ![t] = "waiting"]
            /\ job[t] = "request" => stats' = [stats EXCEPT !.tasks = @ + 1]
            /\ job[t] # "request" => stats' = stats
        BY <2>2 DEF Start, Begin, Alive
      <3>2. t # 0 /\ Connected' = Connected
        BY <1>3, <3>1, ReportedMove DEF JobInv, JobPhases
      <3>3. CASE job[t] # "request"
        BY <3>1, <3>2, <3>3, ReportedMove, CountsStutter
      <3>4. CASE job[t] = "request"
        <4>1. t \notin Reported /\ Reported' = Reported \cup {t}
          BY <3>1, <3>4, ReportedMove
        <4>2. Cardinality(Reported)' = n + 1
          BY <4>1, ReportedFinite, FS_AddElement
        <4>3. Made' = Made
          BY <3>2 DEF Made
        <4>4. stats' = Counts(n + 1, Made, u)
          <5>1. stats = Counts(n, Made, u)
            BY <1>2, <3>1
          <5>2. stats.tasks = n
            BY <5>1 DEF Counts
          <5> HIDE DEF n, u
          <5>3. QED
            BY <3>1, <3>4, <5>1, <5>2, CountsExcept
        <4>5. CountsInv' <=> stats' = Counts(n + 1, Made, u)
          BY <1>1, <3>1, <4>2, <4>3 DEF CountsInv
        <4>6. QED
          BY <4>4, <4>5
      <3>5. QED
        BY <3>3, <3>4
    <2>3. CASE Finish(t)
      <3>1. /\ ~destroyed /\ UNCHANGED <<open, destroyed, job>>
            /\ task[t] = "answered" /\ task' = [task EXCEPT ![t] = "done"]
            /\ stats' = [stats EXCEPT !.tasks = @ - 1]
        BY <2>3 DEF Finish, Return, Alive
      <3>2. job[t] = "request" /\ t # 0
        <4>1. job[t] \in Jobs
          BY DEF JobInv, ClientTypes
        <4>2. QED
          BY <1>3, <3>1, <4>1 DEF Jobs, JobInv, JobPhases
      <3>3. /\ Connected' = Connected
            /\ t \in Reported /\ Reported' = Reported \ {t}
        BY <3>1, <3>2, ReportedMove
      <3>4. Cardinality(Reported)' = n - 1
        BY <3>3, ReportedFinite, FS_RemoveElement
      <3>5. Made' = Made
        BY <3>3 DEF Made
      <3>6. stats' = Counts(n - 1, Made, u)
        <4>1. stats = Counts(n, Made, u)
          BY <1>2, <3>1
        <4>2. stats.tasks = n
          BY <4>1 DEF Counts
        <4> HIDE DEF n, u
        <4>3. QED
          BY <3>1, <4>1, <4>2, CountsExcept
      <3>7. CountsInv' <=> stats' = Counts(n - 1, Made, u)
        BY <1>1, <3>1, <3>4, <3>5 DEF CountsInv
      <3>8. QED
        BY <3>6, <3>7
    <2>4. CASE EndUpgrade(t)
      <3>1. /\ ~destroyed /\ open' = TRUE /\ job' = job
            /\ task[t] = "handshaking" /\ task' = [task EXCEPT ![t] = "done"]
            /\ Release([stats EXCEPT !.upgrades = @ + 1])
        BY <2>4 DEF EndUpgrade, Return, Alive
      <3>2. job[t] = "upgrade" /\ t # 0
        <4>1. job[t] \in Jobs
          BY DEF JobInv, ClientTypes
        <4>2. QED
          BY <1>3, <3>1, <4>1 DEF Jobs, JobInv, JobPhases
      <3>3. ~open
        <4>1. ASSUME NEW v \in Ticket, job[v] = "upgrade" PROVE v = t
          BY <3>2, <4>1, MaxTicketsAssumption DEF LifeInv, UpgradeLast, Ticket
        <4>2. QED
          BY <3>1, <4>1 DEF OpenInv
      <3>4. Connected' = Connected /\ Reported' = Reported
        BY <3>1, <3>2, ReportedMove
      <3>5. Made' = Made /\ u = 0
        BY <3>3, <3>4 DEF Made
      <3>6. [stats EXCEPT !.upgrades = @ + 1] = Counts(n, Made, 1)
        <4>1. stats = Counts(n, Made, 0)
          BY <1>2, <3>1, <3>5
        <4>2. stats.upgrades + 1 = 1
          BY <4>1 DEF Counts
        <4> HIDE DEF n
        <4>3. QED
          BY <4>1, <4>2, CountsExcept
      <3>7. QED
        BY <3>1, <3>4, <3>5, <3>6, ReleaseCounts
    <2>5. CASE BeginRequest(t) \/ WriteRequest(t) \/ ReadResponse(t)
               \/ ReadRefused(t) \/ ReadGarbage(t) \/ ReadFails(t)
               \/ BeginUpgrade(t)
      <3>1. /\ task[t] \in {"waiting", "sending", "reading"} /\ job' = job
            /\ \E to \in HeldPhases : task' = [task EXCEPT ![t] = to]
            /\ UNCHANGED <<open, destroyed, stats>>
        BY <2>5, ClientPhases
        DEF BeginRequest, WriteRequest, ReadResponse, ReadRefused, ReadGarbage,
            ReadFails, Answer, BeginUpgrade, TakeTurn, Proceed
      <3>2. t # 0
        BY <1>3, <3>1 DEF JobInv, JobPhases
      <3>3. Connected' = Connected /\ Reported' = Reported
        BY <3>1, <3>2, ReportedMove, ClientPhases
      <3>4. QED
        BY <3>1, <3>3, CountsStutter
    <2>6. CASE Poll(t) \/ UpgradeThrows(t) \/ UseAfterDestroy(t)
      BY <2>6, CountsStutter
      DEF Poll, UpgradeThrows, UseAfterDestroy, vars, ticketVars, Reported,
          Requests, Connected
    <2>7. QED
      BY <1>8, <2>2, <2>3, <2>4, <2>5, <2>6 DEF Task
  <1>9. QED
    BY <1>4, <1>5, <1>6, <1>7, <1>8 DEF Next, Over

\* What a connection took of the server's counters it has given back when it
\* was destroyed, and it holds no more than its share before.
THEOREM ClientBalance == ClientSpec => []ClientStatsBalance
  <1>1. ClientInit => CountsInv /\ OpenInv
    <2> SUFFICES ASSUME ClientInit PROVE CountsInv
      BY DEF ClientInit, OpenInv
    <2>1. 0 \in Ticket
      BY MaxTicketsAssumption DEF Ticket
    <2>2. Reported = {} /\ ~Connected
      BY <2>1, ClientPhases DEF ClientInit, Reported, Requests, Connected
    <2>3. stats = Counts(0, 0, 0)
      BY DEF ClientInit, Counters, Counts
    <2>4. QED
      BY <2>2, <2>3, FS_EmptySet DEF ClientInit, CountsInv, Made
  <1>2. CountsInv => ClientStatsBalance
    BY DEF CountsInv, ClientStatsBalance, Counts, Made, Reported
  <1>3. QED
    BY <1>1, <1>2, ClientCountsInv, ClientOpenInv, ClientCorrect, PTL
    DEF ClientSpec
=============================================================================
