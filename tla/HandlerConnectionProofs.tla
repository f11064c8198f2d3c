----------------------- MODULE HandlerConnectionProofs -----------------------
(***************************************************************************)
(* Proofs about the two connections whose handlers keep state of their     *)
(* own, SessionConnection and PushConnection: each is a connection, so     *)
(* what ConnectionProofs proves is kept, and each promises something more. *)
(* NamesAssumption is about the first only and PushAssumption, which the   *)
(* proofs of the first part do not cite, about the second.                 *)
(***************************************************************************)
EXTENDS SessionConnection, PushConnection, ConnectionProofs

(***************************************************************************)
(* Sessions, for every number of tickets and every set of names: the       *)
(* service a call reaches is the one its peer named last.                  *)
(***************************************************************************)

\* The session adds variables to a connection and takes no step of its own.
LEMMA SessionStep == [SessionNext]_sessionVars => [Next]_vars
  <1> SUFFICES ASSUME [SessionNext]_sessionVars PROVE [Next]_vars
    OBVIOUS
  <1>1. ASSUME NEW kind, NEW name, Message(kind, name) PROVE Next
    BY <1>1 DEF Message, Next, Serve
  <1>2. ASSUME NEW t \in Ticket, HandleMessage(t) \/ FailReply(t) PROVE Next
    BY <1>2 DEF HandleMessage, FailReply, Next, Task
  <1>3. CASE Elsewhere
    BY <1>3 DEF Elsewhere, Next, Serve, Task
  <1>4. CASE UNCHANGED sessionVars
    BY <1>4 DEF sessionVars
  <1>5. QED
    BY <1>1, <1>2, <1>3, <1>4 DEF SessionNext

\* A session is a connection: what is proved of Connection holds of it.
THEOREM SessionIsConnection == SessionSpec => Spec
  <1>1. SessionInit => Init
    BY DEF SessionInit
  <1>2. QED
    BY <1>1, SessionStep, PTL DEF SessionSpec, Spec

-----------------------------------------------------------------------------

Broken == peer = "broken"

\* What the session holds is what was said, or what a failed reply left of it.
IsSelected(name) == service = name \/ (Broken /\ service = Nothing)

\* A text message that has not been handled yet.
Unheard ==
  /\ ticket > 0
  /\ task[ticket - 1] = "spawned"
  /\ job[ticket - 1] = "text"

SessionTypes ==
  /\ named \in [Ticket -> Names \cup {Nothing}]
  /\ called \in [Ticket -> Names \cup {Nothing}]

\* serve reads on only when the coroutine it spawned has run.
SpawnedLast ==
  \A t \in Ticket : /\ task[t] = "spawned" => ticket = t + 1
                    /\ job[t] # "push"

\* Nothing is said before the handshake.
Silence ==
  pc \in {"reading", "accepting"} =>
    service = Nothing /\ \A t \in Ticket : named[t] = Nothing

Selected == Unheard \/ IsSelected(Said)

Called ==
  \A t \in Ticket :
    job[t] = "binary" /\ task[t] \notin {"free", "spawned"}
      => called[t] = named[t] \/ (Broken /\ called[t] = Nothing)

SessionInv == SessionTypes /\ SpawnedLast /\ Silence /\ Selected /\ Called

\* When serve runs, no coroutine is still to start.
LEMMA NothingSpawned ==
  ASSUME ~StrandsCollide, TypeInv, SpawnedLast, NEW p, ServeRuns(p)
  PROVE  \A t \in Ticket : task[t] # "spawned"
  <1>1. ASSUME NEW t \in Ticket, task[t] = "spawned" PROVE FALSE
    <2>1. job[t] \in Jobs \ {"push"}
      BY <1>1 DEF TypeInv, TypeOK, JobsKnown, SpawnedLast
    <2>2. QED
      BY <1>1, <2>1 DEF ServeRuns
  <1>2. QED
    BY <1>1

\* A message takes a ticket, and what it says is remembered with it.
LEMMA MessageFacts ==
  ASSUME TypeInv, SessionTypes, NEW kind, NEW name, Message(kind, name)
  PROVE  /\ ServeRuns("websocket") /\ pc = "websocket"
         /\ UNCHANGED <<pc, peer, wire, service, called, serving>>
         /\ ticket \in Nat /\ ticket \in Ticket /\ ticket' = ticket + 1
         /\ named' = [named EXCEPT ![ticket] = name]
         /\ \A t \in Ticket :
              /\ task'[t] = IF t = ticket THEN "spawned" ELSE task[t]
              /\ job'[t] = IF t = ticket THEN kind ELSE job[t]
              /\ named'[t] = IF t = ticket THEN name ELSE named[t]
  <1>1. /\ ServeRuns("websocket") /\ pc = "websocket"
        /\ UNCHANGED <<pc, peer, wire, service, called, serving>>
        /\ ticket \in Nat /\ ticket \in Ticket /\ ticket' = ticket + 1
        /\ task' = [task EXCEPT ![ticket] = "spawned"]
        /\ named' = [named EXCEPT ![ticket] = name]
    BY MaxTicketsAssumption
    DEF Message, ReadMessage, ServeRuns, Async, Issue, TypeInv, TypeOK, Ticket
  <1>2. job' = [job EXCEPT ![ticket] = kind]
    <2>1. PICK k : job' = [job EXCEPT ![ticket] = k]
      BY DEF Message, ReadMessage, Async
    <2>2. job'[ticket] = kind /\ job'[ticket] = k
      BY <1>1, <2>1 DEF Message, TypeInv, TypeOK
    <2>3. QED
      BY <2>1, <2>2
  <1>3. QED
    BY <1>1, <1>2 DEF TypeInv, TypeOK, SessionTypes

\* The message and what came before it agree on what was said.
LEMMA MessageInv ==
  ASSUME ~StrandsCollide, TypeInv, SessionInv, NEW kind \in {"text", "binary"},
         NEW name \in Names \cup {Nothing}, Message(kind, name),
         kind = "binary" => name = Said
  PROVE  SessionInv'
  <1>1. /\ ServeRuns("websocket") /\ pc = "websocket"
        /\ UNCHANGED <<pc, peer, service, called, serving>>
        /\ ticket \in Nat /\ ticket \in Ticket /\ ticket' = ticket + 1
        /\ named' = [named EXCEPT ![ticket] = name]
    BY MessageFacts DEF SessionInv
  <1>2. \A t \in Ticket : task[t] # "spawned"
    BY <1>1, NothingSpawned DEF SessionInv
  <1>3. \A t \in Ticket :
          /\ task'[t] = IF t = ticket THEN "spawned" ELSE task[t]
          /\ job'[t] = IF t = ticket THEN kind ELSE job[t]
          /\ named'[t] = IF t = ticket THEN name ELSE named[t]
    BY MessageFacts DEF SessionInv
  <1>4. SessionTypes'
    BY <1>1 DEF SessionInv, SessionTypes
  <1>5. SpawnedLast'
    BY <1>1, <1>2, <1>3 DEF SessionInv, SpawnedLast
  <1>6. Silence'
    BY <1>1 DEF Silence
  <1>7. Selected'
    <2>1. ticket' - 1 = ticket /\ ticket' > 0 /\ Said' = name
      BY <1>1, <1>3 DEF Said
    <2>2. CASE kind = "text"
      BY <1>1, <1>3, <2>1, <2>2 DEF Selected, Unheard
    <2>3. CASE kind = "binary"
      <3>1. ~Unheard
        <4>1. ticket > 0 => ticket - 1 \in Ticket
          BY <1>1, MaxTicketsAssumption DEF Ticket
        <4>2. QED
          BY <1>2, <4>1 DEF Unheard
      <3>2. IsSelected(Said) /\ Said' = Said
        BY <2>1, <2>3, <3>1 DEF SessionInv, Selected
      <3>3. QED
        BY <1>1, <3>2 DEF Selected, IsSelected, Broken
    <2>4. QED
      BY <2>2, <2>3
  <1>8. Called'
    BY <1>1, <1>3 DEF SessionInv, Called, Broken
  <1>9. QED
    BY <1>4, <1>5, <1>6, <1>7, <1>8 DEF SessionInv

\* A handler runs while its message is the last one read.
LEMMA HandleInv ==
  ASSUME TypeInv, SessionInv, NEW t \in Ticket, HandleMessage(t)
  PROVE  SessionInv'
  <1>1. /\ task[t] = "spawned" /\ ticket = t + 1 /\ t \in Nat
        /\ UNCHANGED <<ticket, serving, job, pc, peer, named>>
        /\ \A u \in Ticket : task'[u] = IF u = t THEN "waiting" ELSE task[u]
        /\ service' = IF job[t] = "text" THEN named[t] ELSE service
        /\ called' = IF job[t] = "binary" THEN [called EXCEPT ![t] = service]
                     ELSE called
    BY MaxTicketsAssumption
    DEF HandleMessage, Start, Begin, TypeInv, TypeOK, SessionInv, SpawnedLast,
        Ticket
  <1>2. Said = named[t] /\ Said' = named[t] /\ ticket - 1 = t
    BY <1>1 DEF Said
  <1>3. IsSelected(named[t]) \/ job[t] = "text"
    BY <1>1, <1>2 DEF SessionInv, Selected, Unheard
  <1>4. service \in Names \cup {Nothing} \/ job[t] = "text"
    BY <1>3 DEF IsSelected, SessionInv, SessionTypes
  <1>5. SessionTypes'
    BY <1>1, <1>4 DEF SessionInv, SessionTypes
  <1>6. SpawnedLast'
    BY <1>1 DEF SessionInv, SpawnedLast
  <1>7. Silence'
    BY <1>1 DEF SessionInv, Silence
  <1>8. Selected'
    BY <1>1, <1>2, <1>3 DEF Selected, IsSelected, Broken
  <1>9. Called'
    <2> SUFFICES ASSUME NEW u \in Ticket, job'[u] = "binary",
                        task'[u] \notin {"free", "spawned"}
                 PROVE  \/ called'[u] = named'[u]
                        \/ Broken' /\ called'[u] = Nothing
      BY DEF Called
    <2>1. CASE u = t
      BY <1>1, <1>3, <2>1 DEF IsSelected, SessionInv, SessionTypes, Broken
    <2>2. CASE u # t
      BY <1>1, <2>2 DEF SessionInv, SessionTypes, Called, Broken
    <2>3. QED
      BY <2>1, <2>2
  <1>10. QED
    BY <1>5, <1>6, <1>7, <1>8, <1>9 DEF SessionInv

\* The reset after a failed reply is a session with nothing selected.
LEMMA FailReplyInv ==
  ASSUME TypeInv, SessionInv, NEW t \in Ticket, FailReply(t)
  PROVE  SessionInv'
  <1>1. /\ task[t] = "writing" /\ peer' = "broken"
        /\ UNCHANGED <<ticket, job, pc, named, called>>
        /\ \A u \in Ticket : task'[u] = IF u = t THEN "written" ELSE task[u]
        /\ service' = service \/ service' = Nothing
    BY DEF FailReply, FailWrite, Proceed, TypeInv, TypeOK
  <1>2. SessionTypes' /\ SpawnedLast' /\ Silence'
    BY <1>1 DEF SessionInv, SessionTypes, SpawnedLast, Silence
  <1>3. Said' = Said
    BY <1>1 DEF Said
  <1>4. ticket > 0 => ticket - 1 \in Ticket
    BY MaxTicketsAssumption DEF TypeInv, TypeOK, Ticket
  <1>5. Unheard => Unheard'
    BY <1>1, <1>4 DEF Unheard
  <1>6. Selected'
    BY <1>1, <1>3, <1>5 DEF SessionInv, Selected, IsSelected, Broken
  <1>7. Called'
    BY <1>1 DEF SessionInv, Called, Broken
  <1>8. QED
    BY <1>2, <1>6, <1>7 DEF SessionInv

\* Nothing else says, selects or calls.
LEMMA ElsewhereInv ==
  ASSUME ~StrandsCollide, TypeInv, SessionInv, Elsewhere, UNCHANGED session
  PROVE  SessionInv'
  <1>1. UNCHANGED <<named, service, called>>
    BY DEF session
  <1>2. /\ ticket \in Nat /\ MaxTickets \in Nat
        /\ job \in [Ticket -> Jobs \cup {"none"}] /\ task \in [Ticket -> Phases]
        /\ ticket > 0 => ticket - 1 \in Ticket
    BY MaxTicketsAssumption DEF TypeInv, TypeOK, Ticket
  <1>3. ASSUME UNCHANGED <<ticket, job>>, Broken => Broken',
               pc' \in {"reading", "accepting"} => pc \in {"reading", "accepting"},
               \A t \in Ticket : /\ task'[t] = "spawned" <=> task[t] = "spawned"
                                 /\ task'[t] = "free" <=> task[t] = "free"
        PROVE  SessionInv'
    <2>1. SessionTypes' /\ SpawnedLast' /\ Silence' /\ Called'
      BY <1>1, <1>3
      DEF SessionInv, SessionTypes, SpawnedLast, Silence, Called
    <2>2. Said' = Said /\ (Unheard' <=> Unheard)
      BY <1>1, <1>2, <1>3 DEF Said, Unheard
    <2>3. QED
      BY <1>1, <1>3, <2>1, <2>2 DEF SessionInv, Selected, IsSelected
  <1>4. ASSUME NEW k \in HttpJobs, Async(k), ServeRuns("reading"), UNCHANGED peer
        PROVE  SessionInv'
    <2>1. /\ pc = "reading" /\ ticket \in Ticket /\ ticket' = ticket + 1
          /\ \A t \in Ticket :
               /\ task'[t] = IF t = ticket THEN "spawned" ELSE task[t]
               /\ job'[t] = IF t = ticket THEN k ELSE job[t]
          /\ k # "push" /\ k # "binary"
      BY <1>2, <1>4 DEF Async, Issue, ServeRuns, Ticket, HttpJobs
    <2>2. \A t \in Ticket : task[t] # "spawned"
      BY <1>4, NothingSpawned DEF SessionInv
    <2>3. service = Nothing /\ \A t \in Ticket : named[t] = Nothing
      BY <2>1 DEF SessionInv, Silence
    <2>4. SessionTypes' /\ SpawnedLast' /\ Silence' /\ Called'
      BY <1>1, <1>2, <1>4, <2>1, <2>2, <2>3
      DEF SessionInv, SessionTypes, SpawnedLast, Silence, Called, Broken
    <2>5. Said' = Nothing
      BY <1>1, <1>2, <2>1, <2>3 DEF Said
    <2>6. QED
      BY <1>1, <2>3, <2>4, <2>5 DEF SessionInv, Selected, IsSelected
  <1>5. CASE ReadRequest \/ ReadUpgrade
    <2>1. CASE UNCHANGED <<ticketVars, job>>
      BY <1>3, <1>5, <2>1
      DEF ReadRequest, ReadUpgrade, ServeRuns, ticketVars, Broken
    <2>2. CASE ~UNCHANGED <<ticketVars, job>>
      BY <1>4, <1>5, <2>2, KindFacts DEF ReadRequest, ReadUpgrade
    <2>3. QED
      BY <2>1, <2>2
  <1>6. CASE AcceptUpgrade \/ FailUpgrade \/ ReadError \/ PeerLeaves \/ Terminated
    BY <1>3, <1>6
    DEF AcceptUpgrade, FailUpgrade, ReadError, PeerLeaves, Terminated,
        ticketVars, vars, Broken
  <1>7. ASSUME NEW t \in Ticket,
               Poll(t) \/ BeginWrite(t) \/ EndWrite(t) \/ Finish(t)
        PROVE  SessionInv'
    BY <1>2, <1>3, <1>7
    DEF Poll, BeginWrite, TakeTurn, EndWrite, Proceed, Finish, Return, vars,
        ticketVars, Broken
  <1>8. QED
    BY <1>5, <1>6, <1>7 DEF Elsewhere

\* What was said last is a name, or nothing was.
LEMMA SaidType == TypeInv /\ SessionTypes => Said \in Names \cup {Nothing}
  <1> SUFFICES ASSUME TypeInv, SessionTypes PROVE Said \in Names \cup {Nothing}
    OBVIOUS
  <1>1. ticket > 0 => ticket - 1 \in Ticket
    BY MaxTicketsAssumption DEF TypeInv, TypeOK, Ticket
  <1>2. ticket \in Nat
    BY DEF TypeInv, TypeOK
  <1>3. QED
    BY <1>1, <1>2 DEF Said, SessionTypes

\* Every step of a session whose coroutines start on the spot.
LEMMA NextSessionInv ==
  ~StrandsCollide /\ TypeInv /\ SessionInv /\ [SessionNext]_sessionVars
    => SessionInv'
  <1> SUFFICES ASSUME ~StrandsCollide, TypeInv, SessionInv,
                      [SessionNext]_sessionVars
               PROVE  SessionInv'
    OBVIOUS
  <1>1. Said \in Names \cup {Nothing}
    BY SaidType DEF SessionInv
  <1>2. CASE \E name \in Names : Message("text", name)
    BY <1>2, MessageInv
  <1>3. CASE Message("binary", Said)
    BY <1>1, <1>3, MessageInv
  <1>4. CASE UNCHANGED sessionVars
    BY <1>4
    DEF sessionVars, session, vars, ticketVars, SessionInv, SessionTypes,
        SpawnedLast, Silence, Selected, Called, Unheard, IsSelected, Said,
        Broken
  <1>5. QED
    BY <1>2, <1>3, <1>4, HandleInv, FailReplyInv, ElsewhereInv DEF SessionNext

\* A session starts with nothing said, selected or called.
LEMMA SessionInitInv == SessionInit => SessionInv
  <1> SUFFICES ASSUME SessionInit PROVE SessionInv
    OBVIOUS
  <1>1. /\ ticket = 0 /\ \A t \in Ticket : task[t] = "free" /\ job[t] = "none"
        /\ service = Nothing
        /\ named = [t \in Ticket |-> Nothing]
        /\ called = [t \in Ticket |-> Nothing]
    BY DEF SessionInit, Init, TicketInit
  <1>2. QED
    BY <1>1
    DEF SessionInv, SessionTypes, SpawnedLast, Silence, Selected, Called,
        IsSelected, Said

\* As long as a spawned coroutine starts on the spot, the handler of a binary
\* message calls the service named by the last text message before it, or, once
\* a reply could not be written, nothing.
THEOREM NamedCalled == SessionSpec => []NamedServiceIsCalled
  <1>1. SessionInit => SessionInv
    BY SessionInitInv
  <1>2. SessionInv => NamedServiceIsCalled
    BY DEF SessionInv, Called, NamedServiceIsCalled, Broken
  <1>3. CASE ~StrandsCollide
    <2>1. SessionSpec => []TypeInv
      BY SessionIsConnection, TypeInvCorrect
    <2>2. QED
      BY <1>1, <1>2, <1>3, <2>1, NextSessionInv, PTL DEF SessionSpec
  <1>4. CASE StrandsCollide
    <2>1. NamedServiceIsCalled
      BY <1>4 DEF NamedServiceIsCalled
    <2>2. QED
      BY <2>1, PTL
  <1>5. QED
    BY <1>3, <1>4

-----------------------------------------------------------------------------

(***************************************************************************)
(* Lists of the members of a set of numbers in their order: what the queue *)
(* of calls and what has been sent are made of.                            *)
(***************************************************************************)

\* The place of a number in a set, from 0.
Below(S, t) == {u \in S : u < t}
Rank(S, t) == Cardinality(Below(S, t))

Ranked(S) ==
  /\ Cardinality(S) \in Nat
  /\ \A t \in S : Rank(S, t) \in 0 .. Cardinality(S) - 1
  /\ \A t, u \in S : Rank(S, t) = Rank(S, u) => t = u
  /\ \A i \in 1 .. Cardinality(S) : \E t \in S : Rank(S, t) = i - 1

\* The ranks of the members of a finite set are different and have no gaps.
LEMMA RankFacts ==
  ASSUME NEW S \in SUBSET Nat, IsFiniteSet(S)
  PROVE  Ranked(S)
  <1>1. Cardinality(S) \in Nat
    BY FS_CardinalityType
  <1>2. ASSUME NEW T \in SUBSET S, NEW x \in S, x \notin T
        PROVE  /\ IsFiniteSet(T) /\ Cardinality(T) \in Nat
               /\ Cardinality(T) < Cardinality(S)
    <2>1. /\ IsFiniteSet(T) /\ Cardinality(T) <= Cardinality(S)
          /\ Cardinality(S) = Cardinality(T) => S = T
      BY FS_Subset
    <2>2. Cardinality(T) \in Nat
      BY <2>1, FS_CardinalityType
    <2>3. S # T
      BY <1>2
    <2>4. QED
      BY <1>1, <2>1, <2>2, <2>3
  <1>3. \A t \in S : /\ IsFiniteSet(Below(S, t))
                     /\ Rank(S, t) \in 0 .. Cardinality(S) - 1
    <2> SUFFICES ASSUME NEW t \in S
                 PROVE  /\ IsFiniteSet(Below(S, t))
                        /\ Rank(S, t) \in 0 .. Cardinality(S) - 1
      OBVIOUS
    <2>1. ~(t < t)
      OBVIOUS
    <2>2. Below(S, t) \in SUBSET S /\ t \notin Below(S, t)
      BY <2>1 DEF Below
    <2>3. QED
      BY <1>1, <1>2, <2>2 DEF Rank
  <1>4. ASSUME NEW t \in S, NEW u \in S, t < u PROVE Rank(S, t) < Rank(S, u)
    <2>1. t \in Nat /\ u \in Nat /\ \A x \in S : x < t => x < u
      BY <1>4
    <2>2. ~(t < t)
      BY <2>1
    <2>3. /\ Below(S, t) \in SUBSET Below(S, u)
          /\ t \in Below(S, u) /\ t \notin Below(S, t)
      <3>1. Below(S, t) \in SUBSET Below(S, u)
        BY <2>1 DEF Below
      <3>2. t \in Below(S, u)
        BY <1>4 DEF Below
      <3>3. t \notin Below(S, t)
        BY <2>2 DEF Below
      <3>4. QED
        BY <3>1, <3>2, <3>3
    <2>4. IsFiniteSet(Below(S, u))
      BY <1>3
    <2>5. /\ Rank(S, t) <= Rank(S, u)
          /\ Rank(S, u) = Rank(S, t) => Below(S, u) = Below(S, t)
      BY <2>3, <2>4, FS_Subset DEF Rank
    <2>6. QED
      BY <1>3, <2>3, <2>5
  <1>5. \A t, u \in S : Rank(S, t) = Rank(S, u) => t = u
    <2> SUFFICES ASSUME NEW t \in S, NEW u \in S, Rank(S, t) = Rank(S, u), t # u
                 PROVE  FALSE
      OBVIOUS
    <2>1. t < u \/ u < t
      OBVIOUS
    <2>2. Rank(S, t) \in Nat /\ Rank(S, u) \in Nat
      BY <1>3
    <2>3. QED
      BY <1>4, <2>1, <2>2
  <1> DEFINE R == 0 .. Cardinality(S) - 1
             f == [t \in S |-> Rank(S, t)]
  <1>6. IsFiniteSet(R) /\ Cardinality(R) = Cardinality(S)
    <2>1. /\ 0 \in Int /\ Cardinality(S) - 1 \in Int
          /\ (0 > Cardinality(S) - 1) => Cardinality(S) = 0
      BY <1>1
    <2>2. /\ IsFiniteSet(R)
          /\ Cardinality(R) = IF 0 > Cardinality(S) - 1 THEN 0
                              ELSE Cardinality(S) - 1 - 0 + 1
      BY <2>1, FS_Interval
    <2>3. QED
      BY <1>1, <2>1, <2>2
  <1>7. f \in Injection(S, R)
    BY <1>3, <1>5 DEF Injection, IsInjective
  <1>8. f \in Surjection(S, R)
    <2> HIDE DEF f, R
    <2>1. QED
      BY <1>6, <1>7, FS_Injection
  <1>9. \A i \in 1 .. Cardinality(S) : \E t \in S : Rank(S, t) = i - 1
    <2> SUFFICES ASSUME NEW i \in 1 .. Cardinality(S)
                 PROVE  \E t \in S : Rank(S, t) = i - 1
      OBVIOUS
    <2>1. i - 1 \in R
      BY <1>1
    <2>2. QED
      BY <1>8, <2>1 DEF Surjection
  <1>10. QED
    BY <1>1, <1>3, <1>5, <1>9 DEF Ranked

Maps(S, f, A) == \A t \in S : f[t] \in A

Agree(S, f, g) == \A t \in S : g[t] = f[t]

IsList(S, f, A) ==
  /\ Listed(S, f) \in Seq(A)
  /\ Len(Listed(S, f)) = Cardinality(S)
  /\ \A t \in S : Listed(S, f)[Rank(S, t) + 1] = f[t]
  /\ \A i \in 1 .. Cardinality(S) :
       \E t \in S : Rank(S, t) + 1 = i /\ Listed(S, f)[i] = f[t]

\* A list has the member of rank i - 1 in place i.
LEMMA ListedFacts ==
  ASSUME NEW S \in SUBSET Nat, IsFiniteSet(S), NEW A, NEW f, Maps(S, f, A)
  PROVE  IsList(S, f, A)
  <1> DEFINE E(i) == CHOOSE t \in S : Rank(S, t) = i - 1
             n == Cardinality(S)
  <1>1. n \in Nat /\ Ranked(S)
    BY RankFacts DEF Ranked
  <1>2. \A i \in 1 .. n : E(i) \in S /\ Rank(S, E(i)) = i - 1
    BY <1>1 DEF Ranked
  <1>3. Listed(S, f) = [i \in 1 .. n |-> f[E(i)]]
    BY DEF Listed, Rank, Below
  <1> HIDE DEF E, n
  <1>4. Listed(S, f) \in Seq(A) /\ Len(Listed(S, f)) = n
    <2>1. \A i \in 1 .. n : f[E(i)] \in A
      BY <1>2 DEF Maps
    <2>2. QED
      BY <1>1, <1>3, <2>1
  <1>5. ASSUME NEW t \in S
        PROVE  Listed(S, f)[Rank(S, t) + 1] = f[t]
    <2>1. Rank(S, t) \in 0 .. n - 1
      BY <1>1 DEF Ranked, n
    <2>2. Rank(S, t) + 1 \in 1 .. n /\ (Rank(S, t) + 1) - 1 = Rank(S, t)
      BY <1>1, <2>1
    <2>3. /\ E(Rank(S, t) + 1) \in S
          /\ Rank(S, E(Rank(S, t) + 1)) = Rank(S, t)
      BY <1>2, <2>2
    <2>4. E(Rank(S, t) + 1) = t
      BY <1>1, <2>3 DEF Ranked
    <2>5. QED
      BY <1>3, <2>2, <2>4
  <1>6. ASSUME NEW i \in 1 .. n
        PROVE  \E t \in S : Rank(S, t) + 1 = i /\ Listed(S, f)[i] = f[t]
    <2>1. E(i) \in S /\ Rank(S, E(i)) = i - 1 /\ (i - 1) + 1 = i
      BY <1>1, <1>2
    <2>2. Listed(S, f)[i] = f[E(i)]
      BY <1>3
    <2>3. QED
      BY <2>1, <2>2
  <1>7. QED
    BY <1>4, <1>5, <1>6 DEF IsList, n

\* A list depends on its members' values alone.
LEMMA ListedSame ==
  ASSUME NEW S \in SUBSET Nat, IsFiniteSet(S), NEW A, NEW f, NEW g,
         Maps(S, f, A), Agree(S, f, g)
  PROVE  Listed(S, g) = Listed(S, f)
  <1>1. Maps(S, g, A)
    BY DEF Maps, Agree
  <1>2. IsList(S, f, A) /\ IsList(S, g, A)
    BY <1>1, ListedFacts
  <1>3. ASSUME NEW i \in 1 .. Cardinality(S)
        PROVE  Listed(S, g)[i] = Listed(S, f)[i]
    <2>1. PICK t \in S : Rank(S, t) + 1 = i /\ Listed(S, f)[i] = f[t]
      BY <1>2 DEF IsList
    <2>2. Listed(S, g)[Rank(S, t) + 1] = g[t]
      BY <1>2 DEF IsList
    <2>3. QED
      BY <2>1, <2>2 DEF Agree
  <1>4. /\ Listed(S, f) \in Seq(A) /\ Len(Listed(S, f)) = Cardinality(S)
        /\ Listed(S, g) \in Seq(A) /\ Len(Listed(S, g)) = Cardinality(S)
    BY <1>2 DEF IsList
  <1>5. QED
    BY <1>3, <1>4, SeqEqual

Above(n, S) == \A t \in S : t < n

IsAppended(S, f, n, g) ==
  Listed(S \cup {n}, g) = Append(Listed(S, f), g[n])

\* A new greatest number is listed last.
LEMMA ListedAppend ==
  ASSUME NEW S \in SUBSET Nat, IsFiniteSet(S), NEW n \in Nat, Above(n, S),
         NEW A, NEW f, NEW g, Maps(S, f, A), Agree(S, f, g), g[n] \in A
  PROVE  IsAppended(S, f, n, g)
  <1> DEFINE T == S \cup {n}
             k == Cardinality(S)
  <1>1. /\ T \in SUBSET Nat /\ IsFiniteSet(T) /\ n \notin S
        /\ Cardinality(T) = k + 1 /\ k \in Nat
    <2>1. n \notin S
      BY DEF Above
    <2>2. QED
      BY <2>1, FS_AddElement, FS_CardinalityType
  <1>2. \A t \in S : Rank(T, t) = Rank(S, t)
    <2> SUFFICES ASSUME NEW t \in S PROVE Rank(T, t) = Rank(S, t)
      OBVIOUS
    <2>1. t \in Nat /\ t < n
      BY DEF Above
    <2>2. ~(n < t)
      BY <2>1
    <2>3. Below(T, t) = Below(S, t)
      BY <2>2 DEF Below
    <2>4. QED
      BY <2>3 DEF Rank
  <1>3. Rank(T, n) = k
    <2>1. ~(n < n)
      OBVIOUS
    <2>2. Below(T, n) = S
      BY <2>1 DEF Below, Above
    <2>3. QED
      BY <2>2 DEF Rank
  <1>4. Maps(T, g, A)
    BY DEF Maps, Agree
  <1> HIDE DEF T
  <1>5. IsList(T, g, A) /\ IsList(S, f, A)
    BY <1>1, <1>4, ListedFacts
  <1>6. /\ Listed(T, g) \in Seq(A) /\ Len(Listed(T, g)) = k + 1
        /\ Listed(S, f) \in Seq(A) /\ Len(Listed(S, f)) = k
    BY <1>1, <1>5 DEF IsList
  <1> HIDE DEF k
  <1>7. /\ Append(Listed(S, f), g[n]) \in Seq(A)
        /\ Len(Append(Listed(S, f), g[n])) = k + 1
        /\ \A i \in 1 .. k : Append(Listed(S, f), g[n])[i] = Listed(S, f)[i]
        /\ Append(Listed(S, f), g[n])[k + 1] = g[n]
    BY <1>1, <1>6
  <1>8. ASSUME NEW i \in 1 .. k + 1
        PROVE  Listed(T, g)[i] = Append(Listed(S, f), g[n])[i]
    <2>1. CASE i = k + 1
      <3>1. n \in T
        BY DEF T
      <3>2. Listed(T, g)[Rank(T, n) + 1] = g[n]
        BY <1>5, <3>1 DEF IsList
      <3>3. QED
        BY <1>3, <1>7, <2>1, <3>2
    <2>2. CASE i # k + 1
      <3>1. i \in 1 .. k
        BY <1>1, <2>2
      <3>2. PICK t \in S : Rank(S, t) + 1 = i /\ Listed(S, f)[i] = f[t]
        BY <1>5, <3>1 DEF IsList, k
      <3>3. t \in T
        BY DEF T
      <3>4. Listed(T, g)[Rank(T, t) + 1] = g[t] /\ g[t] = f[t]
        BY <1>5, <3>3 DEF IsList, Agree
      <3>5. Rank(T, t) + 1 = i
        BY <1>2, <3>2
      <3>6. QED
        BY <1>7, <3>1, <3>2, <3>4, <3>5
    <2>3. QED
      BY <2>1, <2>2
  <1>9. Listed(T, g) = Append(Listed(S, f), g[n])
    BY <1>6, <1>7, <1>8, SeqEqual
  <1>10. QED
    BY <1>9 DEF T, IsAppended

Least(n, S) == n \in S /\ \A t \in S : n <= t

IsFirst(n, S, f) ==
  /\ Listed(S, f) # <<>>
  /\ Head(Listed(S, f)) = f[n]
  /\ Tail(Listed(S, f)) = Listed(S \ {n}, f)

\* The least number is listed first.
LEMMA ListedTail ==
  ASSUME NEW S \in SUBSET Nat, IsFiniteSet(S), NEW n, Least(n, S),
         NEW A, NEW f, Maps(S, f, A)
  PROVE  IsFirst(n, S, f)
  <1> DEFINE T == S \ {n}
             k == Cardinality(T)
  <1>1. n \in S /\ n \in Nat
    BY DEF Least
  <1>2. /\ T \in SUBSET Nat /\ IsFiniteSet(T) /\ k \in Nat
        /\ Cardinality(S) = k + 1
    <2>1. IsFiniteSet(T) /\ Cardinality(T) = Cardinality(S) - 1
      BY <1>1, FS_RemoveElement
    <2>2. Cardinality(S) \in Nat /\ Cardinality(T) \in Nat
      BY <2>1, FS_CardinalityType
    <2>3. k \in Nat
      BY <2>2
    <2>4. Cardinality(S) = k + 1
      BY <2>1, <2>2
    <2>5. QED
      BY <2>1, <2>3, <2>4
  <1>3. \A t \in T : Rank(S, t) = Rank(T, t) + 1
    <2> SUFFICES ASSUME NEW t \in T PROVE Rank(S, t) = Rank(T, t) + 1
      OBVIOUS
    <2>1. t \in Nat /\ n < t
      BY <1>1 DEF Least
    <2>2. Below(S, t) = Below(T, t) \cup {n} /\ n \notin Below(T, t)
      BY <1>1, <2>1 DEF Below
    <2>3. Below(T, t) \in SUBSET T
      BY DEF Below
    <2>4. IsFiniteSet(Below(T, t))
      BY <1>2, <2>3, FS_Subset
    <2>5. QED
      BY <2>2, <2>4, FS_AddElement DEF Rank
  <1>4. Rank(S, n) = 0
    <2>1. \A u \in S : ~(u < n)
      BY <1>1 DEF Least
    <2>2. Below(S, n) = {}
      BY <2>1 DEF Below
    <2>3. QED
      BY <2>2, FS_EmptySet DEF Rank
  <1>5. Maps(T, f, A)
    BY DEF Maps
  <1>6. \A t \in T : t \in S
    OBVIOUS
  <1> HIDE DEF T
  <1>7. IsList(S, f, A) /\ IsList(T, f, A)
    BY <1>2, <1>5, ListedFacts
  <1>8. /\ Listed(S, f) \in Seq(A) /\ Len(Listed(S, f)) = k + 1
        /\ Listed(T, f) \in Seq(A) /\ Len(Listed(T, f)) = k
    BY <1>2, <1>7 DEF IsList
  <1> HIDE DEF k
  <1>9. Listed(S, f) # <<>> /\ Head(Listed(S, f)) = f[n]
    <2>1. Listed(S, f)[Rank(S, n) + 1] = f[n]
      BY <1>7, <1>1 DEF IsList
    <2>2. Listed(S, f)[1] = f[n]
      BY <1>4, <2>1
    <2>3. QED
      BY <1>2, <1>8, <2>2
  <1>10. /\ Tail(Listed(S, f)) \in Seq(A)
        /\ Len(Tail(Listed(S, f))) = k
        /\ \A i \in 1 .. k : Tail(Listed(S, f))[i] = Listed(S, f)[i + 1]
    BY <1>2, <1>8
  <1>11. ASSUME NEW i \in 1 .. k PROVE Tail(Listed(S, f))[i] = Listed(T, f)[i]
    <2>1. PICK t \in T : Rank(T, t) + 1 = i /\ Listed(T, f)[i] = f[t]
      BY <1>7 DEF IsList, k
    <2>2. Rank(S, t) = i
      BY <1>3, <2>1
    <2>3. Listed(S, f)[Rank(S, t) + 1] = f[t]
      BY <1>6, <1>7 DEF IsList
    <2>4. QED
      BY <1>10, <2>1, <2>2, <2>3
  <1>12. Tail(Listed(S, f)) = Listed(T, f)
    BY <1>8, <1>10, <1>11, SeqEqual
  <1>13. QED
    BY <1>9, <1>12 DEF T, IsFirst

-----------------------------------------------------------------------------

\* The refinement mapping: what the calls that wait for an answer named, and
\* what answered the others.
CallsWaiting == Listed(Calls, named)

Answerer == [i \in Replies |-> called[wire[i].ticket]]

RepliesSent == Listed(Replies, Answerer)

Callable == Names \cup {Nothing}

CallTypes ==
  /\ Calls \in SUBSET Nat /\ IsFiniteSet(Calls) /\ Maps(Calls, named, Callable)
  /\ Replies \in SUBSET Nat /\ IsFiniteSet(Replies)
  /\ Maps(Replies, Answerer, Callable)

\* Calls and replies are finitely many numbers.
LEMMA CallsTyped == TypeInv /\ WireInv /\ SessionTypes => CallTypes
  <1> SUFFICES ASSUME TypeInv, WireInv, SessionTypes PROVE CallTypes
    OBVIOUS
  <1>1. /\ MaxTickets \in Nat /\ Ticket = 0 .. MaxTickets - 1
        /\ DOMAIN wire = 1 .. Len(wire) /\ Len(wire) \in Nat
    BY MaxTicketsAssumption DEF Ticket, TypeInv, TypeOK
  <1>2. IsFiniteSet(Ticket) /\ IsFiniteSet(DOMAIN wire)
    <2>1. \A a, b \in Int : IsFiniteSet(a .. b)
      BY FS_Interval
    <2>2. QED
      BY <1>1, <2>1
  <1>3. Calls \subseteq Ticket /\ Replies \subseteq DOMAIN wire
    BY DEF Calls, Replies
  <1>4. IsFiniteSet(Calls) /\ IsFiniteSet(Replies)
    BY <1>2, <1>3, FS_Subset
  <1>5. Calls \in SUBSET Nat /\ Replies \in SUBSET Nat
    BY <1>1, <1>3
  <1>6. Maps(Calls, named, Callable)
    BY <1>3 DEF Maps, SessionTypes, Callable
  <1>7. Maps(Replies, Answerer, Callable)
    <2>1. ASSUME NEW i \in Replies PROVE called[wire[i].ticket] \in Callable
      <3>1. i \in DOMAIN wire /\ IsResponse(i)
        BY KindFacts DEF Replies, IsResponse
      <3>2. wire[i].ticket \in Ticket
        BY <3>1 DEF WireInv
      <3>3. QED
        BY <3>2 DEF SessionTypes, Callable
    <2>2. QED
      BY <2>1 DEF Maps, Answerer
  <1>8. QED
    BY <1>4, <1>5, <1>6, <1>7 DEF CallTypes

\* The same calls wait for the same services.
LEMMA CallsStutter ==
  ASSUME CallTypes, Calls' = Calls, Agree(Calls, named, named')
  PROVE  CallsWaiting' = CallsWaiting
  <1>1. Listed(Calls, named') = Listed(Calls, named)
    BY ListedSame DEF CallTypes
  <1>2. QED
    BY <1>1 DEF CallsWaiting

\* A call waits behind those before it.
LEMMA CallsAccept ==
  ASSUME CallTypes, NEW t \in Nat, Above(t, Calls),
         Calls' = Calls \cup {t}, named'[t] \in Callable,
         Agree(Calls, named, named')
  PROVE  CallsWaiting' = Append(CallsWaiting, named'[t])
  <1>1. /\ Calls \in SUBSET Nat /\ IsFiniteSet(Calls)
        /\ Maps(Calls, named, Callable)
    BY DEF CallTypes
  <1>2. IsAppended(Calls, named, t, named')
    BY <1>1, ListedAppend
  <1>3. QED
    BY <1>2 DEF CallsWaiting, IsAppended

\* The first call is answered first.
LEMMA CallsAnswer ==
  ASSUME CallTypes, NEW t, Least(t, Calls),
         Calls' = Calls \ {t}, UNCHANGED named
  PROVE  /\ CallsWaiting # <<>>
         /\ Head(CallsWaiting) = named[t]
         /\ CallsWaiting' = Tail(CallsWaiting)
  <1>1. IsFirst(t, Calls, named)
    <2>1. /\ Calls \in SUBSET Nat /\ IsFiniteSet(Calls)
          /\ Maps(Calls, named, Callable)
      BY DEF CallTypes
    <2>2. QED
      BY <2>1, ListedTail
  <1>2. QED
    BY <1>1 DEF CallsWaiting, IsFirst

\* A step that writes no reply and calls for no answered message.
LEMMA RepliesStutter ==
  ASSUME TypeOK, CallTypes,
         \/ UNCHANGED wire
         \/ \E k \in (Jobs \cup {"101", "declined"}) \ {"binary"}, n \in Nat :
              wire' = Append(wire, [kind |-> k, ticket |-> n]),
         \A i \in Replies : called'[wire[i].ticket] = called[wire[i].ticket]
  PROVE  RepliesSent' = RepliesSent
  <1>1. Replies' = Replies /\ \A i \in Replies : wire'[i] = wire[i]
    <2>1. CASE UNCHANGED wire
      BY <2>1 DEF Replies
    <2>2. ASSUME NEW k \in (Jobs \cup {"101", "declined"}) \ {"binary"},
                 NEW n \in Nat,
                 wire' = Append(wire, [kind |-> k, ticket |-> n])
          PROVE  Replies' = Replies /\ \A i \in Replies : wire'[i] = wire[i]
      <3>1. /\ \A i \in DOMAIN wire : i \in DOMAIN wire' /\ wire'[i] = wire[i]
            /\ wire'[Len(wire) + 1] = [kind |-> k, ticket |-> n]
            /\ \A i \in DOMAIN wire' : i \in DOMAIN wire \/ i = Len(wire) + 1
        BY <2>2, AppendToWire
      <3>2. wire'[Len(wire) + 1].kind # "binary"
        BY <3>1
      <3>3. QED
        BY <3>1, <3>2 DEF Replies
    <2>3. QED
      BY <2>1, <2>2
  <1>2. Agree(Replies, Answerer, Answerer')
    BY <1>1 DEF Answerer, Agree
  <1>3. Listed(Replies, Answerer') = Listed(Replies, Answerer)
    BY <1>2, ListedSame DEF CallTypes
  <1>4. QED
    BY <1>1, <1>3 DEF RepliesSent

\* A reply is sent after those before it.
LEMMA RepliesAppend ==
  ASSUME TypeOK, CallTypes, NEW t \in Nat,
         wire' = Append(wire, [kind |-> "binary", ticket |-> t]),
         UNCHANGED called, called[t] \in Callable
  PROVE  RepliesSent' = Append(RepliesSent, called[t])
  <1> DEFINE n == Len(wire) + 1
  <1>1. /\ DOMAIN wire = 1 .. Len(wire) /\ Len(wire) \in Nat
        /\ DOMAIN wire' = 1 .. Len(wire) + 1
        /\ \A i \in DOMAIN wire : i \in DOMAIN wire' /\ wire'[i] = wire[i]
        /\ wire'[n] = [kind |-> "binary", ticket |-> t]
        /\ \A i \in DOMAIN wire' : i \in DOMAIN wire \/ i = n
    BY AppendToWire, KindFacts
  <1>2. n \in Nat /\ n \in DOMAIN wire' /\ Above(n, Replies)
    BY <1>1 DEF Replies, Above
  <1> HIDE DEF n
  <1>3. Replies' = Replies \cup {n}
    BY <1>1, <1>2 DEF Replies
  <1>4. Answerer'[n] = called[t] /\ Agree(Replies, Answerer, Answerer')
    BY <1>1, <1>3 DEF Answerer, Replies, Agree
  <1>5. IsAppended(Replies, Answerer, n, Answerer')
    <2>1. /\ Replies \in SUBSET Nat /\ IsFiniteSet(Replies)
          /\ Maps(Replies, Answerer, Callable) /\ Answerer'[n] \in Callable
      BY <1>4 DEF CallTypes
    <2>2. QED
      BY <1>2, <1>4, <2>1, ListedAppend
  <1>6. QED
    BY <1>3, <1>4, <1>5 DEF RepliesSent, IsAppended

\* The steps of the queue of calls in the terms of the mapping.
LEMMA CallQueueSteps ==
  /\ \A name \in Callable :
       /\ CallsWaiting' = Append(CallsWaiting, name)
       /\ RepliesSent' = RepliesSent /\ Lost' = Lost
       => CallQueue!Next
  /\ /\ CallsWaiting # <<>> /\ CallsWaiting' = Tail(CallsWaiting)
     /\ \/ /\ ~Lost /\ Lost' = Lost
           /\ RepliesSent' = Append(RepliesSent, Head(CallsWaiting))
        \/ RepliesSent' = RepliesSent /\ Lost' = TRUE
     => CallQueue!Next
  /\ CallsWaiting' = CallsWaiting /\ RepliesSent' = RepliesSent /\ Lost' = TRUE
     => CallQueue!Next
  /\ CallsWaiting' = CallsWaiting /\ RepliesSent' = RepliesSent /\ Lost' = Lost
     => UNCHANGED CallQueue!vars
  BY DEF CallsWaiting, RepliesSent, Answerer, Lost, Callable, CallQueue!Next,
         CallQueue!Accept, CallQueue!Answer, CallQueue!Deliver, CallQueue!Lose,
         CallQueue!LoseHandshake, CallQueue!vars

\* The steps that neither make nor answer a call.
Waits(t) == job[t] = "binary" /\ task[t] \notin {"free", "written", "done"}

Quietly ==
  /\ \A t \in Ticket : Waits(t)' <=> Waits(t)
  /\ \A t \in Ticket : Waits(t) => named'[t] = named[t]
  /\ \/ UNCHANGED wire
     \/ \E k \in (Jobs \cup {"101", "declined"}) \ {"binary"}, n \in Nat :
          wire' = Append(wire, [kind |-> k, ticket |-> n])
  /\ \A t \in Ticket :
       task[t] \in {"written", "done"} => called'[t] = called[t]
  /\ Lost' = Lost \/ Lost' = TRUE

\* What a reply answers is past its write.
LEMMA RepliesWritten ==
  ASSUME WireInv, NEW i \in Replies
  PROVE  /\ wire[i].ticket \in Ticket
         /\ task[wire[i].ticket] \in {"written", "done"}
  <1>1. i \in DOMAIN wire /\ IsResponse(i)
    BY KindFacts DEF Replies, IsResponse
  <1>2. QED
    BY <1>1 DEF WireInv

\* ... leave the queue of calls alone, or lose the peer.
LEMMA QuietSteps ==
  ASSUME TypeOK, CallTypes, WireInv, Quietly
  PROVE  CallQueue!Next \/ UNCHANGED CallQueue!vars
  <1>1. Calls = {t \in Ticket : Waits(t)} /\ Calls' = {t \in Ticket : Waits(t)'}
    BY DEF Calls, Waits
  <1>2. Calls' = Calls
    BY <1>1 DEF Quietly
  <1>3. Agree(Calls, named, named')
    BY <1>1 DEF Quietly, Agree
  <1>4. CallsWaiting' = CallsWaiting
    BY <1>2, <1>3, CallsStutter
  <1>5. \A i \in Replies : called'[wire[i].ticket] = called[wire[i].ticket]
    BY RepliesWritten DEF Quietly
  <1>6. RepliesSent' = RepliesSent
    BY <1>5, RepliesStutter DEF Quietly
  <1>7. QED
    BY <1>4, <1>6, CallQueueSteps DEF Quietly

\* A message is work of its own if it is a call.
LEMMA MessageQueued ==
  ASSUME TypeInv, CallTypes, WireInv, SessionTypes,
         NEW kind \in {"text", "binary"}, NEW name \in Callable,
         Message(kind, name)
  PROVE  CallQueue!Next \/ UNCHANGED CallQueue!vars
  <1>1. /\ ticket \in Nat /\ ticket \in Ticket /\ task[ticket] = "free"
        /\ \A t \in Ticket :
             /\ task'[t] = IF t = ticket THEN "spawned" ELSE task[t]
             /\ job'[t] = IF t = ticket THEN kind ELSE job[t]
             /\ named'[t] = IF t = ticket THEN name ELSE named[t]
        /\ UNCHANGED <<wire, peer, called>>
    BY MessageFacts, MaxTicketsAssumption
    DEF TypeInv, TicketInv, Window, Ticket
  <1>2. Lost' = Lost
    BY <1>1 DEF Lost
  <1>3. CASE kind = "text"
    <2>1. Quietly
      BY <1>1, <1>2, <1>3 DEF Quietly, Waits
    <2>2. QED
      BY <2>1, QuietSteps DEF TypeInv
  <1>4. CASE kind = "binary"
    <2>1. Calls' = Calls \cup {ticket} /\ named'[ticket] = name
      BY <1>1, <1>4 DEF Calls
    <2>2. Above(ticket, Calls)
      <3>1. ASSUME NEW u \in Calls PROVE u < ticket
        <4>1. u \in Ticket /\ u \in Nat /\ task[u] # "free"
          BY MaxTicketsAssumption DEF Calls, Ticket
        <4>2. ~(u >= ticket)
          BY <4>1 DEF TypeInv, TicketInv, Window
        <4>3. QED
          BY <1>1, <4>1, <4>2
      <3>2. QED
        BY <3>1 DEF Above
    <2>3. Agree(Calls, named, named')
      BY <1>1 DEF Agree, Calls
    <2>4. CallsWaiting' = Append(CallsWaiting, name)
      BY <1>1, <2>1, <2>2, <2>3, CallsAccept
    <2>5. RepliesSent' = RepliesSent
      BY <1>1, RepliesStutter DEF TypeInv
    <2>6. QED
      BY <1>2, <2>4, <2>5, CallQueueSteps
  <1>5. QED
    BY <1>3, <1>4

\* A call that is being answered is the one that waited longest.
LEMMA CallWritten ==
  ASSUME TypeInv, CallTypes, NEW t \in Ticket, task[t] = "writing",
         job[t] = "binary", UNCHANGED <<job, named>>,
         task' = [task EXCEPT ![t] = "written"]
  PROVE  /\ CallsWaiting # <<>>
         /\ Head(CallsWaiting) = named[t]
         /\ CallsWaiting' = Tail(CallsWaiting)
  <1>1. t = serving
    BY WritePhasesAssumption DEF TypeInv, TicketInv, HolderIsServed, Holding
  <1>2. ASSUME NEW u \in Calls PROVE t <= u
    <2>1. u \in Ticket /\ u \in Nat /\ serving \in Nat /\ task[u] # "done"
      BY MaxTicketsAssumption DEF Calls, Ticket, TypeInv, TypeOK
    <2>2. ~(u < serving)
      BY <2>1 DEF TypeInv, TicketInv, Window
    <2>3. QED
      BY <1>1, <2>1, <2>2
  <1>3. Least(t, Calls)
    BY <1>2 DEF Least, Calls
  <1>4. Calls' = Calls \ {t}
    BY DEF Calls, TypeInv, TypeOK
  <1>5. QED
    BY <1>3, <1>4, CallsAnswer

\* Every step of a session whose coroutines start on the spot is one of the
\* queue of calls, or none.
LEMMA NextCallQueue ==
  TypeInv /\ WireInv /\ SessionInv /\ [SessionNext]_sessionVars
    => [CallQueue!Next]_(CallQueue!vars)
  <1> SUFFICES ASSUME TypeInv, WireInv, SessionInv,
                      [SessionNext]_sessionVars
               PROVE  CallQueue!Next \/ UNCHANGED CallQueue!vars
    OBVIOUS
  <1>1. SessionTypes /\ Called /\ CallTypes /\ TypeOK
    BY CallsTyped DEF SessionInv, TypeInv
  <1>2. /\ ticket \in Nat /\ MaxTickets \in Nat
        /\ task \in [Ticket -> Phases]
        /\ job \in [Ticket -> Jobs \cup {"none"}]
        /\ \A t \in Ticket : t \in Nat
    BY MaxTicketsAssumption DEF TypeInv, TypeOK, Ticket
  <1>3. Quietly => CallQueue!Next \/ UNCHANGED CallQueue!vars
    BY <1>1, QuietSteps
  <1>4. ASSUME NEW name \in Names, Message("text", name)
        PROVE  CallQueue!Next \/ UNCHANGED CallQueue!vars
    BY <1>1, <1>4, MessageQueued DEF Callable
  <1>5. CASE Message("binary", Said)
    <2>1. Said \in Callable
      BY <1>1, SaidType DEF Callable
    <2>2. QED
      BY <1>1, <1>5, <2>1, MessageQueued
  <1>6. ASSUME NEW t \in Ticket, HandleMessage(t)
        PROVE  CallQueue!Next \/ UNCHANGED CallQueue!vars
    <2>1. /\ task[t] = "spawned" /\ UNCHANGED <<job, wire, peer, named>>
          /\ \A u \in Ticket : task'[u] = IF u = t THEN "waiting" ELSE task[u]
          /\ \A u \in Ticket : u # t => called'[u] = called[u]
      BY <1>1, <1>2, <1>6 DEF HandleMessage, Start, Begin, SessionTypes
    <2>2. Quietly
      BY <2>1 DEF Quietly, Waits, Lost
    <2>3. QED
      BY <1>3, <2>2
  <1>7. ASSUME NEW t \in Ticket, FailReply(t)
        PROVE  CallQueue!Next \/ UNCHANGED CallQueue!vars
    <2>1. /\ task[t] = "writing" /\ task' = [task EXCEPT ![t] = "written"]
          /\ UNCHANGED <<job, wire, named, called>> /\ Lost' = TRUE
      BY <1>7 DEF FailReply, FailWrite, Proceed, Lost
    <2>2. CASE job[t] = "binary"
      <3>1. CallsWaiting # <<>> /\ CallsWaiting' = Tail(CallsWaiting)
        BY <1>1, <2>1, <2>2, CallWritten
      <3>2. RepliesSent' = RepliesSent
        BY <1>1, <2>1, RepliesStutter
      <3>3. QED
        BY <2>1, <3>1, <3>2, CallQueueSteps
    <2>3. CASE job[t] # "binary"
      <3>1. \A u \in Ticket : task'[u] = IF u = t THEN "written" ELSE task[u]
        BY <1>2, <2>1
      <3>2. Quietly
        BY <2>1, <2>3, <3>1 DEF Quietly, Waits
      <3>3. QED
        BY <1>3, <3>2
    <2>4. QED
      BY <2>2, <2>3
  <1>8. ASSUME UNCHANGED session, NEW t \in Ticket,
               \/ Poll(t) \/ BeginWrite(t) \/ Finish(t)
        PROVE  Quietly
    <2>1. /\ UNCHANGED <<job, wire, peer, named, called>>
          /\ \A u \in Ticket : u # t => task'[u] = task[u]
          /\ \/ task'[t] = task[t]
             \/ task[t] = "waiting" /\ task'[t] = "writing"
             \/ task[t] = "waiting" /\ job[t] = "text"
             \/ task[t] = "written" /\ task'[t] = "done"
      BY <1>2, <1>8
      DEF Poll, BeginWrite, TakeTurn, Writes, Finish, Return, vars, ticketVars,
          session
    <2>2. QED
      BY <2>1 DEF Quietly, Waits, Lost
  <1>9. ASSUME UNCHANGED session, NEW t \in Ticket, EndWrite(t)
        PROVE  CallQueue!Next \/ UNCHANGED CallQueue!vars
    <2>1. /\ task[t] = "writing" /\ task' = [task EXCEPT ![t] = "written"]
          /\ UNCHANGED <<job, named, called, peer>> /\ ~Lost /\ Lost' = Lost
          /\ wire' = Append(wire, [kind |-> job[t], ticket |-> t])
          /\ t \in Nat /\ job[t] \in Jobs
      BY <1>2, <1>9 DEF EndWrite, Proceed, Lost, session, TypeInv, JobsKnown
    <2>2. CASE job[t] = "binary"
      <3>1. /\ CallsWaiting # <<>> /\ CallsWaiting' = Tail(CallsWaiting)
            /\ Head(CallsWaiting) = named[t]
        BY <1>1, <2>1, <2>2, CallWritten
      <3>2. called[t] = named[t] /\ called[t] \in Callable
        BY <1>1, <2>1, <2>2 DEF Called, Broken, Lost, SessionTypes, Callable
      <3>3. RepliesSent' = Append(RepliesSent, called[t])
        BY <1>1, <2>1, <2>2, <3>2, RepliesAppend
      <3>4. QED
        BY <2>1, <3>1, <3>2, <3>3, CallQueueSteps
    <2>3. CASE job[t] # "binary"
      <3>1. \A u \in Ticket : task'[u] = IF u = t THEN "written" ELSE task[u]
        BY <1>2, <2>1
      <3>2. Quietly
        BY <2>1, <2>3, <3>1 DEF Quietly, Waits
      <3>3. QED
        BY <1>3, <3>2
    <2>4. QED
      BY <2>2, <2>3
  <1>10. ASSUME UNCHANGED session, ReadRequest \/ ReadUpgrade PROVE Quietly
    <2>1. UNCHANGED <<wire, peer, named, called>>
      BY <1>10 DEF ReadRequest, ReadUpgrade, session
    <2>2. CASE UNCHANGED <<task, job>>
      BY <2>1, <2>2 DEF Quietly, Waits, Lost
    <2>3. CASE ~UNCHANGED <<task, job>>
      <3>1. PICK k \in HttpJobs : Async(k)
        BY <1>10, <2>3, KindFacts DEF ReadRequest, ReadUpgrade, ticketVars
      <3>2. /\ ticket \in Ticket /\ task[ticket] = "free" /\ k # "binary"
            /\ \A t \in Ticket :
                 /\ task'[t] = IF t = ticket THEN "spawned" ELSE task[t]
                 /\ job'[t] = IF t = ticket THEN k ELSE job[t]
        BY <1>2, <3>1
        DEF Async, Issue, HttpJobs, Ticket, TypeInv, TicketInv, Window
      <3>3. QED
        BY <2>1, <3>2 DEF Quietly, Waits, Lost
    <2>4. QED
      BY <2>2, <2>3
  <1>11. ASSUME UNCHANGED session,
                \/ AcceptUpgrade \/ FailUpgrade \/ ReadError \/ PeerLeaves
                \/ Terminated
         PROVE  Quietly
    <2>1. UNCHANGED <<task, job, named, called>>
      BY <1>11
      DEF AcceptUpgrade, FailUpgrade, ReadError, PeerLeaves, Terminated,
          session, vars, ticketVars
    <2>2. \/ UNCHANGED wire
          \/ \E k \in {"101", "declined"} :
               wire' = Append(wire, [kind |-> k, ticket |-> ticket])
      BY <1>11
      DEF AcceptUpgrade, FailUpgrade, Put, ReadError, PeerLeaves, Terminated,
          vars
    <2>3. Lost' = Lost \/ Lost' = TRUE
      BY <1>11
      DEF AcceptUpgrade, FailUpgrade, ReadError, PeerLeaves, Terminated, vars,
          Lost
    <2>4. QED
      BY <1>2, <2>1, <2>2, <2>3, KindFacts DEF Quietly, Waits
  <1>12. CASE UNCHANGED sessionVars
    <2>1. Quietly
      BY <1>12
      DEF sessionVars, session, vars, ticketVars, Quietly, Waits, Lost
    <2>2. QED
      BY <1>3, <2>1
  <1>13. CASE Elsewhere /\ UNCHANGED session
    BY <1>3, <1>8, <1>9, <1>10, <1>11, <1>13 DEF Elsewhere
  <1>14. QED
    BY <1>4, <1>5, <1>6, <1>7, <1>12, <1>13 DEF SessionNext

\* As long as spawned coroutines start on the spot, a session implements the
\* queue of calls, as far as safety goes: every call is answered by the service
\* its peer named, in the order of the calls, until a write fails.
THEOREM CallQueueSimulated ==
  ~StrandsCollide =>
    (SessionSpec => CallQueue!Init /\ [][CallQueue!Next]_(CallQueue!vars))
  <1> SUFFICES ASSUME ~StrandsCollide
               PROVE  SessionSpec => /\ CallQueue!Init
                                     /\ [][CallQueue!Next]_(CallQueue!vars)
    OBVIOUS
  <1>1. SessionInit => CallQueue!Init
    <2> SUFFICES ASSUME SessionInit PROVE CallQueue!Init
      OBVIOUS
    <2>1. Calls = {} /\ Replies = {} /\ peer = "up"
      BY DEF SessionInit, Init, TicketInit, Calls, Replies
    <2>2. \A f : Listed({}, f) = <<>>
      <3>1. Cardinality({}) = 0
        BY FS_EmptySet
      <3>2. QED
        BY <3>1 DEF Listed
    <2>3. QED
      BY <2>1, <2>2 DEF CallQueue!Init
  <1>2. SessionInit => SessionInv
    BY SessionInitInv
  <1>3. SessionInit => WireInv /\ ResponsesInOrder
    BY DEF SessionInit, Init, WireInv, ResponsesInOrder
  <1>4. SessionSpec => []TypeInv
    BY SessionIsConnection, TypeInvCorrect
  <1>5. QED
    BY <1>1, <1>2, <1>3, <1>4, SessionStep, NextSessionInv, NextWireInv,
       NextCallQueue, PTL DEF SessionSpec

-----------------------------------------------------------------------------

(***************************************************************************)
(* Pushers, for every number of tickets and every combination of the other *)
(* traits: what a connection promises survives the thread that pushes, and *)
(* the thread's unsynchronised look at the stored pusher is harmless until *)
(* a websocket write fails.                                                *)
(***************************************************************************)

\* What the thread does to the connection without sending: it copies or drops
\* a reference.
Touch ==
  /\ held' \in BOOLEAN
  /\ UNCHANGED <<ticketVars, job, pc, peer, wire, pusher, open>>
  /\ \/ UNCHANGED <<stats, closed>>
     \/ Release(stats)

\* ... and when it sends.
Send ==
  /\ Async("push")
  /\ UNCHANGED <<pc, peer, wire, pusher, held, open, stats, closed>>

\* A step of the thread or of the connection.
LEMMA PushStep ==
  TypeOK /\ [PushNext]_pushVars => [Next]_vars \/ Touch \/ Send
  <1> SUFFICES ASSUME TypeOK, [PushNext]_pushVars
               PROVE  [Next]_vars \/ Touch \/ Send
    OBVIOUS
  <1>1. CASE Connected
    BY <1>1 DEF Connected, AcceptAndStart, Next, Serve
  <1>2. CASE Thread
    <2>1. held \in BOOLEAN /\ pusher \in BOOLEAN
      BY DEF TypeOK
    <2>2. CASE FindDestroyed \/ FindFull
      BY <2>2 DEF FindDestroyed, FindFull
    <2>3. CASE FindEmpty \/ PushOnLastReference
      BY <2>3 DEF FindEmpty, PushOnLastReference, Touch
    <2>4. CASE Clone
      BY <2>1, <2>4 DEF Clone, Touch
    <2>5. CASE Push
      BY <2>5 DEF Push, Send, vars
    <2>6. QED
      BY <1>2, <2>2, <2>3, <2>4, <2>5 DEF Thread
  <1>3. CASE Over \/ UNCHANGED pushVars
    BY <1>3 DEF Over, pushVars
  <1>4. QED
    BY <1>1, <1>2, <1>3 DEF PushNext

\* The thread keeps the types, the window of tickets and the jobs.
LEMMA PushTypeInv == TypeInv /\ [PushNext]_pushVars => TypeInv'
  <1> SUFFICES ASSUME TypeInv, [PushNext]_pushVars PROVE TypeInv'
    OBVIOUS
  <1>1. CASE [Next]_vars
    BY <1>1, NextTypeOK, NextTicketInv, NextJobsKnown DEF TypeInv
  <1>2. CASE Touch
    <2>1. TicketInv'
      BY <1>2, TicketStutterInv DEF Touch, TypeInv
    <2>2. JobsKnown'
      BY <1>2 DEF Touch, TypeInv, JobsKnown, ticketVars
    <2>3. stats' \in Statistics /\ closed' \in BOOLEAN
      BY <1>2, ReleaseType DEF Touch, TypeInv, TypeOK
    <2>4. TypeOK'
      BY <1>2, <2>3 DEF Touch, TypeInv, TypeOK, ticketVars
    <2>5. QED
      BY <2>1, <2>2, <2>4 DEF TypeInv
  <1>3. CASE Send
    <2>1. TicketInv'
      BY <1>3, IssueInv DEF Send, Async, TypeInv
    <2>2. /\ ticket \in Ticket /\ "push" \in Jobs
          /\ task' = [task EXCEPT ![ticket] = "spawned"]
          /\ job' = [job EXCEPT ![ticket] = "push"]
          /\ task \in [Ticket -> Phases]
      BY <1>3, MaxTicketsAssumption
      DEF Send, Async, Issue, TypeInv, TypeOK, Ticket, Jobs, SocketJobs
    <2>3. JobsKnown'
      BY <2>2, KindFacts DEF TypeInv, JobsKnown
    <2>4. /\ ticket' \in 0 .. MaxTickets /\ serving' \in 0 .. MaxTickets
          /\ task' \in [Ticket -> Phases]
      BY <2>1, MaxTicketsAssumption DEF TicketInv, Window
    <2>5. TypeOK'
      BY <1>3, <2>2, <2>4 DEF Send, TypeInv, TypeOK
    <2>6. QED
      BY <2>1, <2>3, <2>5 DEF TypeInv
  <1>4. QED
    BY <1>1, <1>2, <1>3, PushStep DEF TypeInv

OrderInv == WireInv /\ ResponsesInOrder /\ AnswerInv

\* The thread's messages are answers like any other: taken in turn, written in
\* order, none lost.
LEMMA PushOrderInv ==
  TypeInv /\ OrderInv /\ [PushNext]_pushVars => OrderInv'
  <1> SUFFICES ASSUME TypeInv, OrderInv, [PushNext]_pushVars PROVE OrderInv'
    OBVIOUS
  <1>1. CASE [Next]_vars
    BY <1>1, NextWireInv, NextAnswerInv DEF OrderInv
  <1>2. CASE Touch \/ Send
    <2>1. UNCHANGED <<wire, peer>>
      BY <1>2 DEF Touch, Send
    <2>2. /\ ticket \in Nat /\ task \in [Ticket -> Phases]
          /\ job \in [Ticket -> Jobs \cup {"none"}]
          /\ ticket \in Ticket => task[ticket] = "free"
          /\ "push" \in Jobs
      BY MaxTicketsAssumption
      DEF TypeInv, TypeOK, TicketInv, Window, Jobs, SocketJobs
    <2>3. \A t \in Ticket :
            \/ task'[t] = task[t] /\ job'[t] = job[t]
            \/ task[t] = "free" /\ task'[t] = "spawned" /\ job'[t] \in Jobs
      BY <1>2, <2>2 DEF Touch, Send, Async, Issue, ticketVars
    <2>4. WireInv' /\ ResponsesInOrder'
      BY <2>1, <2>3, SilentStep DEF OrderInv
    <2>5. AnswerInv'
      BY <2>1, <2>3, AnswerStutter DEF OrderInv
    <2>6. QED
      BY <2>4, <2>5 DEF OrderInv
  <1>3. QED
    BY <1>1, <1>2, PushStep DEF TypeInv

\* A connection with a thread that pushes starts as any other.
LEMMA PushInitInv == PushInit => TypeInv /\ OrderInv /\ ClosedInv
  <1> SUFFICES ASSUME PushInit PROVE TypeInv /\ OrderInv /\ ClosedInv
    OBVIOUS
  <1>1. TypeInv
    BY InitTypeInv DEF PushInit
  <1>2. OrderInv
    BY DEF PushInit, Init, TicketInit, OrderInv, WireInv, ResponsesInOrder,
           AnswerInv, NoAnswerLost
  <1>3. ClosedInv
    BY DEF PushInit, Init, ClosedInv
  <1>4. QED
    BY <1>1, <1>2, <1>3

\* The promises of a connection to whoever hands it work hold with a thread that
\* pushes: one writer at a time, answers in the order of their tickets, none lost
\* while no write has failed.
THEOREM PushKeepsPromises ==
  PushSpec => [](WriteExclusion /\ ResponsesInOrder /\ NoAnswerLost)
  <1>1. TypeInv => WriteExclusion
    BY WritePhasesAssumption
    DEF TypeInv, TicketInv, HolderIsServed, Holding, WriteExclusion
  <1>2. OrderInv => ResponsesInOrder /\ NoAnswerLost
    BY DEF OrderInv, AnswerInv
  <1>3. QED
    BY <1>1, <1>2, PushInitInv, PushTypeInv, PushOrderInv, PTL DEF PushSpec

-----------------------------------------------------------------------------

\* A thread about to call holds the copy it calls through; once there is a
\* thread, only a failed websocket write empties the stored pusher; and only the
\* emptied pusher makes the thread's look at it unsafe.
ThreadInv ==
  /\ thread = "calling" => held
  /\ thread # "absent" => pusher \/ peer = "broken"
  /\ UnsafeOnlyAfterFailure

\* A connection with a thread is destroyed with its last reference, too.
LEMMA PushClosedInv ==
  ClosedInv /\ ThreadInv /\ [PushNext]_pushVars => ClosedInv'
  <1> SUFFICES ASSUME ClosedInv, ThreadInv, [PushNext]_pushVars
               PROVE  ClosedInv'
    OBVIOUS
  <1>1. [Next]_vars => ClosedInv'
    BY NextClosedInv
  <1>2. CASE Connected
    BY <1>1, <1>2 DEF Connected, AcceptAndStart, Next, Serve
  <1>3. CASE FindDestroyed \/ FindFull
    BY <1>1, <1>3 DEF FindDestroyed, FindFull
  <1>4. CASE FindEmpty
    BY <1>4, ReleaseClosed DEF FindEmpty
  <1>5. CASE Clone
    BY <1>5
    DEF Clone, ClosedInv, Referenced, Active, ticketVars
  <1>6. CASE Push
    <2>1. ~closed
      BY <1>6 DEF Push, OnlyCopyLeft, ClosedInv, Referenced
    <2>2. QED
      BY <1>6, <2>1 DEF Push, ClosedInv
  <1>7. CASE PushOnLastReference
    <2>1. ~closed
      BY <1>7 DEF PushOnLastReference, ThreadInv, ClosedInv, Referenced
    <2>2. QED
      BY <1>7, <2>1, ReleaseClosed DEF PushOnLastReference
  <1>8. CASE Over \/ UNCHANGED pushVars
    BY <1>1, <1>8 DEF Over, pushVars
  <1>9. QED
    BY <1>2, <1>3, <1>4, <1>5, <1>6, <1>7, <1>8 DEF PushNext, Thread

\* What the steps of the connection do to the references the thread looks at.
LEMMA ConnectedReferences ==
  ASSUME TypeInv, Connected
  PROVE  /\ held' = held
         /\ thread' = thread \/ (AcceptUpgrade /\ thread' = "copying")
         /\ peer = "broken" => peer' = "broken"
         /\ AcceptUpgrade => pusher' = TRUE
         /\ ~AcceptUpgrade =>
              \/ pusher' = pusher
              \/ \E t \in Ticket : FailWrite(t) /\ job[t] \notin HttpJobs
  <1>1. CASE AcceptAndStart
    BY <1>1, PushAssumption DEF AcceptAndStart, AcceptUpgrade
  <1>2. CASE ReadRequest \/ ReadUpgrade \/ FailUpgrade \/ ReadMessage
               \/ ReadError \/ PeerLeaves
    <2>1. ~AcceptUpgrade \/ pusher' = TRUE
      BY PushAssumption DEF AcceptUpgrade
    <2>2. QED
      BY <1>2, <2>1
      DEF ReadRequest, ReadUpgrade, FailUpgrade, ReadMessage, ReadError,
          PeerLeaves, Connected, AcceptAndStart
  <1>3. ASSUME NEW t \in Ticket, Task(t), UNCHANGED thread
        PROVE  /\ held' = held
               /\ peer = "broken" => peer' = "broken"
               /\ pusher' = pusher \/ (FailWrite(t) /\ job[t] \notin HttpJobs)
    <2>1. pusher \in BOOLEAN
      BY DEF TypeInv, TypeOK
    <2>2. CASE FailWrite(t)
      BY <2>1, <2>2 DEF FailWrite
    <2>3. CASE ~FailWrite(t)
      BY <1>3, <2>3
      DEF Task, Start, Poll, BeginWrite, EndWrite, Finish, vars
    <2>4. QED
      BY <2>2, <2>3
  <1>4. AcceptUpgrade => pusher' = TRUE
    BY PushAssumption DEF AcceptUpgrade
  <1>5. QED
    BY <1>1, <1>2, <1>3, <1>4 DEF Connected

\* Every step of the thread and of the connection it pushes to.
LEMMA PushThreadInv ==
  TypeInv /\ ClosedInv /\ ThreadInv /\ [PushNext]_pushVars => ThreadInv'
  <1> SUFFICES ASSUME TypeInv, ClosedInv, ThreadInv, [PushNext]_pushVars
               PROVE  ThreadInv'
    OBVIOUS
  <1>1. held \in BOOLEAN /\ pusher \in BOOLEAN
    BY DEF TypeInv, TypeOK
  <1>2. CASE thread # "corrupt" /\ Connected
    <2>1. CASE AcceptUpgrade
      BY <1>2, <2>1, ConnectedReferences DEF ThreadInv, UnsafeOnlyAfterFailure
    <2>2. CASE ~AcceptUpgrade
      <3>1. /\ held' = held /\ thread' = thread
            /\ peer = "broken" => peer' = "broken"
            /\ pusher' = pusher \/ peer' = "broken"
        BY <1>2, <2>2, ConnectedReferences DEF FailWrite
      <3>2. QED
        BY <1>2, <3>1 DEF ThreadInv, UnsafeOnlyAfterFailure
    <2>3. QED
      BY <2>1, <2>2
  <1>3. CASE FindDestroyed
    BY <1>3
    DEF FindDestroyed, vars, ThreadInv, UnsafeOnlyAfterFailure, ClosedInv,
        Referenced
  <1>4. CASE FindEmpty \/ FindFull \/ Clone \/ Push
    BY <1>1, <1>4
    DEF FindEmpty, FindFull, Clone, Push, vars, ThreadInv, UnsafeOnlyAfterFailure
  <1>5. CASE PushOnLastReference
    BY <1>5
    DEF PushOnLastReference, OnlyCopyLeft, ThreadInv, UnsafeOnlyAfterFailure
  <1>6. CASE Over \/ UNCHANGED pushVars
    BY <1>6 DEF Over, pushVars, vars, ThreadInv, UnsafeOnlyAfterFailure
  <1>7. QED
    BY <1>2, <1>3, <1>4, <1>5, <1>6 DEF PushNext, Thread

\* What the thread needs, step by step.
LEMMA PushSafe == PushSpec => [](TypeInv /\ OrderInv /\ ClosedInv /\ ThreadInv)
  <1>1. PushInit => ThreadInv
    BY DEF PushInit, ThreadInv, UnsafeOnlyAfterFailure
  <1>2. QED
    BY <1>1, PushInitInv, PushTypeInv, PushOrderInv, PushClosedInv,
       PushThreadInv, PTL
    DEF PushSpec

\* Memory that was freed is used by the thread only after a websocket write has
\* failed.
THEOREM UnsafeAfterFailure == PushSpec => []UnsafeOnlyAfterFailure
  BY PushSafe, PTL DEF ThreadInv

-----------------------------------------------------------------------------

\* Where nothing but the thread's messages is written, the first write that can
\* empty the stored pusher comes after the thread has a copy of its own.
KeptInv ==
  /\ \A t \in Ticket : job[t] # "binary"
  /\ (\E t \in Ticket : job[t] = "push") => held \/ thread \in {"ended", "corrupt"}
  /\ thread \in {"absent", "copying", "cloning", "calling", "ended", "corrupt"}
  /\ thread \in {"copying", "cloning", "calling"} => pusher \/ held
  /\ pc \in {"reading", "accepting"} => thread = "absent"

\* Jobs are only added by async().
LEMMA ConnectedJobs ==
  ASSUME ~HandlesBinary, TypeInv, Connected, NEW t \in Ticket
  PROVE  job'[t] = job[t] \/ job'[t] \in {"http", "501", "text"}
  <1>1. ASSUME NEW k \in {"http", "501", "text"}, Async(k)
        PROVE  job'[t] = job[t] \/ job'[t] \in {"http", "501", "text"}
    BY <1>1 DEF Async, TypeInv, TypeOK
  <1>2. CASE ReadRequest \/ ReadUpgrade \/ ReadMessage
    BY <1>1, <1>2 DEF ReadRequest, ReadUpgrade, ReadMessage
  <1>3. CASE AcceptUpgrade \/ FailUpgrade \/ ReadError \/ PeerLeaves
    BY <1>3 DEF AcceptUpgrade, FailUpgrade, ReadError, PeerLeaves
  <1>4. ASSUME NEW u \in Ticket, Task(u) PROVE job' = job
    BY <1>4
    DEF Task, Start, Poll, BeginWrite, EndWrite, FailWrite, Finish, vars
  <1>5. QED
    BY <1>2, <1>3, <1>4 DEF Connected, AcceptAndStart

\* The thread's copy and the stored pusher, between them, keep the connection.
LEMMA PushKeptInv ==
  ~HandlesBinary /\ TypeInv /\ OrderInv /\ ThreadInv /\ KeptInv
    /\ [PushNext]_pushVars => KeptInv'
  <1> SUFFICES ASSUME ~HandlesBinary, TypeInv, OrderInv, ThreadInv, KeptInv,
                      [PushNext]_pushVars
               PROVE  KeptInv'
    OBVIOUS
  <1>1. held \in BOOLEAN /\ pusher \in BOOLEAN
    BY DEF TypeInv, TypeOK
  <1>2. CASE thread # "corrupt" /\ Connected
    <2>1. \A t \in Ticket :
            job'[t] = job[t] \/ job'[t] \in {"http", "501", "text"}
      BY <1>2, ConnectedJobs
    <2>2. held' = held
      BY <1>2, ConnectedReferences
    <2>3. CASE AcceptUpgrade
      <3>1. pusher' = TRUE /\ thread' \in {thread, "copying"} /\ job' = job
        BY <1>2, <2>3, ConnectedReferences DEF AcceptUpgrade
      <3>2. thread = "absent" /\ pc' = "websocket"
        BY <2>3 DEF AcceptUpgrade, ServeRuns, KeptInv
      <3>3. QED
        BY <2>2, <3>1, <3>2 DEF KeptInv
    <2>4. CASE ~AcceptUpgrade
      <3>1. thread' = thread
        BY <1>2, <2>4, ConnectedReferences
      <3>2. ASSUME NEW t \in Ticket, FailWrite(t), job[t] \notin HttpJobs
            PROVE  held \/ thread \in {"ended", "corrupt"}
        <4>1. task[t] = "writing"
          BY <3>2 DEF FailWrite, Proceed
        <4>2. job[t] \in Jobs /\ job[t] # "text"
          BY <4>1 DEF TypeInv, TypeOK, JobsKnown, OrderInv, AnswerInv, Writes
        <4>3. job[t] = "push"
          BY <3>2, <4>2 DEF KeptInv, Jobs, SocketJobs
        <4>4. QED
          BY <4>3 DEF KeptInv
      <3>3. pusher' = pusher \/ held \/ thread \in {"ended", "corrupt"}
        BY <1>2, <2>4, <3>2, ConnectedReferences
      <3>4. pc' \in {"reading", "accepting"} => pc \in {"reading", "accepting"}
        BY <1>2, <2>4
        DEF Connected, AcceptAndStart, ReadRequest, ReadUpgrade, FailUpgrade,
            ReadMessage, ReadError, PeerLeaves, ServeRuns, Task, Start, Poll,
            BeginWrite, EndWrite, FailWrite, Finish, vars
      <3>5. QED
        BY <1>2, <2>1, <2>2, <3>1, <3>3, <3>4 DEF KeptInv
    <2>5. QED
      BY <2>3, <2>4
  <1>3. CASE FindDestroyed \/ FindFull
    BY <1>3 DEF FindDestroyed, FindFull, vars, KeptInv
  <1>4. CASE FindEmpty \/ PushOnLastReference
    BY <1>4 DEF FindEmpty, PushOnLastReference, KeptInv
  <1>5. CASE Clone
    BY <1>1, <1>5 DEF Clone, KeptInv
  <1>6. CASE Push
    <2>1. /\ held /\ held' = held /\ thread = "calling" /\ thread' = "copying"
          /\ UNCHANGED pc
      BY <1>6 DEF Push, ThreadInv
    <2>2. \A t \in Ticket : job'[t] = job[t] \/ job'[t] = "push"
      BY <1>6 DEF Push, Async, TypeInv, TypeOK
    <2>3. QED
      BY <2>1, <2>2 DEF KeptInv
  <1>7. CASE Over \/ UNCHANGED pushVars
    BY <1>7 DEF Over, pushVars, vars, KeptInv
  <1>8. QED
    BY <1>2, <1>3, <1>4, <1>5, <1>6, <1>7 DEF PushNext, Thread

\* Where nothing but the thread's messages is written, the thread is gone before
\* the connection is, unless it has fallen into the race.
THEOREM ThreadKeeps == ~HandlesBinary => (PushSpec => []ThreadKeepsConnection)
  <1> SUFFICES ASSUME ~HandlesBinary PROVE PushSpec => []ThreadKeepsConnection
    OBVIOUS
  <1>1. PushInit => KeptInv
    BY DEF PushInit, Init, KeptInv
  <1>2. ClosedInv /\ KeptInv => ThreadKeepsConnection
    BY DEF ClosedInv, KeptInv, ThreadKeepsConnection, Referenced
  <1>3. QED
    BY <1>1, <1>2, PushSafe, PushKeptInv, PTL DEF PushSpec

=============================================================================
