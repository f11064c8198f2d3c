-------------------------- MODULE ConnectionProofs --------------------------
(***************************************************************************)
(* Proofs about Connection, for every number of tickets and every          *)
(* combination of traits: types, the window of tickets, exclusion of       *)
(* writers, the order of the answers, lifetime; that no answer is lost,    *)
(* what a refusal and a handshake keep apart, what the counters come to;   *)
(* and that each step is one of ResponseQueue or a stutter.                *)
(***************************************************************************)
EXTENDS Connection, TicketsProofs, FiniteSetTheorems, SequenceTheorems

\* The counters and phases keep the window and the single holder, whatever the
\* traits and in every interleaving.
LEMMA NextTicketInv == TicketInv /\ [Next]_vars => TicketInv'
  <1> SUFFICES ASSUME TicketInv, [Next]_vars PROVE TicketInv'
    OBVIOUS
  <1>0. {"writing", "written"} = HeldPhases
    BY WritePhasesAssumption
  <1>1. CASE ReadRequest
    BY <1>1, IssueInv DEF ReadRequest, Async
  <1>2. CASE ReadUpgrade
    BY <1>2, IssueInv, TicketStutterInv DEF ReadUpgrade, Async
  <1>3. CASE AcceptUpgrade \/ FailUpgrade \/ ReadError \/ PeerLeaves
    BY <1>3, TicketStutterInv
    DEF AcceptUpgrade, FailUpgrade, ReadError, PeerLeaves
  <1>4. CASE ReadMessage
    BY <1>4, IssueInv DEF ReadMessage, Async
  <1>5. ASSUME NEW t \in Ticket, Task(t) PROVE TicketInv'
    <2>1. CASE Start(t)
      BY <2>1, BeginInv DEF Start
    <2>2. CASE Poll(t)
      BY <2>2, TicketStutterInv DEF Poll, vars
    <2>3. CASE BeginWrite(t)
      BY <1>0, <2>3, TakeTurnInv DEF BeginWrite
    <2>4. CASE EndWrite(t)
      BY <1>0, <2>4, ProceedInv DEF EndWrite
    <2>5. CASE FailWrite(t)
      BY <1>0, <2>5, ProceedInv DEF FailWrite
    <2>6. CASE Finish(t)
      BY <1>0, <2>6, ReturnInv DEF Finish
    <2>7. QED
      BY <1>5, <2>1, <2>2, <2>3, <2>4, <2>5, <2>6 DEF Task
  <1>6. CASE UNCHANGED vars
    BY <1>6, TicketStutterInv DEF vars
  <1>7. QED
    BY <1>1, <1>2, <1>3, <1>4, <1>5, <1>6 DEF Next, Serve, Terminated

\* The ticket queue invariant holds throughout.
THEOREM TicketsCorrect == Spec => []TicketInv
  <1>1. Init => TicketInv
    BY TicketInitInv DEF Init
  <1>2. QED
    BY <1>1, NextTicketInv, PTL DEF Spec

\* Two coroutines never write at the same time: both would hold the turn.
THEOREM Exclusion == Spec => []WriteExclusion
  <1>1. TicketInv => WriteExclusion
    BY WritePhasesAssumption
    DEF TicketInv, HolderIsServed, Holding, WriteExclusion
  <1>2. QED
    BY <1>1, TicketsCorrect, PTL

-----------------------------------------------------------------------------

\* Counting keeps the counters integers.
LEMMA CountType ==
  ASSUME NEW s \in Statistics,
         NEW c \in Counters, NEW d \in Int
  PROVE  Count(s, c, d) \in Statistics
  BY DEF Count, Statistics

\* Releasing a reference keeps the types of the variables it assigns.
LEMMA ReleaseType ==
  ASSUME NEW s \in Statistics,
         closed \in BOOLEAN, Release(s)
  PROVE  /\ stats' \in Statistics
         /\ closed' \in BOOLEAN
  <1>1. Count(s, "connections", -1) \in Statistics
    BY CountType DEF Counters
  <1>2. (IF open THEN -1 ELSE 0) \in Int
    OBVIOUS
  <1>3. Count(Count(s, "connections", -1), "upgrades", IF open THEN -1 ELSE 0)
          \in Statistics
    BY <1>1, <1>2, CountType DEF Counters
  <1>4. QED
    BY <1>3 DEF Release

\* A record written to the socket keeps the type of the log.
LEMMA WireType ==
  ASSUME TypeOK, NEW k \in Jobs \cup {"101", "declined"}, NEW n \in Nat,
         wire' = Append(wire, [kind |-> k, ticket |-> n])
  PROVE  wire' \in Seq([kind : Jobs \cup {"101", "declined"}, ticket : Nat])
  BY DEF TypeOK

\* A ticket has a job from the moment it is issued.
JobsKnown ==
  /\ job \in [Ticket -> Jobs \cup {"none"}]
  /\ \A t \in Ticket : job[t] = "none" <=> task[t] = "free"

\* async() records what the ticket it takes is for, and no step forgets it.
LEMMA NextJobsKnown == JobsKnown /\ TicketInv /\ [Next]_vars => JobsKnown'
  <1> SUFFICES ASSUME JobsKnown, TicketInv, [Next]_vars PROVE JobsKnown'
    OBVIOUS
  <1>1. ASSUME NEW k \in Jobs, Async(k) PROVE JobsKnown'
    <2>1. /\ ticket \in Ticket
          /\ task \in [Ticket -> Phases]
          /\ task' = [task EXCEPT ![ticket] = "spawned"]
          /\ job' = [job EXCEPT ![ticket] = k]
      BY <1>1, MaxTicketsAssumption
      DEF Async, Issue, TicketInv, Window, Ticket
    <2>2. k # "none"
      BY DEF Jobs, HttpJobs, SocketJobs
    <2>3. QED
      BY <2>1, <2>2 DEF JobsKnown
  <1>2. ASSUME UNCHANGED job, UNCHANGED task PROVE JobsKnown'
    BY <1>2 DEF JobsKnown
  <1>3. ASSUME NEW t \in Ticket, NEW to \in Phases, to # "free",
               task[t] # "free", task' = [task EXCEPT ![t] = to], UNCHANGED job
        PROVE  JobsKnown'
    BY <1>3 DEF JobsKnown, TicketInv, Window
  <1>4. CASE Serve
    <2>1. {"http", "501", "text", "binary"} \subseteq Jobs
      BY DEF Jobs, HttpJobs, SocketJobs
    <2>2. QED
      BY <1>1, <1>2, <1>4, <2>1
      DEF Serve, ReadRequest, ReadUpgrade, AcceptUpgrade, FailUpgrade,
          ReadMessage, ReadError, ticketVars
  <1>5. ASSUME NEW t \in Ticket, Task(t) PROVE JobsKnown'
    <2>1. {"writing", "written", "waiting", "done"} \subseteq Phases
      BY PhaseFacts, WritePhasesAssumption
    <2>2. CASE Start(t)
      BY <1>3, <2>1, <2>2 DEF Start, Begin
    <2>3. CASE Poll(t)
      BY <1>2, <2>3 DEF Poll, vars, ticketVars
    <2>4. CASE BeginWrite(t)
      BY <1>3, <2>1, <2>4 DEF BeginWrite, TakeTurn
    <2>5. CASE EndWrite(t) \/ FailWrite(t)
      BY <1>3, <2>1, <2>5 DEF EndWrite, FailWrite, Proceed
    <2>6. CASE Finish(t)
      BY <1>3, <2>1, <2>6 DEF Finish, Return
    <2>7. QED
      BY <1>5, <2>2, <2>3, <2>4, <2>5, <2>6 DEF Task
  <1>6. CASE PeerLeaves \/ UNCHANGED vars
    BY <1>2, <1>6 DEF PeerLeaves, vars, ticketVars
  <1>7. QED
    BY <1>4, <1>5, <1>6 DEF Next, Terminated

\* Every step keeps the types.
LEMMA NextTypeOK == TypeOK /\ TicketInv /\ JobsKnown /\ [Next]_vars => TypeOK'
  <1> SUFFICES ASSUME TypeOK, TicketInv, JobsKnown, [Next]_vars PROVE TypeOK'
    OBVIOUS
  <1>1. TicketInv'
    BY NextTicketInv
  <1>2. /\ ticket' \in 0 .. MaxTickets
        /\ serving' \in 0 .. MaxTickets
        /\ task' \in [Ticket -> Phases]
    BY <1>1, MaxTicketsAssumption DEF TicketInv, Window
  <1> DEFINE Rest == /\ job \in [Ticket -> Jobs \cup {"none"}]
                     /\ pc \in ServePoints
                     /\ peer \in {"up", "left", "broken"}
                     /\ wire \in Seq([kind : Jobs \cup {"101", "declined"},
                                      ticket : Nat])
                     /\ {pusher, held, open, closed} \subseteq BOOLEAN
                     /\ stats \in Statistics
  <1>3. SUFFICES Rest'
    BY <1>2 DEF TypeOK
  <1>4. Rest
    BY DEF TypeOK
  <1>5. ASSUME NEW k \in Jobs, Async(k)
        PROVE  job' \in [Ticket -> Jobs \cup {"none"}]
    BY <1>4, <1>5 DEF Async
  <1>6. CASE ReadRequest
    <2>1. job' \in [Ticket -> Jobs \cup {"none"}]
      BY <1>5, <1>6 DEF ReadRequest, Jobs, HttpJobs
    <2>2. QED
      BY <1>4, <1>6, <2>1 DEF ReadRequest, ServePoints
  <1>7. CASE ReadUpgrade
    <2>1. job' \in [Ticket -> Jobs \cup {"none"}]
      BY <1>4, <1>5, <1>7 DEF ReadUpgrade, Jobs, HttpJobs
    <2>2. QED
      BY <1>4, <1>7, <2>1 DEF ReadUpgrade, ServePoints
  <1>8. CASE AcceptUpgrade
    <2>1. wire' \in Seq([kind : Jobs \cup {"101", "declined"}, ticket : Nat])
      BY <1>8, WireType DEF AcceptUpgrade, Put, TypeOK
    <2>2. stats' \in Statistics
      <3>1. Count(stats, "tasks", 1) \in Statistics
        BY <1>4, CountType DEF Counters
      <3>2. Count(Count(stats, "tasks", 1), "upgrades", 1) \in Statistics
        BY <3>1, CountType DEF Counters
      <3>3. QED
        BY <1>8, <3>2 DEF AcceptUpgrade
    <2>3. {pusher', open'} \subseteq BOOLEAN
      BY <1>8, TraitsAssumption DEF AcceptUpgrade, Reports
    <2>4. QED
      BY <1>4, <1>8, <2>1, <2>2, <2>3 DEF AcceptUpgrade, ServePoints
  <1>9. CASE FailUpgrade
    <2>1. wire' \in Seq([kind : Jobs \cup {"101", "declined"}, ticket : Nat])
      <3>1. ticket \in Nat /\ "declined" \in Jobs \cup {"101", "declined"}
        BY DEF TypeOK
      <3>2. QED
        BY <1>4, <1>9, <3>1, WireType DEF FailUpgrade, Put
    <2>2. /\ stats' \in Statistics
          /\ closed' \in BOOLEAN
      BY <1>4, <1>9, ReleaseType DEF FailUpgrade
    <2>3. QED
      BY <1>4, <1>9, <2>1, <2>2 DEF FailUpgrade, ServePoints
  <1>10. CASE ReadMessage
    <2>1. job' \in [Ticket -> Jobs \cup {"none"}]
      BY <1>5, <1>10 DEF ReadMessage, Jobs, SocketJobs
    <2>2. QED
      BY <1>4, <1>10, <2>1 DEF ReadMessage
  <1>11. CASE ReadError
    <2> DEFINE counted == IF pc = "websocket" THEN Count(stats, "tasks", -1)
                                              ELSE stats
    <2>0. counted \in Statistics
      BY <1>4, CountType DEF Counters
    <2>1. /\ stats' \in Statistics
          /\ closed' \in BOOLEAN
      <3>1. Release(counted)
        BY <1>11 DEF ReadError
      <3>2. QED
        BY <1>4, <2>0, <3>1, ReleaseType
    <2>2. QED
      BY <1>4, <1>11, <2>1 DEF ReadError, ServePoints
  <1>12. CASE PeerLeaves
    BY <1>4, <1>12 DEF PeerLeaves
  <1>13. ASSUME NEW t \in Ticket, Task(t) PROVE Rest'
    <2>1. CASE Start(t)
      <3>1. stats' \in Statistics
        BY <1>4, <2>1, CountType DEF Start, Counters
      <3>2. QED
        BY <1>4, <2>1, <3>1 DEF Start
    <2>2. CASE Poll(t) \/ BeginWrite(t)
      BY <1>4, <2>2 DEF Poll, BeginWrite, vars
    <2>3. CASE EndWrite(t)
      <3>1. job[t] \in Jobs \cup {"none"} /\ t \in Nat
        BY <1>4, MaxTicketsAssumption DEF Ticket
      <3>2. job[t] \in Jobs
        BY <3>1, <2>3 DEF EndWrite, Proceed, JobsKnown
      <3>3. QED
        BY <1>4, <2>3, <3>1, <3>2, WireType DEF EndWrite
    <2>4. CASE FailWrite(t)
      BY <1>4, <2>4 DEF FailWrite
    <2>5. CASE Finish(t)
      <3>1. /\ stats' \in Statistics
            /\ closed' \in BOOLEAN
        <4>1. Count(stats, "tasks", -1) \in Statistics
          BY <1>4, CountType DEF Counters
        <4>2. Release(Count(stats, "tasks", -1))
          BY <2>5 DEF Finish
        <4>3. QED
          BY <1>4, <4>1, <4>2, ReleaseType
      <3>2. QED
        BY <1>4, <2>5, <3>1 DEF Finish
    <2>6. QED
      BY <1>13, <2>1, <2>2, <2>3, <2>4, <2>5 DEF Task
  <1>14. CASE UNCHANGED vars
    BY <1>4, <1>14 DEF vars
  <1>15. QED
    BY <1>6, <1>7, <1>8, <1>9, <1>10, <1>11, <1>12, <1>13, <1>14
    DEF Next, Serve, Terminated

\* What the log of the socket and the phases know of each other: an answer on
\* the wire is that of a coroutine past its write.
WireInv ==
  \A i \in DOMAIN wire :
    IsResponse(i) => /\ wire[i].ticket \in Ticket
                     /\ task[wire[i].ticket] \in {"written", "done"}
                     /\ wire[i].kind = job[wire[i].ticket]

TypeInv == TypeOK /\ TicketInv /\ JobsKnown

\* A connection starts with its types, its window and its jobs.
LEMMA InitTypeInv == Init => TypeInv
  <1>1. Init => TicketInv
    BY TicketInitInv DEF Init
  <1>2. Init => JobsKnown
    BY DEF Init, TicketInit, JobsKnown
  <1>3. Init => TypeOK
    <2> SUFFICES ASSUME Init PROVE TypeOK
      OBVIOUS
    <2>1. /\ ticket \in 0 .. MaxTickets /\ serving \in 0 .. MaxTickets
          /\ task \in [Ticket -> Phases]
      BY <1>1, MaxTicketsAssumption DEF TicketInv, Window
    <2>2. stats \in Statistics
      <3> DEFINE zero == [tasks |-> 0, connections |-> 0, upgrades |-> 0]
      <3>1. zero \in Statistics
        BY DEF Statistics, Counters
      <3>2. Count(zero, "connections", 1) \in Statistics
        BY <3>1, CountType DEF Counters
      <3>3. QED
        BY <3>2 DEF Init
    <2>3. /\ job \in [Ticket -> Jobs \cup {"none"}]
          /\ pc \in ServePoints /\ peer \in {"up", "left", "broken"}
          /\ {pusher, held, open, closed} \subseteq BOOLEAN
      BY DEF Init, ServePoints
    <2>4. wire = <<>>
      BY DEF Init
    <2>5. wire \in Seq([kind : Jobs \cup {"101", "declined"}, ticket : Nat])
      BY <2>4
    <2>6. QED
      BY <2>1, <2>2, <2>3, <2>5 DEF TypeOK
  <1>4. QED
    BY <1>1, <1>2, <1>3 DEF TypeInv

\* The types, the window and the jobs together are inductive.
LEMMA NextTypeInv == TypeInv /\ [Next]_vars => TypeInv'
  BY NextTypeOK, NextTicketInv, NextJobsKnown DEF TypeInv

\* They hold throughout.
LEMMA TypeInvCorrect == Spec => []TypeInv
  BY InitTypeInv, NextTypeInv, PTL DEF Spec

\* The types hold throughout.
THEOREM TypeCorrect == Spec => []TypeOK
  BY TypeInvCorrect, PTL DEF TypeInv

\* A step that writes no answer, and takes no coroutine back before its write,
\* keeps the log and its order.
LEMMA SilentStep ==
  ASSUME TypeInv, WireInv, ResponsesInOrder,
         \/ UNCHANGED wire
         \/ \E k \in {"101", "declined"}, n \in Nat :
              wire' = Append(wire, [kind |-> k, ticket |-> n]),
         \A t \in Ticket : task[t] \in {"written", "done"} =>
            task'[t] \in {"written", "done"} /\ job'[t] = job[t]
  PROVE  WireInv' /\ ResponsesInOrder'
  <1>1. wire \in Seq([kind : Jobs \cup {"101", "declined"}, ticket : Nat])
    BY DEF TypeInv, TypeOK
  <1>2. CASE UNCHANGED wire
    BY <1>2 DEF WireInv, ResponsesInOrder, IsResponse
  <1>3. CASE \E k \in {"101", "declined"}, n \in Nat :
               wire' = Append(wire, [kind |-> k, ticket |-> n])
    <2>1. PICK k \in {"101", "declined"}, n \in Nat :
            wire' = Append(wire, [kind |-> k, ticket |-> n])
      BY <1>3
    <2>2. k \notin Jobs
      BY DEF Jobs, HttpJobs, SocketJobs
    <2>3. /\ DOMAIN wire = 1 .. Len(wire) /\ Len(wire) \in Nat
          /\ DOMAIN wire' = 1 .. Len(wire) + 1
          /\ \A i \in DOMAIN wire : wire'[i] = wire[i]
          /\ wire'[Len(wire) + 1].kind = k
      BY <1>1, <2>1
    <2>4. \A i \in DOMAIN wire' : IsResponse(i)' => /\ i \in DOMAIN wire
                                                  /\ IsResponse(i)
                                                  /\ wire'[i] = wire[i]
      BY <2>2, <2>3 DEF IsResponse
    <2>5. QED
      BY <2>4 DEF WireInv, ResponsesInOrder
  <1>4. QED
    BY <1>2, <1>3

\* The coroutine that writes holds the turn, so every answer before its own has
\* a smaller ticket.
LEMMA EndWriteOrder ==
  ASSUME TypeInv, WireInv, ResponsesInOrder, NEW t \in Ticket, EndWrite(t)
  PROVE  WireInv' /\ ResponsesInOrder'
  <1>1. wire \in Seq([kind : Jobs \cup {"101", "declined"}, ticket : Nat])
    BY DEF TypeInv, TypeOK
  <1>2. /\ task[t] = "writing"
        /\ task' = [task EXCEPT ![t] = "written"]
        /\ task \in [Ticket -> Phases]
        /\ UNCHANGED job
        /\ wire' = Append(wire, [kind |-> job[t], ticket |-> t])
    BY DEF EndWrite, Proceed, TypeInv, TicketInv, Window
  <1>3. t = serving
    BY <1>2, WritePhasesAssumption
    DEF TypeInv, TicketInv, HolderIsServed, Holding
  <1>4. ASSUME NEW u \in Ticket, task[u] \in {"written", "done"}
        PROVE  u < t
    <2>1. u # t
      BY <1>2, <1>4
    <2>2. CASE task[u] = "done"
      BY <1>3, <2>2 DEF TypeInv, TicketInv, Window
    <2>3. CASE task[u] = "written"
      BY <1>3, <2>1, <2>3, WritePhasesAssumption
      DEF TypeInv, TicketInv, HolderIsServed, Holding
    <2>4. QED
      BY <1>4, <2>2, <2>3
  <1>5. /\ DOMAIN wire = 1 .. Len(wire) /\ Len(wire) \in Nat
        /\ DOMAIN wire' = 1 .. Len(wire) + 1
        /\ \A i \in DOMAIN wire : wire'[i] = wire[i]
        /\ wire'[Len(wire) + 1] = [kind |-> job[t], ticket |-> t]
    BY <1>1, <1>2
  <1>6. ASSUME NEW i \in DOMAIN wire, IsResponse(i)
        PROVE  /\ wire[i].ticket \in Ticket
               /\ wire[i].ticket < t
               /\ task'[wire[i].ticket] \in {"written", "done"}
               /\ wire[i].kind = job'[wire[i].ticket]
    <2>1. /\ wire[i].ticket \in Ticket
          /\ task[wire[i].ticket] \in {"written", "done"}
          /\ wire[i].kind = job[wire[i].ticket]
      BY <1>6 DEF WireInv
    <2>2. wire[i].ticket < t
      BY <1>4, <2>1
    <2>3. QED
      BY <1>2, <2>1, <2>2
  <1>7. WireInv'
    <2> SUFFICES ASSUME NEW i \in DOMAIN wire', IsResponse(i)'
                 PROVE  /\ wire'[i].ticket \in Ticket
                        /\ task'[wire'[i].ticket] \in {"written", "done"}
                        /\ wire'[i].kind = job'[wire'[i].ticket]
      BY DEF WireInv
    <2>1. CASE i \in DOMAIN wire
      BY <1>5, <1>6, <2>1 DEF IsResponse
    <2>2. CASE i = Len(wire) + 1
      BY <1>2, <1>5, <2>2
    <2>3. QED
      BY <1>5, <2>1, <2>2
  <1>8. ResponsesInOrder'
    <2> SUFFICES ASSUME NEW i \in DOMAIN wire', NEW j \in DOMAIN wire', i < j,
                        IsResponse(i)', IsResponse(j)'
                 PROVE  wire'[i].ticket < wire'[j].ticket
      BY DEF ResponsesInOrder
    <2>1. i \in DOMAIN wire /\ IsResponse(i)
      BY <1>5 DEF IsResponse
    <2>2. CASE j \in DOMAIN wire
      BY <1>5, <2>1, <2>2 DEF ResponsesInOrder, IsResponse
    <2>3. CASE j = Len(wire) + 1
      BY <1>5, <1>6, <2>1, <2>3
    <2>4. QED
      BY <1>5, <2>2, <2>3
  <1>9. QED
    BY <1>7, <1>8

\* The phases a step leaves behind: a coroutine past its write stays so, and
\* only EndWrite puts an answer on the wire.
LEMMA NextWireInv ==
  TypeInv /\ WireInv /\ ResponsesInOrder /\ [Next]_vars
    => WireInv' /\ ResponsesInOrder'
  <1> SUFFICES ASSUME TypeInv, WireInv, ResponsesInOrder, [Next]_vars
               PROVE  WireInv' /\ ResponsesInOrder'
    OBVIOUS
  <1> DEFINE Quiet == \/ UNCHANGED wire
                      \/ \E k \in {"101", "declined"}, n \in Nat :
                           wire' = Append(wire, [kind |-> k, ticket |-> n])
             Stays == \A t \in Ticket : task[t] \in {"written", "done"} =>
                        task'[t] \in {"written", "done"} /\ job'[t] = job[t]
  <1>1. Quiet /\ Stays => WireInv' /\ ResponsesInOrder'
    BY SilentStep
  <1>2. /\ task \in [Ticket -> Phases] /\ job \in [Ticket -> Jobs \cup {"none"}]
        /\ ticket \in Nat /\ MaxTickets \in Nat
        /\ ticket \in Ticket => task[ticket] = "free"
    BY MaxTicketsAssumption DEF TypeInv, TypeOK, TicketInv, Window
  <1>3. ASSUME NEW k, Async(k) PROVE Stays
    BY <1>2, <1>3 DEF Async, Issue
  <1>4. UNCHANGED <<task, job>> => Stays
    OBVIOUS
  <1>5. ASSUME NEW t \in Ticket, NEW to,
               task[t] \in {"spawned", "waiting", "writing"} \/ to = "done",
               task' = [task EXCEPT ![t] = to], UNCHANGED job
        PROVE  Stays
    BY <1>2, <1>5
  <1>6. CASE ReadRequest \/ ReadMessage \/ ReadUpgrade
    BY <1>1, <1>3, <1>4, <1>6
    DEF ReadRequest, ReadMessage, ReadUpgrade, ticketVars
  <1>7. CASE AcceptUpgrade \/ FailUpgrade
    BY <1>1, <1>2, <1>4, <1>7 DEF AcceptUpgrade, FailUpgrade, Put, ticketVars
  <1>8. CASE ReadError \/ PeerLeaves \/ UNCHANGED vars
    BY <1>1, <1>4, <1>8 DEF ReadError, PeerLeaves, ticketVars, vars
  <1>9. ASSUME NEW t \in Ticket, Task(t)
        PROVE  WireInv' /\ ResponsesInOrder'
    <2>1. CASE Start(t)
      BY <1>1, <1>5, <2>1 DEF Start, Begin
    <2>2. CASE Poll(t)
      BY <1>1, <1>4, <2>2 DEF Poll, vars, ticketVars
    <2>3. CASE BeginWrite(t)
      BY <1>1, <1>5, <2>3 DEF BeginWrite, TakeTurn
    <2>4. CASE EndWrite(t)
      BY <2>4, EndWriteOrder
    <2>5. CASE FailWrite(t)
      BY <1>1, <1>5, <2>5 DEF FailWrite, Proceed
    <2>6. CASE Finish(t)
      BY <1>1, <1>5, <2>6 DEF Finish, Return
    <2>7. QED
      BY <1>9, <2>1, <2>2, <2>3, <2>4, <2>5, <2>6 DEF Task
  <1>10. QED
    BY <1>6, <1>7, <1>8, <1>9 DEF Next, Serve, Terminated

\* Answers leave in the order of their tickets, each at most once.
THEOREM Order == Spec => []ResponsesInOrder
  <1>1. Init => WireInv /\ ResponsesInOrder
    BY DEF Init, WireInv, ResponsesInOrder
  <1>2. QED
    BY <1>1, NextWireInv, TypeInvCorrect, PTL DEF Spec

-----------------------------------------------------------------------------

\* A destroyed connection has no coroutine, no pusher and no copy of one left.
ClosedInv == closed => ~Referenced

\* The step that destroys the connection is one that leaves no reference.
LEMMA ReleaseClosed ==
  ASSUME NEW s, ~closed, Release(s)
  PROVE  ClosedInv'
  BY DEF Release, ClosedInv

\* Only the last reference goes with the connection, and nothing runs after.
LEMMA NextClosedInv == ClosedInv /\ [Next]_vars => ClosedInv'
  <1> SUFFICES ASSUME ClosedInv, [Next]_vars PROVE ClosedInv'
    OBVIOUS
  <1>1. CASE Serve
    <2>1. pc # "finished"
      BY <1>1
      DEF Serve, ReadRequest, ReadUpgrade, AcceptUpgrade, FailUpgrade,
          ReadMessage, ReadError, ServeRuns
    <2>2. ~closed
      BY <2>1 DEF ClosedInv, Referenced
    <2>3. CASE FailUpgrade \/ ReadError
      BY <2>2, <2>3, ReleaseClosed DEF FailUpgrade, ReadError
    <2>4. CASE ReadRequest \/ ReadUpgrade \/ AcceptUpgrade \/ ReadMessage
      BY <2>2, <2>4
      DEF ReadRequest, ReadUpgrade, AcceptUpgrade, ReadMessage, ClosedInv
    <2>5. QED
      BY <1>1, <2>3, <2>4 DEF Serve
  <1>2. ASSUME NEW t \in Ticket, Task(t) PROVE ClosedInv'
    <2>1. CASE Poll(t)
      BY <2>1 DEF Poll, vars, ticketVars, ClosedInv, Referenced, Active
    <2>2. CASE ~Poll(t)
      <3>1. Active(t)
        BY <1>2, <2>2
        DEF Task, Start, Begin, BeginWrite, TakeTurn, EndWrite, FailWrite,
            Proceed, Finish, Return, Active
      <3>2. ~closed
        BY <3>1 DEF ClosedInv, Referenced
      <3>3. CASE Finish(t)
        BY <3>2, <3>3, ReleaseClosed DEF Finish
      <3>4. CASE ~Finish(t)
        BY <1>2, <2>2, <3>2, <3>4
        DEF Task, Start, BeginWrite, EndWrite, FailWrite, ClosedInv
      <3>5. QED
        BY <3>3, <3>4
    <2>3. QED
      BY <2>1, <2>2
  <1>3. CASE PeerLeaves \/ UNCHANGED vars
    BY <1>3 DEF PeerLeaves, vars, ticketVars, ClosedInv, Referenced, Active
  <1>4. QED
    BY <1>1, <1>2, <1>3 DEF Next, Terminated

\* The connection is destroyed only after all its tickets are served and all its
\* coroutines have returned.
THEOREM Lifetime == Spec => []DestroyedLast
  <1>1. Init => ClosedInv
    BY DEF Init, ClosedInv
  <1>2. TicketInv /\ ClosedInv => DestroyedLast
    <2> SUFFICES ASSUME TicketInv, closed, ~Referenced
                 PROVE  /\ serving = ticket
                        /\ pc = "finished"
                        /\ \A t \in Ticket : ~Active(t)
      BY DEF ClosedInv, DestroyedLast
    <2>1. pc = "finished" /\ \A t \in Ticket : ~Active(t)
      BY DEF Referenced
    <2>2. CASE serving < ticket
      <3>1. serving \in Ticket
        BY <2>2, MaxTicketsAssumption DEF TicketInv, Window, Ticket
      <3>2. Active(serving)
        BY <2>2, <3>1, MaxTicketsAssumption DEF TicketInv, Window, Active
      <3>3. QED
        BY <2>1, <3>1, <3>2
    <2>3. QED
      BY <2>1, <2>2, MaxTicketsAssumption DEF TicketInv, Window
  <1>3. QED
    BY <1>1, <1>2, NextClosedInv, TicketsCorrect, PTL DEF Spec

-----------------------------------------------------------------------------

\* The type of the log, as the steps below use it.
WireElements == [kind : Jobs \cup {"101", "declined"}, ticket : Nat]

\* Every record of the log has a kind and a ticket.
LEMMA WireElement ==
  ASSUME TypeOK, NEW i \in DOMAIN wire
  PROVE  /\ wire[i] \in WireElements
         /\ wire[i].kind \in Jobs \cup {"101", "declined"}
         /\ wire[i].ticket \in Nat
  <1>1. wire \in Seq(WireElements)
    BY DEF TypeOK, WireElements
  <1>2. wire[i] \in WireElements
    BY <1>1
  <1>3. QED
    BY <1>2 DEF WireElements

\* What appending a record to the log does to its elements.
LEMMA AppendToWire ==
  ASSUME TypeOK, NEW k \in Jobs \cup {"101", "declined"}, NEW n \in Nat,
         wire' = Append(wire, [kind |-> k, ticket |-> n])
  PROVE  /\ DOMAIN wire = 1 .. Len(wire) /\ Len(wire) \in Nat
         /\ DOMAIN wire' = 1 .. Len(wire) + 1
         /\ Len(wire) + 1 \in DOMAIN wire'
         /\ \A i \in DOMAIN wire : i \in DOMAIN wire' /\ wire'[i] = wire[i]
         /\ wire'[Len(wire) + 1] = [kind |-> k, ticket |-> n]
         /\ \A i \in DOMAIN wire' : i \in DOMAIN wire \/ i = Len(wire) + 1
         /\ \A i, j \in DOMAIN wire' : i < j => i \in DOMAIN wire
  BY DEF TypeOK

\* The answer of a coroutine that has written is on the wire, that of no other,
\* and only coroutines with something to write get as far as writing.
AnswerInv ==
  /\ NoAnswerLost
  /\ \A t \in Ticket : task[t] = "writing" => Writes(t)

OnWire(w) == \E i \in DOMAIN wire : wire[i] = w

\* A step that neither writes an answer nor moves a coroutine past its write.
LEMMA AnswerStutter ==
  ASSUME TypeInv, WireInv, AnswerInv,
         \/ UNCHANGED wire
         \/ \E k \in {"101", "declined"}, n \in Nat :
              wire' = Append(wire, [kind |-> k, ticket |-> n]),
         peer = "broken" => peer' = "broken",
         \A t \in Ticket :
           \/ /\ job'[t] = job[t]
              /\ task'[t] = "writing" => task[t] = "writing"
                                          \/ (task[t] = "waiting" /\ Writes(t))
              /\ \/ task'[t] \in {"written", "done"}
                      <=> task[t] \in {"written", "done"}
                 \/ ~Writes(t)
           \/ task[t] = "free" /\ task'[t] = "spawned" /\ job'[t] \in Jobs
  PROVE  AnswerInv'
  <1>1. \A i \in DOMAIN wire' :
          wire'[i].kind \in Jobs => i \in DOMAIN wire /\ wire'[i] = wire[i]
    <2>1. CASE UNCHANGED wire
      BY <2>1
    <2>2. ASSUME NEW k \in {"101", "declined"}, NEW n \in Nat,
                 wire' = Append(wire, [kind |-> k, ticket |-> n])
          PROVE  <1>1
      <3>1. k \notin Jobs
        BY DEF Jobs, HttpJobs, SocketJobs
      <3>2. QED
        BY <2>2, <3>1, AppendToWire DEF TypeInv
    <2>3. QED
      BY <2>1, <2>2
  <1>2. \A i \in DOMAIN wire : i \in DOMAIN wire' /\ wire'[i] = wire[i]
    BY AppendToWire DEF TypeInv
  <1>3. ASSUME NEW w, w.kind \in Jobs PROVE OnWire(w)' <=> OnWire(w)
    BY <1>1, <1>2, <1>3 DEF OnWire
  <1>4. \A i \in DOMAIN wire' : wire'[i].kind # "none"
    <2>1. \A i \in DOMAIN wire : wire[i].kind # "none"
      BY WireElement DEF TypeInv, Jobs, HttpJobs, SocketJobs
    <2>2. CASE UNCHANGED wire
      BY <2>1, <2>2
    <2>3. ASSUME NEW k \in {"101", "declined"}, NEW n \in Nat,
                 wire' = Append(wire, [kind |-> k, ticket |-> n])
          PROVE  <1>4
      BY <2>1, <2>3, AppendToWire DEF TypeInv
    <2>4. QED
      BY <2>2, <2>3
  <1>5. ASSUME NEW t \in Ticket
        PROVE  /\ task'[t] = "writing" => Writes(t)'
               /\ peer' # "broken" =>
                    (task'[t] \in {"written", "done"} /\ Writes(t)'
                      <=> \E i \in DOMAIN wire' :
                            wire'[i] = [kind |-> job'[t], ticket |-> t])
    <2>1. job[t] \in Jobs \cup {"none"}
          /\ (job[t] = "none" <=> task[t] = "free")
      BY DEF TypeInv, JobsKnown
    <2>2. peer # "broken" /\ job[t] \in Jobs =>
            (task[t] \in {"written", "done"} /\ Writes(t)
               <=> OnWire([kind |-> job[t], ticket |-> t]))
      BY DEF AnswerInv, NoAnswerLost, OnWire
    <2>3. peer' # "broken" => peer # "broken"
      OBVIOUS
    <2>4. CASE job'[t] = "none"
      <3>1. ~\E i \in DOMAIN wire' :
               wire'[i] = [kind |-> job'[t], ticket |-> t]
        BY <1>4, <2>4
      <3>2. task'[t] \notin {"writing", "written", "done"}
        BY <2>1, <2>4 DEF Writes
      <3>3. QED
        BY <3>1, <3>2
    <2>5. CASE job'[t] = job[t] /\ job[t] \in Jobs
      <3>1. OnWire([kind |-> job[t], ticket |-> t])
              => task[t] \in {"written", "done"}
        BY <2>5 DEF OnWire, WireInv, IsResponse
      <3>2. (\E i \in DOMAIN wire' :
               wire'[i] = [kind |-> job'[t], ticket |-> t])
              <=> OnWire([kind |-> job[t], ticket |-> t])
        BY <1>1, <1>2, <2>5 DEF OnWire
      <3>3. Writes(t)' = Writes(t)
        BY <2>5 DEF Writes
      <3>4. QED
        BY <2>2, <2>3, <2>5, <3>1, <3>2, <3>3 DEF AnswerInv
    <2>6. CASE task[t] = "free" /\ task'[t] = "spawned" /\ job'[t] \in Jobs
      <3>1. ~\E i \in DOMAIN wire : IsResponse(i) /\ wire[i].ticket = t
        BY <2>6 DEF WireInv
      <3>2. ~\E i \in DOMAIN wire' : wire'[i] = [kind |-> job'[t], ticket |-> t]
        BY <3>1, <1>1, <2>6 DEF IsResponse
      <3>3. QED
        BY <2>6, <3>2
    <2>9. QED
      BY <2>1, <2>4, <2>5, <2>6
  <1>6. QED
    BY <1>5 DEF AnswerInv, NoAnswerLost

\* The coroutine that ends its write has put its own answer on the wire, and
\* moved no other.
LEMMA EndWriteAnswer ==
  ASSUME TypeInv, AnswerInv, NEW t \in Ticket, EndWrite(t)
  PROVE  AnswerInv'
  <1>1. /\ task[t] = "writing"
        /\ \A u \in Ticket : task'[u] = IF u = t THEN "written" ELSE task[u]
        /\ job' = job /\ peer' = peer /\ peer # "broken"
        /\ wire' = Append(wire, [kind |-> job[t], ticket |-> t])
    BY DEF EndWrite, Proceed, TypeInv, TypeOK
  <1>2. job[t] \in Jobs /\ t \in Nat /\ TypeOK
    BY <1>1, MaxTicketsAssumption DEF TypeInv, TypeOK, JobsKnown, Ticket
  <1>3. /\ \A i \in DOMAIN wire : i \in DOMAIN wire' /\ wire'[i] = wire[i]
        /\ Len(wire) + 1 \in DOMAIN wire'
        /\ wire'[Len(wire) + 1] = [kind |-> job[t], ticket |-> t]
        /\ \A i \in DOMAIN wire' : i \in DOMAIN wire \/ i = Len(wire) + 1
    BY <1>1, <1>2, AppendToWire
  <1>4. ASSUME NEW u \in Ticket
        PROVE  /\ task'[u] = "writing" => Writes(u)'
               /\ task'[u] \in {"written", "done"} /\ Writes(u)'
                    <=> \E i \in DOMAIN wire' :
                          wire'[i] = [kind |-> job'[u], ticket |-> u]
    <2>1. Writes(u)' = Writes(u)
      BY <1>1 DEF Writes
    <2>2. CASE u = t
      BY <1>1, <1>3, <2>1, <2>2 DEF AnswerInv
    <2>3. CASE u # t
      <3>1. wire'[Len(wire) + 1] # [kind |-> job[u], ticket |-> u]
        BY <1>3, <2>3
      <3>2. (\E i \in DOMAIN wire' : wire'[i] = [kind |-> job'[u], ticket |-> u])
              <=> \E i \in DOMAIN wire : wire[i] = [kind |-> job[u], ticket |-> u]
        BY <1>1, <1>3, <3>1
      <3>3. QED
        BY <1>1, <2>1, <2>3, <3>2 DEF AnswerInv, NoAnswerLost
    <2>4. QED
      BY <2>2, <2>3
  <1>5. QED
    BY <1>4 DEF AnswerInv, NoAnswerLost

\* Only a write that ends moves a coroutine with an answer past its write,
\* unless it fails, after which nothing is claimed.
LEMMA NextAnswerInv ==
  TypeInv /\ WireInv /\ AnswerInv /\ [Next]_vars => AnswerInv'
  <1> SUFFICES ASSUME TypeInv, WireInv, AnswerInv, [Next]_vars
               PROVE  AnswerInv'
    OBVIOUS
  <1> DEFINE Quiet == /\ \/ UNCHANGED wire
                         \/ \E k \in {"101", "declined"}, n \in Nat :
                              wire' = Append(wire, [kind |-> k, ticket |-> n])
                      /\ peer = "broken" => peer' = "broken"
             Calm(t) == /\ job'[t] = job[t]
                        /\ task'[t] = "writing" =>
                             task[t] = "writing" \/ (task[t] = "waiting" /\ Writes(t))
                        /\ \/ task'[t] \in {"written", "done"}
                                <=> task[t] \in {"written", "done"}
                           \/ ~Writes(t)
             Spawned(t) == task[t] = "free" /\ task'[t] = "spawned"
                             /\ job'[t] \in Jobs
  <1>1. Quiet /\ (\A t \in Ticket : Calm(t) \/ Spawned(t)) => AnswerInv'
    BY AnswerStutter
  <1>2. /\ task \in [Ticket -> Phases] /\ job \in [Ticket -> Jobs \cup {"none"}]
        /\ ticket \in Nat
        /\ ticket \in Ticket => task[ticket] = "free"
    BY MaxTicketsAssumption DEF TypeInv, TypeOK, TicketInv, Window
  <1>3. ASSUME NEW k \in Jobs, Async(k)
        PROVE  \A t \in Ticket : Calm(t) \/ Spawned(t)
    BY <1>2, <1>3 DEF Async, Issue
  <1>4. UNCHANGED <<task, job>> => \A t \in Ticket : Calm(t)
    OBVIOUS
  <1>5. {"http", "501", "text", "binary"} \subseteq Jobs
    BY DEF Jobs, HttpJobs, SocketJobs
  <1>6. CASE ReadRequest \/ ReadMessage \/ ReadUpgrade
    BY <1>1, <1>3, <1>4, <1>5, <1>6
    DEF ReadRequest, ReadMessage, ReadUpgrade, ticketVars
  <1>7. CASE AcceptUpgrade \/ FailUpgrade
    BY <1>1, <1>2, <1>4, <1>7 DEF AcceptUpgrade, FailUpgrade, Put, ticketVars
  <1>8. CASE ReadError \/ PeerLeaves \/ UNCHANGED vars
    BY <1>1, <1>4, <1>8 DEF ReadError, PeerLeaves, ticketVars, vars
  <1>9. ASSUME NEW t \in Ticket, Task(t) PROVE AnswerInv'
    <2>1. CASE Start(t)
      BY <1>1, <1>2, <2>1 DEF Start, Begin
    <2>2. CASE Poll(t)
      BY <1>1, <1>4, <2>2 DEF Poll, vars, ticketVars
    <2>3. CASE BeginWrite(t)
      BY <1>1, <1>2, <2>3 DEF BeginWrite, TakeTurn
    <2>4. CASE EndWrite(t)
      BY <2>4, EndWriteAnswer
    <2>5. CASE FailWrite(t)
      <3>1. /\ peer' = "broken" /\ job' = job
            /\ \A u \in Ticket : task'[u] = "writing" => task[u] = "writing"
        BY <1>2, <2>5 DEF FailWrite, Proceed
      <3>2. QED
        BY <3>1 DEF AnswerInv, NoAnswerLost, Writes
    <2>6. CASE Finish(t)
      BY <1>1, <1>2, <2>6 DEF Finish, Return
    <2>7. QED
      BY <1>9, <2>1, <2>2, <2>3, <2>4, <2>5, <2>6 DEF Task
  <1>10. QED
    BY <1>6, <1>7, <1>8, <1>9 DEF Next, Serve, Terminated

\* While no write has failed, the socket has been given exactly the answers of
\* the coroutines that are past their write.
THEOREM Answers == Spec => []NoAnswerLost
  <1>1. Init => WireInv /\ ResponsesInOrder /\ AnswerInv
    BY DEF Init, TicketInit, WireInv, ResponsesInOrder, AnswerInv, NoAnswerLost
  <1>2. AnswerInv => NoAnswerLost
    BY DEF AnswerInv
  <1>3. QED
    BY <1>1, <1>2, NextWireInv, NextAnswerInv, TypeInvCorrect, PTL DEF Spec

-----------------------------------------------------------------------------

\* The refused request is the last for which a ticket is taken: serve returns.
RefusedInv ==
  \A t \in Ticket : job[t] = "501" => pc = "finished" /\ ticket = t + 1

\* The requests that no handler answers are refused once.
LEMMA NextRefusedInv == TypeInv /\ RefusedInv /\ [Next]_vars => RefusedInv'
  <1> SUFFICES ASSUME TypeInv, RefusedInv, [Next]_vars PROVE RefusedInv'
    OBVIOUS
  <1>1. /\ job \in [Ticket -> Jobs \cup {"none"}] /\ ticket \in Nat
        /\ MaxTickets \in Nat
    BY MaxTicketsAssumption DEF TypeInv, TypeOK
  <1>2. CASE Serve
    <2>1. pc # "finished"
      BY <1>2
      DEF Serve, ReadRequest, ReadUpgrade, AcceptUpgrade, FailUpgrade,
          ReadMessage, ReadError, ServeRuns
    <2>2. \A t \in Ticket : job[t] # "501"
      BY <2>1 DEF RefusedInv
    <2>3. CASE UNCHANGED job
      BY <2>2, <2>3 DEF RefusedInv
    <2>4. CASE ReadRequest \/ ReadMessage \/ ReadUpgrade
      BY <1>1, <2>2, <2>4
      DEF ReadRequest, ReadMessage, ReadUpgrade, Async, Issue, RefusedInv
    <2>5. QED
      BY <1>2, <2>3, <2>4
      DEF Serve, AcceptUpgrade, FailUpgrade, ReadError
  <1>3. CASE UNCHANGED <<job, pc, ticket>>
    BY <1>3 DEF RefusedInv
  <1>4. ASSUME NEW t \in Ticket, Task(t) PROVE UNCHANGED <<job, pc, ticket>>
    BY <1>4
    DEF Task, Start, Begin, Poll, BeginWrite, TakeTurn, EndWrite, FailWrite,
        Proceed, Finish, Return, vars, ticketVars
  <1>5. CASE PeerLeaves \/ UNCHANGED vars
    BY <1>3, <1>5 DEF PeerLeaves, vars, ticketVars
  <1>6. QED
    BY <1>2, <1>3, <1>4, <1>5 DEF Next, Terminated

\* Nothing is written once a refusal is on the wire: all earlier tickets are
\* served by then, and there is no later one.
LEMMA NextRefusalIsLast ==
  TypeInv /\ WireInv /\ RefusedInv /\ RefusalIsLast /\ [Next]_vars
    => RefusalIsLast'
  <1> SUFFICES ASSUME TypeInv, WireInv, RefusedInv, RefusalIsLast, [Next]_vars
               PROVE  RefusalIsLast'
    OBVIOUS
  <1> DEFINE Refused == \E i \in DOMAIN wire : wire[i].kind = "501"
  <1>1. UNCHANGED wire => RefusalIsLast'
    BY DEF RefusalIsLast
  <1>2. ASSUME NEW k \in Jobs \cup {"101", "declined"}, NEW n \in Nat, ~Refused,
               wire' = Append(wire, [kind |-> k, ticket |-> n])
        PROVE  RefusalIsLast'
    BY <1>2, AppendToWire DEF RefusalIsLast, TypeInv
  <1>3. Refused => pc = "finished" /\ \A t \in Ticket : task[t] # "writing"
    <2> SUFFICES ASSUME NEW i \in DOMAIN wire, wire[i].kind = "501"
                 PROVE  /\ pc = "finished"
                        /\ \A t \in Ticket : task[t] # "writing"
      OBVIOUS
    <2> DEFINE r == wire[i].ticket
    <2>1. r \in Ticket /\ task[r] \in {"written", "done"} /\ job[r] = "501"
      BY DEF WireInv, IsResponse, Jobs, HttpJobs
    <2>2. pc = "finished" /\ ticket = r + 1
      BY <2>1 DEF RefusedInv
    <2>3. ASSUME NEW t \in Ticket, task[t] = "writing" PROVE FALSE
      <3>1. t = serving /\ t < ticket
        BY <2>3, WritePhasesAssumption, MaxTicketsAssumption
        DEF TypeInv, TicketInv, Window, HolderIsServed, Holding, Ticket
      <3>2. r <= serving
        BY <2>1, WritePhasesAssumption, MaxTicketsAssumption
        DEF TypeInv, TicketInv, Window, HolderIsServed, Holding, Ticket
      <3>3. r = t
        BY <2>2, <2>1, <3>1, <3>2, MaxTicketsAssumption
        DEF Ticket, TypeInv, TypeOK
      <3>4. QED
        BY <2>1, <2>3, <3>3
    <2>4. QED
      BY <2>2, <2>3
  <1>4. CASE Serve
    <2>1. ~Refused
      BY <1>3, <1>4
      DEF Serve, ReadRequest, ReadUpgrade, AcceptUpgrade, FailUpgrade,
          ReadMessage, ReadError, ServeRuns
    <2>2. ticket \in Nat
      BY DEF TypeInv, TypeOK
    <2>3. CASE AcceptUpgrade \/ FailUpgrade
      BY <1>1, <1>2, <2>1, <2>2, <2>3 DEF AcceptUpgrade, FailUpgrade, Put
    <2>4. QED
      BY <1>1, <1>4, <2>3
      DEF Serve, ReadRequest, ReadUpgrade, ReadMessage, ReadError
  <1>5. ASSUME NEW t \in Ticket, Task(t) PROVE RefusalIsLast'
    <2>1. CASE EndWrite(t)
      <3>1. task[t] = "writing" /\ t \in Nat
        BY <2>1, MaxTicketsAssumption DEF EndWrite, Proceed, Ticket
      <3>2. job[t] \in Jobs
        BY <3>1 DEF TypeInv, TypeOK, JobsKnown
      <3>3. QED
        BY <1>2, <1>3, <2>1, <3>1, <3>2 DEF EndWrite
    <2>2. QED
      BY <1>1, <1>5, <2>1
      DEF Task, Start, Poll, BeginWrite, FailWrite, Finish, vars
  <1>6. CASE PeerLeaves \/ UNCHANGED vars
    BY <1>1, <1>6 DEF PeerLeaves, vars
  <1>7. QED
    BY <1>4, <1>5, <1>6 DEF Next, Terminated

\* No answer follows a 501.
THEOREM Refusal == Spec => []RefusalIsLast
  <1>1. Init => WireInv /\ ResponsesInOrder /\ RefusedInv /\ RefusalIsLast
    BY DEF Init, WireInv, ResponsesInOrder, RefusedInv, RefusalIsLast
  <1>2. QED
    BY <1>1, NextWireInv, NextRefusedInv, NextRefusalIsLast, TypeInvCorrect, PTL
    DEF Spec

-----------------------------------------------------------------------------

HasKind(kind) == \E i \in DOMAIN wire : wire[i].kind = kind

\* The two protocols of a connection whose peer waits for its answers: HTTP
\* until the handshake, answered by then, and nothing but messages after it.
HandInv ==
  /\ pc = "accepting" => Unanswered = {}
  /\ pc \in {"reading", "accepting"} =>
       /\ \A t \in Ticket : job[t] \in HttpJobs \cup {"none"}
       /\ \A i \in DOMAIN wire : wire[i].kind \in HttpJobs
  /\ HasKind("101") => \A t \in Unanswered : job[t] \in SocketJobs
  /\ HasKind("declined") => Unanswered = {} /\ pc = "finished"
  /\ pc = "websocket" => HasKind("101")

\* What is on the wire around a handshake.
Separated ==
  \A i, j \in DOMAIN wire : i < j =>
    /\ wire[i].kind = "101" => wire[j].kind \in SocketJobs
    /\ wire[i].kind # "declined"
    /\ wire[j].kind = "101" => wire[i].kind \in HttpJobs

\* A step that writes nothing keeps what is on the wire.
LEMMA SeparatedStutter == Separated /\ UNCHANGED wire => Separated'
  BY DEF Separated

\* A record may follow what the wire holds.
LEMMA SeparatedAppend ==
  ASSUME TypeOK, Separated,
         NEW k \in Jobs \cup {"101", "declined"}, NEW n \in Nat,
         wire' = Append(wire, [kind |-> k, ticket |-> n]),
         ~HasKind("declined"),
         HasKind("101") => k \in SocketJobs,
         k = "101" => \A i \in DOMAIN wire : wire[i].kind \in HttpJobs
  PROVE  Separated'
  <1> USE DEF HasKind
  <1>1. /\ \A i \in DOMAIN wire : wire'[i] = wire[i]
        /\ wire'[Len(wire) + 1].kind = k
        /\ \A i \in DOMAIN wire' : i \in DOMAIN wire \/ i = Len(wire) + 1
        /\ \A i, j \in DOMAIN wire' : i < j => i \in DOMAIN wire
    BY AppendToWire
  <1>2. SUFFICES ASSUME NEW i \in DOMAIN wire', NEW j \in DOMAIN wire', i < j
                 PROVE  /\ wire'[i].kind = "101" => wire'[j].kind \in SocketJobs
                        /\ wire'[i].kind # "declined"
                        /\ wire'[j].kind = "101" => wire'[i].kind \in HttpJobs
    BY DEF Separated
  <1>3. i \in DOMAIN wire
    BY <1>1, <1>2
  <1>4. CASE j \in DOMAIN wire
    BY <1>1, <1>2, <1>3, <1>4 DEF Separated
  <1>5. CASE j = Len(wire) + 1
    BY <1>1, <1>3, <1>5
  <1>6. QED
    BY <1>1, <1>4, <1>5

\* The kinds on the wire after a record is appended.
LEMMA AppendKind ==
  ASSUME TypeOK, NEW k \in Jobs \cup {"101", "declined"}, NEW n \in Nat,
         wire' = Append(wire, [kind |-> k, ticket |-> n])
  PROVE  \A other : HasKind(other)' <=> HasKind(other) \/ other = k
  BY AppendToWire DEF HasKind

\* The kinds of work and of handshakes are distinct.
LEMMA KindFacts ==
  /\ HttpJobs \subseteq Jobs /\ SocketJobs \subseteq Jobs
  /\ Jobs = HttpJobs \cup SocketJobs
  /\ {"http", "501"} \subseteq HttpJobs /\ {"text", "binary"} \subseteq SocketJobs
  /\ {"101", "declined", "none"} \cap Jobs = {}
  BY DEF Jobs, HttpJobs, SocketJobs

\* serve takes tickets for requests before the handshake and ws_serve for
\* messages after it; the handshake itself waits for the answers.
LEMMA ServeHandInv ==
  ASSUME TypeInv, HandInv, Separated, ~UpgradePipelined, Serve
  PROVE  HandInv' /\ Separated'
  <1>1. /\ TypeOK /\ ticket \in Nat /\ MaxTickets \in Nat
        /\ job \in [Ticket -> Jobs \cup {"none"}]
        /\ task \in [Ticket -> Phases]
        /\ ticket \in Ticket => task[ticket] = "free"
    BY MaxTicketsAssumption DEF TypeInv, TypeOK, TicketInv, Window
  <1>2. UNCHANGED task => Unanswered' = Unanswered
    BY DEF Unanswered
  <1>3. ASSUME NEW k \in Jobs, Async(k)
        PROVE  /\ \A t \in Unanswered' : t \in Unanswered \/ job'[t] = k
               /\ \A t \in Ticket : job'[t] = job[t] \/ job'[t] = k
               /\ \A t \in Unanswered' : job'[t] = job[t] \/ job'[t] = k
    BY <1>1, <1>3 DEF Async, Issue, Unanswered
  <1>4. UNCHANGED wire => Separated'
        /\ \A kind : HasKind(kind)' <=> HasKind(kind)
    BY SeparatedStutter DEF HasKind
  <1>5. pc \in {"reading", "accepting"}
          => ~HasKind("101") /\ ~HasKind("declined")
    BY KindFacts DEF HandInv, HasKind
  <1>6. ASSUME NEW k \in HttpJobs, Async(k), UNCHANGED wire, pc = "reading",
               pc' \in {"reading", "finished"}
        PROVE  HandInv' /\ Separated'
    <2>1. ~HasKind("101")' /\ ~HasKind("declined")' /\ Separated'
      BY <1>4, <1>5, <1>6
    <2>2. \A t \in Ticket : job'[t] \in HttpJobs \cup {"none"}
      BY <1>3, <1>6, KindFacts DEF HandInv
    <2>3. \A i \in DOMAIN wire' : wire'[i].kind \in HttpJobs
      BY <1>6 DEF HandInv
    <2>4. QED
      BY <1>6, <2>1, <2>2, <2>3 DEF HandInv
  <1>7. CASE ReadRequest
    BY <1>6, <1>7, KindFacts DEF ReadRequest, ServeRuns
  <1>8. CASE ReadUpgrade
    <2>1. CASE SupportsWebsocket
      <3>1. /\ pc = "reading" /\ pc' = "accepting" /\ Unanswered' = {}
            /\ UNCHANGED <<job, wire>>
        BY <1>2, <1>8, <2>1 DEF ReadUpgrade, ServeRuns, ticketVars
      <3>2. ~HasKind("101")' /\ ~HasKind("declined")' /\ Separated'
        BY <1>4, <1>5, <3>1
      <3>3. QED
        BY <3>1, <3>2 DEF HandInv
    <2>2. CASE ~SupportsWebsocket
      BY <1>6, <1>8, <2>2, KindFacts DEF ReadUpgrade, ServeRuns
    <2>3. QED
      BY <2>1, <2>2
  <1>9. CASE AcceptUpgrade
    <2>1. /\ pc = "accepting" /\ pc' = "websocket"
          /\ Unanswered = {} /\ Unanswered' = {}
          /\ wire' = Append(wire, [kind |-> "101", ticket |-> ticket])
      BY <1>2, <1>9 DEF AcceptUpgrade, ServeRuns, ticketVars, Put, HandInv
    <2>2. HasKind("101")' /\ ~HasKind("declined")'
      BY <1>1, <1>5, <2>1, AppendKind
    <2>3. Separated'
      BY <1>1, <1>5, <2>1, SeparatedAppend DEF HandInv
    <2>4. QED
      BY <2>1, <2>2, <2>3 DEF HandInv
  <1>10. CASE FailUpgrade
    <2>1. /\ pc = "accepting" /\ pc' = "finished"
          /\ Unanswered = {} /\ Unanswered' = {}
          /\ \/ UNCHANGED wire
             \/ wire' = Append(wire, [kind |-> "declined", ticket |-> ticket])
      BY <1>2, <1>10 DEF FailUpgrade, ServeRuns, ticketVars, Put, HandInv
    <2>2. ~HasKind("101")'
      BY <1>1, <1>4, <1>5, <2>1, AppendKind
    <2>3. Separated'
      BY <1>1, <1>4, <1>5, <2>1, SeparatedAppend DEF HandInv
    <2>4. QED
      BY <2>1, <2>2, <2>3 DEF HandInv
  <1>11. CASE ReadMessage
    <2>1. PICK k \in SocketJobs : Async(k)
      BY <1>11, KindFacts DEF ReadMessage
    <2>2. pc = "websocket" /\ UNCHANGED <<pc, wire>>
      BY <1>11 DEF ReadMessage, ServeRuns
    <2>3. HasKind("101")' /\ ~HasKind("declined")' /\ Separated'
      BY <1>4, <2>2 DEF HandInv
    <2>4. \A t \in Unanswered' : job'[t] \in SocketJobs
      BY <1>3, <2>1, <2>2, KindFacts DEF HandInv
    <2>5. QED
      BY <2>2, <2>3, <2>4 DEF HandInv
  <1>12. CASE ReadError
    BY <1>2, <1>4, <1>12 DEF ReadError, ticketVars, HandInv
  <1>13. QED
    BY <1>7, <1>8, <1>9, <1>10, <1>11, <1>12 DEF Serve

\* A coroutine writes nothing but its own answer, which is of the protocol the
\* connection speaks.
LEMMA TaskHandInv ==
  ASSUME TypeInv, HandInv, Separated, NEW t \in Ticket, Task(t)
  PROVE  HandInv' /\ Separated'
  <1>1. /\ TypeOK /\ t \in Nat
        /\ job \in [Ticket -> Jobs \cup {"none"}]
        /\ task \in [Ticket -> Phases]
    BY MaxTicketsAssumption DEF TypeInv, TypeOK, Ticket
  <1>2. UNCHANGED <<job, pc>>
    BY DEF Task, Start, Begin, Poll, BeginWrite, EndWrite, FailWrite, Finish, vars
  <1>3. Unanswered' \subseteq Unanswered
    BY <1>1
    DEF Task, Start, Begin, Poll, BeginWrite, TakeTurn, EndWrite, FailWrite,
        Proceed, Finish, Return, vars, ticketVars, Unanswered
  <1>4. CASE UNCHANGED wire
    <2>1. Separated' /\ \A kind : HasKind(kind)' <=> HasKind(kind)
      BY <1>4, SeparatedStutter DEF HasKind
    <2>2. QED
      BY <1>2, <1>3, <1>4, <2>1 DEF HandInv
  <1>5. CASE EndWrite(t)
    <2>1. /\ task[t] = "writing" /\ t \in Unanswered
          /\ wire' = Append(wire, [kind |-> job[t], ticket |-> t])
      BY <1>5 DEF EndWrite, Proceed, Unanswered
    <2>2. job[t] \in Jobs
      BY <1>1, <2>1 DEF TypeInv, JobsKnown
    <2>3. /\ ~HasKind("declined") /\ pc # "accepting"
          /\ HasKind("101") => job[t] \in SocketJobs
          /\ pc = "reading" => job[t] \in HttpJobs
      BY <2>1, <2>2, KindFacts DEF HandInv
    <2>4. Separated'
      BY <1>1, <2>1, <2>2, <2>3, SeparatedAppend, KindFacts
    <2>5. \A kind : HasKind(kind)' <=> HasKind(kind) \/ kind = job[t]
      BY <1>1, <2>1, <2>2, AppendKind
    <2>6. (HasKind("101")' <=> HasKind("101")) /\ ~HasKind("declined")'
      BY <2>2, <2>3, <2>5, KindFacts
    <2>7. pc = "reading" => \A i \in DOMAIN wire' : wire'[i].kind \in HttpJobs
      BY <1>1, <2>1, <2>2, <2>3, AppendToWire DEF HandInv
    <2>8. QED
      BY <1>2, <1>3, <2>3, <2>4, <2>6, <2>7 DEF HandInv
  <1>6. QED
    BY <1>4, <1>5
    DEF Task, Start, Poll, BeginWrite, FailWrite, Finish, vars

\* Every step of a connection whose peer waits for its answers.
LEMMA NextHandInv ==
  ~UpgradePipelined /\ TypeInv /\ HandInv /\ Separated /\ [Next]_vars
    => HandInv' /\ Separated'
  <1> SUFFICES ASSUME ~UpgradePipelined, TypeInv, HandInv, Separated, [Next]_vars
               PROVE  HandInv' /\ Separated'
    OBVIOUS
  <1>1. CASE PeerLeaves \/ UNCHANGED vars
    <2>1. UNCHANGED <<task, job, pc, wire>>
      BY <1>1 DEF PeerLeaves, vars, ticketVars
    <2>2. QED
      BY <2>1 DEF HandInv, Separated, Unanswered, HasKind
  <1>2. QED
    BY <1>1, ServeHandInv, TaskHandInv DEF Next, Terminated

\* A peer that waits for its answers before it asks for the upgrade gets a
\* handshake that no other write overlaps, requests answered before it and
\* messages after it.
THEOREM Handshake == Spec => []HandshakeSeparates
  <1>1. Init => HandInv /\ Separated
    BY DEF Init, TicketInit, HandInv, Separated, Unanswered, HasKind
  <1>2. HandInv /\ Separated => HandshakeSeparates
    BY DEF HandInv, Separated, HandshakeSeparates, Unanswered
  <1>3. CASE ~UpgradePipelined
    BY <1>1, <1>2, <1>3, NextHandInv, TypeInvCorrect, PTL DEF Spec
  <1>4. CASE UpgradePipelined
    <2>1. HandshakeSeparates
      BY <1>4 DEF HandshakeSeparates
    <2>2. QED
      BY <2>1, PTL
  <1>5. QED
    BY <1>3, <1>4

-----------------------------------------------------------------------------

Counts(t, c, u) == [tasks |-> t, connections |-> c, upgrades |-> u]

\* What counting does to the three counters.
LEMMA CountCounts ==
  ASSUME NEW t \in Int, NEW c \in Int, NEW u \in Int, NEW d \in Int
  PROVE  /\ Count(Counts(t, c, u), "tasks", d)
              = IF Reports THEN Counts(t + d, c, u) ELSE Counts(t, c, u)
         /\ Count(Counts(t, c, u), "connections", d)
              = IF Reports THEN Counts(t, c + d, u) ELSE Counts(t, c, u)
         /\ Count(Counts(t, c, u), "upgrades", d)
              = IF Reports THEN Counts(t, c, u + d) ELSE Counts(t, c, u)
  <1> DEFINE before == Counts(t, c, u)
  <1>1. /\ before \in [Counters -> Int]
        /\ before["tasks"] = t /\ before["connections"] = c
        /\ before["upgrades"] = u
    BY DEF Counts, Counters
  <1>2. ASSUME Reports
        PROVE  /\ Count(before, "tasks", d) = Counts(t + d, c, u)
               /\ Count(before, "connections", d) = Counts(t, c + d, u)
               /\ Count(before, "upgrades", d) = Counts(t, c, u + d)
    <2>1. /\ Count(before, "tasks", d) = [before EXCEPT !["tasks"] = t + d]
          /\ Count(before, "connections", d)
               = [before EXCEPT !["connections"] = c + d]
          /\ Count(before, "upgrades", d) = [before EXCEPT !["upgrades"] = u + d]
      BY <1>1, <1>2 DEF Count
    <2>2. [before EXCEPT !["tasks"] = t + d] = Counts(t + d, c, u)
      BY <1>1 DEF Counts, Counters
    <2>3. [before EXCEPT !["connections"] = c + d] = Counts(t, c + d, u)
      BY <1>1 DEF Counts, Counters
    <2>4. [before EXCEPT !["upgrades"] = u + d] = Counts(t, c, u + d)
      BY <1>1 DEF Counts, Counters
    <2>5. QED
      BY <2>1, <2>2, <2>3, <2>4
  <1>3. QED
    BY <1>2 DEF Count

\* The coroutines that have reported their start and not their end are finitely
\* many.
LEMMA StartedFinite ==
  /\ IsFiniteSet(Started) /\ Cardinality(Started) \in Nat
  /\ IsFiniteSet(Started)' /\ Cardinality(Started)' \in Nat
  <1>1. IsFiniteSet(Ticket)
    BY FS_Interval, MaxTicketsAssumption DEF Ticket
  <1>2. Started \subseteq Ticket /\ Started' \subseteq Ticket
    BY DEF Started
  <1>3. QED
    BY <1>1, <1>2, FS_Subset, FS_CardinalityType

\* What the connection owes the counters while it exists.
Owed == Counts(Cardinality(Started) + (IF pc = "websocket" THEN 1 ELSE 0),
               1, IF open THEN 1 ELSE 0)

BalanceInv ==
  /\ StatsBalance
  /\ open => pc \in {"websocket", "finished"}

\* StatsBalance in the terms of the steps.
LEMMA BalanceDef ==
  /\ StatsBalance <=>
       stats = IF ~Reports \/ closed THEN Counts(0, 0, 0) ELSE Owed
  /\ StatsBalance' <=>
       stats' = IF ~Reports \/ closed' THEN Counts(0, 0, 0) ELSE Owed'
  BY DEF StatsBalance, Owed, Counts, Reports

\* The last reference gives back what the connection owes: by then nothing of
\* it runs.
LEMMA ReleaseBalance ==
  ASSUME NEW s, s = IF ~Reports THEN Counts(0, 0, 0) ELSE Owed',
         UNCHANGED open, ~closed, Release(s)
  PROVE  StatsBalance'
  <1>1. CASE Referenced'
    BY <1>1, BalanceDef DEF Release
  <1>2. CASE ~Referenced'
    <2>1. closed' = TRUE
          /\ stats' = Count(Count(s, "connections", -1), "upgrades",
                             IF open THEN -1 ELSE 0)
      BY <1>2 DEF Release
    <2>2. Started' = {} /\ pc' # "websocket"
      <3>1. pc' = "finished" /\ \A t \in Ticket : task'[t] \in {"free", "done"}
        BY <1>2 DEF Referenced, Active
      <3>2. QED
        BY <3>1, WritePhasesAssumption DEF Started
    <2>3. CASE Reports
      <3> DEFINE u == IF open THEN 1 ELSE 0
      <3>1. s = Counts(0, 1, u)
        BY <2>2, <2>3, FS_EmptySet DEF Owed
      <3>2. u \in Int /\ (IF open THEN -1 ELSE 0) = -u /\ u + (-u) = 0
        OBVIOUS
      <3> HIDE DEF u
      <3>3. Count(s, "connections", -1) = Counts(0, 1 + (-1), u)
        BY <2>3, <3>1, <3>2, CountCounts
      <3>4. Count(Counts(0, 0, u), "upgrades", -u) = Counts(0, 0, u + (-u))
        BY <2>3, <3>2, CountCounts
      <3>5. stats' = Counts(0, 0, 0)
        BY <2>1, <3>2, <3>3, <3>4
      <3>6. QED
        BY <2>1, <3>5, BalanceDef
    <2>4. CASE ~Reports
      BY <2>1, <2>4, BalanceDef DEF Count
    <2>5. QED
      BY <2>3, <2>4
  <1>3. QED
    BY <1>1, <1>2

\* A step that neither starts nor ends a task, an upgrade or the connection.
LEMMA BalanceStutter ==
  ASSUME StatsBalance, Started' = Started, UNCHANGED <<open, closed, stats>>,
         pc' = "websocket" <=> pc = "websocket"
  PROVE  StatsBalance'
  BY DEF StatsBalance, Reports

\* What a task's step does to the set of the running ones.
LEMMA TaskStarted ==
  ASSUME TypeInv, NEW t \in Ticket
  PROVE  /\ Start(t) => t \notin Started /\ Started' = Started \cup {t}
         /\ BeginWrite(t) \/ EndWrite(t) \/ FailWrite(t) => Started' = Started
         /\ Finish(t) => t \in Started /\ Started' = Started \ {t}
         /\ UNCHANGED task => Started' = Started
         /\ \A k \in Jobs : Async(k) => Started' = Started
  <1>1. /\ task \in [Ticket -> Phases] /\ ticket \in Nat
        /\ ticket \in Ticket => task[ticket] = "free"
        /\ Started = {u \in Ticket : task[u] \in {"waiting", "writing", "written"}}
        /\ Started' =
             {u \in Ticket : task'[u] \in {"waiting", "writing", "written"}}
    BY MaxTicketsAssumption, WritePhasesAssumption
    DEF TypeInv, TypeOK, TicketInv, Window, Started
  <1>2. Start(t) => t \notin Started /\ Started' = Started \cup {t}
    BY <1>1 DEF Start, Begin
  <1>3. BeginWrite(t) => Started' = Started
    BY <1>1 DEF BeginWrite, TakeTurn
  <1>4. EndWrite(t) \/ FailWrite(t) => Started' = Started
    BY <1>1 DEF EndWrite, FailWrite, Proceed
  <1>5. Finish(t) => t \in Started /\ Started' = Started \ {t}
    BY <1>1 DEF Finish, Return
  <1>6. \A k \in Jobs : Async(k) => Started' = Started
    BY <1>1 DEF Async, Issue
  <1>7. QED
    BY <1>1, <1>2, <1>3, <1>4, <1>5, <1>6

\* Every step moves the counters by what it starts and ends.
LEMMA NextBalanceInv ==
  TypeInv /\ ClosedInv /\ BalanceInv /\ [Next]_vars => BalanceInv'
  <1> SUFFICES ASSUME TypeInv, ClosedInv, BalanceInv, [Next]_vars
               PROVE  BalanceInv'
    OBVIOUS
  <1>1. open \in BOOLEAN /\ closed \in BOOLEAN /\ 0 \in Ticket
    BY MaxTicketsAssumption DEF TypeInv, TypeOK, Ticket
  <1>2. ~closed => stats = IF ~Reports THEN Counts(0, 0, 0) ELSE Owed
    BY BalanceDef DEF BalanceInv
  <1> DEFINE n == Cardinality(Started)
             u == IF open THEN 1 ELSE 0
  <1>3. /\ n \in Int /\ u \in Int
        /\ Owed = Counts(n + (IF pc = "websocket" THEN 1 ELSE 0), 1, u)
    BY StartedFinite DEF Owed
  <1>4. CASE Serve
    <2>1. ~closed /\ pc # "finished"
      BY <1>4
      DEF Serve, ReadRequest, ReadUpgrade, AcceptUpgrade, FailUpgrade,
          ReadMessage, ReadError, ServeRuns, ClosedInv, Referenced
    <2>2. CASE ReadRequest \/ ReadUpgrade \/ ReadMessage
      <3>1. Started' = Started
        BY <1>1, <2>2, TaskStarted, KindFacts
        DEF ReadRequest, ReadUpgrade, ReadMessage, ticketVars
      <3>2. pc' = "websocket" <=> pc = "websocket"
        BY <2>2 DEF ReadRequest, ReadUpgrade, ReadMessage, ServeRuns
      <3>3. UNCHANGED <<open, closed, stats>> /\ (open => pc' = pc)
        BY <2>2 DEF ReadRequest, ReadUpgrade, ReadMessage, ServeRuns, BalanceInv
      <3>4. QED
        BY <3>1, <3>2, <3>3, BalanceStutter DEF BalanceInv
    <2>3. CASE AcceptUpgrade
      <3>1. /\ ~open /\ pc = "accepting" /\ pc' = "websocket"
            /\ open' = Reports /\ ~closed'
            /\ stats' = Count(Count(stats, "tasks", 1), "upgrades", 1)
        BY <1>1, <2>1, <2>3 DEF AcceptUpgrade, ServeRuns, BalanceInv
      <3>2. Started' = Started
        BY <1>1, <2>3, TaskStarted DEF AcceptUpgrade, ticketVars
      <3>3. CASE Reports
        <4>1. stats = Counts(n, 1, 0)
          BY <1>2, <1>3, <2>1, <3>1, <3>3
        <4> HIDE DEF n
        <4>2. Count(stats, "tasks", 1) = Counts(n + 1, 1, 0)
          BY <1>3, <3>3, <4>1, CountCounts
        <4>3. n + 1 \in Int
          BY <1>3
        <4>4. stats' = Counts(n + 1, 1, 0 + 1)
          BY <3>1, <3>3, <4>2, <4>3, CountCounts
        <4>5. Owed' = Counts(n + 1, 1, 1)
          BY <3>1, <3>2, <3>3 DEF Owed, n
        <4>6. QED
          BY <3>1, <3>3, <4>4, <4>5, BalanceDef DEF BalanceInv
      <3>4. CASE ~Reports
        BY <1>2, <2>1, <3>1, <3>4, BalanceDef DEF BalanceInv, Count
      <3>5. QED
        BY <3>3, <3>4
    <2>4. CASE FailUpgrade
      <3>1. /\ pc = "accepting" /\ pc' = "finished" /\ UNCHANGED open
            /\ Started' = Started /\ Release(stats)
        BY <1>1, <2>4, TaskStarted DEF FailUpgrade, ServeRuns, ticketVars
      <3>2. Owed' = Owed
        BY <3>1 DEF Owed
      <3>3. QED
        BY <1>2, <2>1, <3>1, <3>2, ReleaseBalance DEF BalanceInv
    <2>5. CASE ReadError
      <3> DEFINE s == IF pc = "websocket" THEN Count(stats, "tasks", -1)
                                          ELSE stats
      <3>1. /\ pc' = "finished" /\ UNCHANGED open
            /\ Started' = Started /\ Release(s)
        BY <1>1, <2>5, TaskStarted DEF ReadError, ticketVars
      <3>2. Owed' = Counts(n, 1, u)
        BY <1>3, <3>1 DEF Owed
      <3>3. s = IF ~Reports THEN Counts(0, 0, 0) ELSE Owed'
        <4>1. CASE ~Reports
          BY <1>2, <2>1, <4>1 DEF Count
        <4>2. CASE Reports /\ pc # "websocket"
          BY <1>2, <1>3, <2>1, <3>2, <4>2
        <4>3. CASE Reports /\ pc = "websocket"
          <5>1. stats = Counts(n + 1, 1, u) /\ n + 1 \in Int /\ n + 1 + (-1) = n
            BY <1>2, <1>3, <2>1, <4>3
          <5> HIDE DEF n, u
          <5>2. Count(stats, "tasks", -1) = Counts(n + 1 + (-1), 1, u)
            BY <1>3, <4>3, <5>1, CountCounts
          <5>3. QED
            BY <3>2, <4>3, <5>1, <5>2
        <4>4. QED
          BY <4>1, <4>2, <4>3
      <3> HIDE DEF s
      <3>4. QED
        BY <2>1, <3>1, <3>3, ReleaseBalance DEF BalanceInv
    <2>6. QED
      BY <1>4, <2>2, <2>3, <2>4, <2>5 DEF Serve
  <1>5. ASSUME NEW t \in Ticket, Task(t) PROVE BalanceInv'
    <2>1. CASE Poll(t)
      BY <1>1, <2>1, BalanceStutter, TaskStarted
      DEF Poll, vars, ticketVars, BalanceInv
    <2>2. CASE ~Poll(t)
      <3>1. ~closed
        BY <1>5, <2>2
        DEF Task, Start, Begin, BeginWrite, TakeTurn, EndWrite, FailWrite,
            Proceed, Finish, Return, ClosedInv, Referenced, Active
      <3>2. CASE Start(t)
        <4>1. /\ stats' = Count(stats, "tasks", 1) /\ UNCHANGED <<pc, open, closed>>
              /\ t \notin Started /\ Started' = Started \cup {t}
          BY <3>2, TaskStarted DEF Start
        <4>2. Cardinality(Started)' = n + 1
          BY <4>1, StartedFinite, FS_AddElement
        <4>3. CASE Reports
          <5> DEFINE w == IF pc = "websocket" THEN 1 ELSE 0
          <5>1. stats = Counts(n + w, 1, u) /\ n + w \in Int /\ w \in Int
            BY <1>2, <1>3, <3>1, <4>3
          <5> HIDE DEF n, w, u
          <5>2. stats' = Counts(n + w + 1, 1, u)
            BY <1>3, <4>1, <4>3, <5>1, CountCounts
          <5>3. Owed' = Counts(n + 1 + w, 1, u)
            BY <4>1, <4>2 DEF Owed, w, u
          <5>4. n + 1 + w = n + w + 1
            BY <1>3, <5>1
          <5>5. QED
            BY <3>1, <4>1, <4>3, <5>2, <5>3, <5>4, BalanceDef DEF BalanceInv
        <4>4. CASE ~Reports
          BY <1>2, <3>1, <4>1, <4>4, BalanceDef DEF BalanceInv, Count
        <4>5. QED
          BY <4>3, <4>4
      <3>3. CASE BeginWrite(t) \/ EndWrite(t) \/ FailWrite(t)
        BY <3>3, BalanceStutter, TaskStarted
        DEF BeginWrite, EndWrite, FailWrite, BalanceInv
      <3>4. CASE Finish(t)
        <4> DEFINE s == Count(stats, "tasks", -1)
                   w == IF pc = "websocket" THEN 1 ELSE 0
        <4>1. /\ Release(s) /\ UNCHANGED <<pc, open>>
              /\ t \in Started /\ Started' = Started \ {t}
          BY <3>4, TaskStarted DEF Finish
        <4>2. Cardinality(Started)' = n - 1
          BY <4>1, StartedFinite, FS_RemoveElement
        <4>3. Owed' = Counts(n - 1 + w, 1, u)
          BY <4>1, <4>2 DEF Owed
        <4>4. s = IF ~Reports THEN Counts(0, 0, 0) ELSE Owed'
          <5>1. CASE ~Reports
            BY <1>2, <3>1, <5>1 DEF Count
          <5>2. CASE Reports
            <6>1. stats = Counts(n + w, 1, u) /\ n + w \in Int /\ w \in Int
              BY <1>2, <1>3, <3>1, <5>2
            <6> HIDE DEF n, w, u
            <6>2. s = Counts(n + w + (-1), 1, u)
              BY <1>3, <5>2, <6>1, CountCounts
            <6>3. n + w + (-1) = n - 1 + w
              BY <1>3, <6>1
            <6>4. QED
              BY <4>3, <5>2, <6>2, <6>3
          <5>3. QED
            BY <5>1, <5>2
        <4> HIDE DEF s
        <4>5. QED
          BY <3>1, <4>1, <4>4, ReleaseBalance DEF BalanceInv
      <3>5. QED
        BY <1>5, <2>2, <3>2, <3>3, <3>4 DEF Task
    <2>3. QED
      BY <2>1, <2>2
  <1>6. CASE PeerLeaves \/ UNCHANGED vars
    BY <1>1, <1>6, BalanceStutter, TaskStarted
    DEF PeerLeaves, vars, ticketVars, BalanceInv
  <1>7. QED
    BY <1>4, <1>5, <1>6 DEF Next, Terminated

\* The counters a connection moves are those of its tasks and its upgrade while
\* it exists, and all are given back when it is destroyed.
THEOREM Balance == Spec => []StatsBalance
  <1>1. Init => BalanceInv /\ ClosedInv
    <2> SUFFICES ASSUME Init PROVE BalanceInv
      BY DEF Init, ClosedInv
    <2>1. Started = {}
      BY WritePhasesAssumption DEF Init, TicketInit, Started
    <2>2. /\ ~open /\ ~closed /\ pc = "reading"
          /\ stats = Count(Counts(0, 0, 0), "connections", 1)
      BY DEF Init, Counts
    <2>3. Count(Counts(0, 0, 0), "connections", 1)
            = IF Reports THEN Counts(0, 0 + 1, 0) ELSE Counts(0, 0, 0)
      BY CountCounts
    <2>4. Owed = Counts(0, 1, 0)
      BY <2>1, <2>2, FS_EmptySet DEF Owed
    <2>5. QED
      BY <2>2, <2>3, <2>4, BalanceDef DEF BalanceInv
  <1>2. BalanceInv => StatsBalance
    BY DEF BalanceInv
  <1>3. QED
    BY <1>1, <1>2, NextBalanceInv, NextClosedInv, TypeInvCorrect, PTL DEF Spec

-----------------------------------------------------------------------------

\* The refinement mapping: what waits for an answer, what has been sent.
Waiting == [i \in 1 .. ticket - Answered |-> job[Answered + i - 1]]

Sent == [i \in DOMAIN wire |-> wire[i].kind]

Lost == peer = "broken"

AnsweredBounds ==
  /\ serving \in Nat /\ ticket \in Nat /\ Answered \in Nat
  /\ serving <= Answered /\ Answered <= ticket
  /\ \A t \in Ticket : task[t] = "written" => t = serving
  /\ Answered = IF \E t \in Ticket : task[t] = "written"
                THEN serving + 1 ELSE serving

\* Only the served ticket's coroutine can be past its write and not yet done, so
\* the work that waits begins with the served ticket or the next one.
LEMMA AnsweredFacts == TypeInv => AnsweredBounds
  <1> SUFFICES ASSUME TypeInv PROVE AnsweredBounds
    OBVIOUS
  <1>1. /\ serving \in Nat /\ ticket \in Nat /\ serving <= ticket
        /\ MaxTickets \in Nat
    BY MaxTicketsAssumption DEF TypeInv, TicketInv, Window
  <1>2. ASSUME NEW t \in Ticket, task[t] = "written"
        PROVE  t = serving /\ t < ticket
    BY <1>1, <1>2, WritePhasesAssumption
    DEF TypeInv, TicketInv, Window, HolderIsServed, Holding, Ticket
  <1>3. CASE \E t \in Ticket : task[t] = "written"
    BY <1>1, <1>2, <1>3 DEF Answered, AnsweredBounds
  <1>4. CASE ~\E t \in Ticket : task[t] = "written"
    BY <1>1, <1>4 DEF Answered, AnsweredBounds
  <1>5. QED
    BY <1>3, <1>4

WaitingTyped ==
  /\ Waiting \in Seq(Jobs)
  /\ Len(Waiting) = ticket - Answered
  /\ \A i \in 1 .. ticket - Answered :
       /\ Answered + i - 1 \in Ticket
       /\ Waiting[i] = job[Answered + i - 1]

\* The work that waits is a sequence of jobs.
LEMMA WaitingType == TypeInv => WaitingTyped
  <1> SUFFICES ASSUME TypeInv PROVE WaitingTyped
    OBVIOUS
  <1>1. /\ ticket \in Nat /\ Answered \in Nat /\ Answered <= ticket
        /\ MaxTickets \in Nat /\ ticket <= MaxTickets
        /\ serving <= Answered
    BY AnsweredFacts, MaxTicketsAssumption DEF AnsweredBounds, TypeInv, TypeOK
  <1>2. ASSUME NEW i \in 1 .. ticket - Answered
        PROVE  /\ Answered + i - 1 \in Ticket
               /\ job[Answered + i - 1] \in Jobs
    <2>1. Answered + i - 1 \in Ticket /\ Answered + i - 1 < ticket
      BY <1>1 DEF Ticket
    <2>2. task[Answered + i - 1] # "free"
      BY <1>1, <2>1, MaxTicketsAssumption DEF TypeInv, TicketInv, Window, Ticket
    <2>3. QED
      BY <2>1, <2>2 DEF TypeInv, JobsKnown
  <1>3. QED
    BY <1>1, <1>2 DEF Waiting, WaitingTyped

\* A step that neither takes a ticket nor answers one.
LEMMA WaitingStutter ==
  ASSUME UNCHANGED <<ticket, job>>, Answered' = Answered
  PROVE  Waiting' = Waiting
  BY DEF Waiting

\* A step that leaves the same coroutines past their write.
LEMMA AnsweredStutter ==
  ASSUME TypeInv, serving' = serving,
         \A t \in Ticket : task'[t] = "written" <=> task[t] = "written"
  PROVE  Answered' = Answered
  BY DEF Answered

\* async() accepts work.
LEMMA WaitingAccept ==
  ASSUME TypeInv, TypeInv', NEW k \in Jobs, Async(k)
  PROVE  Waiting' = Append(Waiting, k)
  <1>1. /\ ticket \in Ticket /\ ticket' = ticket + 1 /\ ticket \in Nat
        /\ \A t \in Ticket : job'[t] = IF t = ticket THEN k ELSE job[t]
        /\ \A t \in Ticket : task'[t] = IF t = ticket THEN "spawned" ELSE task[t]
        /\ serving' = serving
        /\ task[ticket] = "free"
    BY MaxTicketsAssumption
    DEF Async, Issue, TypeInv, TypeOK, TicketInv, Window, Ticket
  <1>2. Answered' = Answered
    BY <1>1, AnsweredStutter
  <1>3. /\ Waiting \in Seq(Jobs) /\ Len(Waiting) = ticket - Answered
        /\ Answered \in Nat /\ Answered <= ticket
    BY WaitingType, AnsweredFacts DEF WaitingTyped, AnsweredBounds
  <1>4. Waiting' \in Seq(Jobs) /\ Len(Waiting') = ticket + 1 - Answered
    <2>1. WaitingTyped'
      BY WaitingType, PTL
    <2>2. Waiting' \in Seq(Jobs) /\ Len(Waiting') = ticket' - Answered'
      BY <2>1 DEF WaitingTyped
    <2>3. QED
      BY <1>1, <1>2, <1>3, <2>2
  <1>5. ASSUME NEW i \in 1 .. Len(Waiting) + 1
        PROVE  Waiting'[i] = Append(Waiting, k)[i]
    <2>1. Waiting'[i] = job'[Answered + i - 1]
      BY <1>1, <1>2, <1>3 DEF Waiting
    <2>2. CASE i = Len(Waiting) + 1
      BY <1>1, <1>3, <2>1, <2>2
    <2>3. CASE i \in 1 .. Len(Waiting)
      <3>1. Waiting[i] = job[Answered + i - 1] /\ Answered + i - 1 \in Ticket
        BY <1>3, <2>3, WaitingType DEF WaitingTyped
      <3>2. Answered + i - 1 # ticket
        BY <1>1, <1>3, <2>3
      <3>3. QED
        BY <1>1, <1>3, <2>1, <2>3, <3>1, <3>2
    <2>4. QED
      BY <1>3, <2>2, <2>3
  <1>6. Append(Waiting, k) \in Seq(Jobs)
        /\ Len(Append(Waiting, k)) = Len(Waiting) + 1
    BY <1>3
  <1>7. QED
    BY <1>1, <1>3, <1>4, <1>5, <1>6, SeqEqual

\* A coroutine that goes past its write answers the work that waited longest.
LEMMA WaitingAnswer ==
  ASSUME TypeInv, TypeInv', UNCHANGED <<ticket, job>>,
         Answered' = Answered + 1
  PROVE  /\ Waiting # <<>>
         /\ Head(Waiting) = job[Answered]
         /\ Waiting' = Tail(Waiting)
  <1>1. /\ Waiting \in Seq(Jobs) /\ Len(Waiting) = ticket - Answered
        /\ Answered \in Nat /\ ticket \in Nat
        /\ \A i \in 1 .. ticket - Answered : Waiting[i] = job[Answered + i - 1]
    BY WaitingType, AnsweredFacts DEF WaitingTyped, AnsweredBounds
  <1>2. /\ Waiting' \in Seq(Jobs) /\ Len(Waiting') = ticket' - Answered'
        /\ Answered' <= ticket'
        /\ \A i \in 1 .. ticket' - Answered' :
             Waiting'[i] = job'[Answered' + i - 1]
    <2>1. WaitingTyped' /\ AnsweredBounds'
      BY WaitingType, AnsweredFacts, PTL
    <2>2. QED
      BY <2>1 DEF WaitingTyped, AnsweredBounds
  <1>3. Len(Waiting) > 0 /\ Len(Waiting') = Len(Waiting) - 1
    BY <1>1, <1>2
  <1>4. Head(Waiting) = job[Answered]
    <2>1. Waiting[1] = job[Answered + 1 - 1] /\ Answered + 1 - 1 = Answered
      BY <1>1, <1>3
    <2>2. QED
      BY <1>1, <1>3, <2>1
  <1>5. /\ Tail(Waiting) \in Seq(Jobs) /\ Len(Tail(Waiting)) = Len(Waiting) - 1
        /\ \A i \in 1 .. Len(Waiting) - 1 : Tail(Waiting)[i] = Waiting[i + 1]
    BY <1>1, <1>3
  <1>6. ASSUME NEW i \in 1 .. Len(Waiting) - 1
        PROVE  Waiting'[i] = Tail(Waiting)[i]
    <2>1. Waiting'[i] = job'[Answered' + i - 1]
      BY <1>1, <1>2, <1>3
    <2>2. Waiting[i + 1] = job[Answered + (i + 1) - 1]
      BY <1>1
    <2>3. QED
      BY <1>1, <1>5, <2>1, <2>2
  <1>7. QED
    BY <1>1, <1>2, <1>3, <1>4, <1>5, <1>6, SeqEqual

\* Writing a record sends its kind.
LEMMA SentAppend ==
  ASSUME TypeOK, NEW k \in Jobs \cup {"101", "declined"}, NEW n \in Nat,
         wire' = Append(wire, [kind |-> k, ticket |-> n])
  PROVE  Sent' = Append(Sent, k)
  <1>1. /\ DOMAIN wire = 1 .. Len(wire) /\ Len(wire) \in Nat
        /\ DOMAIN wire' = 1 .. Len(wire) + 1
        /\ \A i \in DOMAIN wire : wire'[i] = wire[i]
        /\ wire'[Len(wire) + 1].kind = k
    BY AppendToWire
  <1> DEFINE Kinds == Jobs \cup {"101", "declined"}
  <1>2. Sent \in Seq(Kinds) /\ Len(Sent) = Len(wire)
        /\ \A i \in 1 .. Len(wire) : Sent[i] = wire[i].kind
    BY <1>1, WireElement DEF Sent
  <1>3. \A i \in 1 .. Len(wire) + 1 : wire'[i].kind \in Kinds
    BY <1>1, WireElement
  <1>4. Sent' \in Seq(Kinds) /\ Len(Sent') = Len(wire) + 1
        /\ \A i \in 1 .. Len(wire) + 1 : Sent'[i] = wire'[i].kind
    BY <1>1, <1>3 DEF Sent
  <1>5. Append(Sent, k) \in Seq(Kinds) /\ Len(Append(Sent, k)) = Len(wire) + 1
        /\ \A i \in 1 .. Len(wire) + 1 :
             Append(Sent, k)[i] = IF i = Len(wire) + 1 THEN k ELSE Sent[i]
    BY <1>1, <1>2
  <1>6. \A i \in 1 .. Len(wire) + 1 : Sent'[i] = Append(Sent, k)[i]
    BY <1>1, <1>2, <1>4, <1>5
  <1>7. QED
    BY <1>4, <1>5, <1>6, SeqEqual

\* The steps of the abstract queue in the terms of the mapping.
LEMMA QueueSteps ==
  /\ \A k \in Jobs : Waiting' = Append(Waiting, k) /\ Sent' = Sent /\ Lost' = Lost
       => Queue!Next
  /\ /\ Waiting # <<>> /\ Waiting' = Tail(Waiting)
     /\ \/ /\ ~Lost /\ Head(Waiting) # "text"
           /\ Sent' = Append(Sent, Head(Waiting)) /\ Lost' = Lost
        \/ Head(Waiting) = "text" /\ Sent' = Sent /\ Lost' = Lost
        \/ Head(Waiting) # "text" /\ Sent' = Sent /\ Lost' = TRUE
     => Queue!Next
  /\ \A h \in {"101", "declined"} :
       ~Lost /\ Sent' = Append(Sent, h) /\ Waiting' = Waiting /\ Lost' = Lost
         => Queue!Next
  /\ Waiting' = Waiting /\ Sent' = Sent /\ Lost' = TRUE => Queue!Next
  /\ Waiting' = Waiting /\ Sent' = Sent /\ Lost' = Lost => UNCHANGED Queue!vars
  BY DEF Waiting, Sent, Lost, Queue!Next, Queue!Accept, Queue!Answer,
         Queue!Deliver, Queue!Skip, Queue!Lose, Queue!Handshake,
         Queue!LoseHandshake, Queue!vars

\* A coroutine that waits, writes or is done leaves Answered alone; one that
\* gets past its write moves it by one.
LEMMA TaskAnswered ==
  ASSUME TypeInv, TypeInv', NEW t \in Ticket, NEW from, NEW to,
         task[t] = from, task' = [task EXCEPT ![t] = to]
  PROVE  /\ from # "written" /\ to # "written" /\ serving' = serving
              => Answered' = Answered
         /\ from # "written" /\ to = "written" /\ serving' = serving
              => t = serving /\ Answered = t /\ Answered' = Answered + 1
         /\ from = "written" /\ to # "written" /\ serving' = serving + 1
              => Answered' = Answered
  <1>1. AnsweredBounds /\ AnsweredBounds'
    BY AnsweredFacts, PTL
  <1>2. \A u \in Ticket : task'[u] = IF u = t THEN to ELSE task[u]
    BY DEF TypeInv, TypeOK
  <1>3. ASSUME from # "written", to # "written", serving' = serving
        PROVE  Answered' = Answered
    BY <1>2, <1>3, AnsweredStutter
  <1>4. ASSUME from # "written", to = "written", serving' = serving
        PROVE  t = serving /\ Answered = t /\ Answered' = Answered + 1
    <2>1. task'[t] = "written"
      BY <1>2, <1>4
    <2>2. t = serving
      BY <1>1, <1>4, <2>1 DEF AnsweredBounds
    <2>3. ~\E u \in Ticket : task[u] = "written"
      BY <1>1, <1>4, <2>2 DEF AnsweredBounds
    <2>4. Answered = serving /\ Answered' = serving' + 1
      BY <1>1, <2>1, <2>3 DEF AnsweredBounds
    <2>5. QED
      BY <1>4, <2>2, <2>4
  <1>5. ASSUME from = "written", to # "written", serving' = serving + 1
        PROVE  Answered' = Answered
    <2>1. t = serving /\ Answered = serving + 1
      BY <1>1, <1>5 DEF AnsweredBounds
    <2>2. ~\E u \in Ticket : task'[u] = "written"
      BY <1>1, <1>2, <1>5, <2>1 DEF AnsweredBounds
    <2>3. Answered' = serving'
      BY <1>1, <2>2 DEF AnsweredBounds
    <2>4. QED
      BY <1>5, <2>1, <2>3
  <1>6. QED
    BY <1>3, <1>4, <1>5

\* Every step of a connection is one of the queue, or none.
LEMMA NextQueue ==
  TypeInv /\ TypeInv' /\ AnswerInv /\ [Next]_vars => [Queue!Next]_(Queue!vars)
  <1> SUFFICES ASSUME TypeInv, TypeInv', AnswerInv, [Next]_vars
               PROVE  Queue!Next \/ UNCHANGED Queue!vars
    OBVIOUS
  <1>1. UNCHANGED wire => Sent' = Sent
    BY DEF Sent
  <1>2. UNCHANGED peer => Lost' = Lost
    BY DEF Lost
  <1>3. TypeOK /\ ticket \in Nat
    BY DEF TypeInv, TypeOK
  <1>4. UNCHANGED <<ticketVars, job>> => Waiting' = Waiting
    BY AnsweredStutter, WaitingStutter DEF ticketVars
  <1>5. ASSUME NEW k \in Jobs, Async(k), UNCHANGED <<wire, peer>>
        PROVE  Queue!Next
    BY <1>1, <1>2, <1>5, WaitingAccept, QueueSteps
  <1>6. CASE Serve
    <2>1. CASE ReadRequest \/ ReadMessage
      BY <1>5, <2>1, KindFacts DEF ReadRequest, ReadMessage
    <2>2. CASE ReadUpgrade
      BY <1>1, <1>2, <1>4, <1>5, <2>2, KindFacts, QueueSteps DEF ReadUpgrade
    <2>3. CASE AcceptUpgrade
      <3>1. ~Lost /\ Sent' = Append(Sent, "101")
        BY <1>3, <2>3, SentAppend DEF AcceptUpgrade, Put, Lost
      <3>2. QED
        BY <1>2, <1>4, <2>3, <3>1, QueueSteps DEF AcceptUpgrade
    <2>4. CASE FailUpgrade
      <3>1. Waiting' = Waiting
        BY <1>4, <2>4 DEF FailUpgrade
      <3>2. CASE peer # "broken" /\ Put("declined") /\ UNCHANGED peer
        <4>1. ~Lost /\ Sent' = Append(Sent, "declined")
          BY <1>3, <3>2, SentAppend DEF Put, Lost
        <4>2. QED
          BY <1>2, <3>1, <3>2, <4>1, QueueSteps
      <3>3. CASE peer # "up" /\ peer' = "broken" /\ UNCHANGED wire
        BY <1>1, <3>1, <3>3, QueueSteps DEF Lost
      <3>4. QED
        BY <2>4, <3>2, <3>3 DEF FailUpgrade
    <2>5. CASE ReadError
      BY <1>1, <1>2, <1>4, <2>5, QueueSteps DEF ReadError
    <2>6. QED
      BY <1>6, <2>1, <2>2, <2>3, <2>4, <2>5 DEF Serve
  <1>7. ASSUME NEW t \in Ticket, Task(t)
        PROVE  Queue!Next \/ UNCHANGED Queue!vars
    <2>1. CASE Poll(t)
      BY <1>1, <1>2, <1>4, <2>1, QueueSteps DEF Poll, vars
    <2>2. CASE Start(t) \/ Finish(t)
      <3>1. Answered' = Answered
        BY <2>2, TaskAnswered DEF Start, Begin, Finish, Return
      <3>2. Waiting' = Waiting
        BY <2>2, <3>1, WaitingStutter DEF Start, Begin, Finish, Return
      <3>3. QED
        BY <1>1, <1>2, <2>2, <3>2, QueueSteps DEF Start, Finish
    <2>3. CASE BeginWrite(t)
      <3>1. /\ UNCHANGED <<ticket, job, serving, wire, peer>>
            /\ task[t] = "waiting"
            /\ task' = [task EXCEPT ![t] = IF job[t] = "text" THEN "written"
                                                              ELSE "writing"]
        BY <2>3 DEF BeginWrite, TakeTurn, Writes
      <3>2. CASE job[t] = "text"
        <4>1. Answered = t /\ Answered' = Answered + 1
          BY <3>1, <3>2, TaskAnswered
        <4>2. /\ Waiting # <<>> /\ Waiting' = Tail(Waiting)
              /\ Head(Waiting) = "text"
          BY <3>1, <3>2, <4>1, WaitingAnswer
        <4>3. QED
          BY <1>1, <1>2, <3>1, <4>2, QueueSteps
      <3>3. CASE job[t] # "text"
        <4>1. task' = [task EXCEPT ![t] = "writing"]
          BY <3>1, <3>3
        <4>2. Answered' = Answered
          BY <3>1, <4>1, TaskAnswered
        <4>3. QED
          BY <1>1, <1>2, <3>1, <4>2, WaitingStutter, QueueSteps
      <3>4. QED
        BY <3>2, <3>3
    <2>4. CASE EndWrite(t) \/ FailWrite(t)
      <3>1. /\ UNCHANGED <<ticket, job, serving>>
            /\ task[t] = "writing" /\ task' = [task EXCEPT ![t] = "written"]
        BY <2>4 DEF EndWrite, FailWrite, Proceed
      <3>2. Answered = t /\ Answered' = Answered + 1
        BY <3>1, TaskAnswered
      <3>3. /\ Waiting # <<>> /\ Waiting' = Tail(Waiting)
            /\ Head(Waiting) = job[t] /\ job[t] # "text"
        BY <3>1, <3>2, WaitingAnswer DEF AnswerInv, Writes
      <3>4. CASE EndWrite(t)
        <4>1. job[t] \in Jobs /\ t \in Nat
          BY <3>1, MaxTicketsAssumption
          DEF TypeInv, TypeOK, JobsKnown, Ticket
        <4>2. ~Lost /\ Sent' = Append(Sent, Head(Waiting)) /\ Lost' = Lost
          BY <1>2, <1>3, <3>3, <3>4, <4>1, SentAppend DEF EndWrite, Lost
        <4>3. QED
          BY <3>3, <4>2, QueueSteps
      <3>5. CASE FailWrite(t)
        BY <1>1, <3>3, <3>5, QueueSteps DEF FailWrite, Lost
      <3>6. QED
        BY <2>4, <3>4, <3>5
    <2>5. QED
      BY <1>7, <2>1, <2>2, <2>3, <2>4 DEF Task
  <1>8. CASE PeerLeaves
    BY <1>1, <1>4, <1>8, QueueSteps DEF PeerLeaves, Lost
  <1>9. CASE UNCHANGED vars
    BY <1>1, <1>2, <1>4, <1>9, QueueSteps DEF vars
  <1>10. QED
    BY <1>6, <1>7, <1>8, <1>9 DEF Next, Terminated

\* The connection implements the queue that answers all work in the order of the
\* async() calls, as far as safety goes: every behaviour of it is one of the
\* queue's.  That the work is answered at all is for the runs to show.
THEOREM QueueSimulated == Spec => Queue!Init /\ [][Queue!Next]_(Queue!vars)
  <1>1. Init => Queue!Init
    <2> SUFFICES ASSUME Init PROVE Queue!Init
      OBVIOUS
    <2>1. Answered = 0 /\ ticket = 0 /\ wire = <<>> /\ peer = "up"
      BY DEF Init, TicketInit, Answered
    <2>2. QED
      BY <2>1 DEF Queue!Init
  <1>2. Init => WireInv /\ ResponsesInOrder /\ AnswerInv
    BY DEF Init, TicketInit, WireInv, ResponsesInOrder, AnswerInv, NoAnswerLost
  <1>3. QED
    BY <1>1, <1>2, NextWireInv, NextAnswerInv, NextQueue, TypeInvCorrect, PTL
    DEF Spec
====
