---------------------------- MODULE TicketsProofs ----------------------------
(***************************************************************************)
(* TicketInv is preserved by each action of Tickets, for every number of   *)
(* tickets and every set of phases within the turn.  The proofs about the  *)
(* connection cite these lemmas.                                           *)
(***************************************************************************)
EXTENDS Tickets, TLAPS

\* The phases outside and within the turn are distinct.
LEMMA PhaseFacts ==
  /\ {"free", "spawned", "waiting", "done"} \subseteq Phases
  /\ HeldPhases \subseteq Phases
  /\ \A p \in HeldPhases : p \notin {"free", "spawned", "waiting", "done"}
  BY HeldPhasesAssumption DEF Phases, OutOfTurn

\* No ticket is issued, served or free at the start.
LEMMA TicketInitInv == TicketInit => TicketInv
  <1> SUFFICES ASSUME TicketInit PROVE TicketInv
    OBVIOUS
  <1>1. \A t \in Ticket : t >= 0 /\ ~(t < 0)
    BY MaxTicketsAssumption DEF Ticket
  <1>2. \A t \in Ticket : task[t] = "free"
    BY DEF TicketInit
  <1>3. Window
    BY <1>1, <1>2, PhaseFacts, MaxTicketsAssumption DEF TicketInit, Window
  <1>4. HolderIsServed
    BY <1>2, PhaseFacts DEF HolderIsServed, Holding
  <1>5. QED
    BY <1>3, <1>4 DEF TicketInv

\* A ticket is taken by whichever thread spawns.
LEMMA IssueInv == TicketInv /\ Issue => TicketInv'
  <1> SUFFICES ASSUME TicketInv, Issue PROVE TicketInv'
    OBVIOUS
  <1>1. /\ ticket \in Nat /\ serving \in Nat /\ MaxTickets \in Nat
        /\ serving <= ticket /\ ticket < MaxTickets
        /\ ticket' = ticket + 1 /\ serving' = serving
    BY MaxTicketsAssumption DEF Issue, TicketInv, Window
  <1>2. /\ ticket \in Ticket
        /\ task \in [Ticket -> Phases]
        /\ task' = [task EXCEPT ![ticket] = "spawned"]
    BY <1>1 DEF Issue, TicketInv, Window, Ticket
  <1>3. /\ ticket' \in 0 .. MaxTickets
        /\ serving' \in 0 .. ticket'
        /\ task' \in [Ticket -> Phases]
    BY <1>1, <1>2, PhaseFacts
  <1>4. ASSUME NEW t \in Ticket
        PROVE  /\ task'[t] = "done" <=> t < serving'
               /\ task'[t] = "free" <=> t >= ticket'
               /\ Holding(t)' => t = serving'
    <2>1. t \in Nat
      BY <1>1 DEF Ticket
    <2>2. /\ task[t] = "done" <=> t < serving
          /\ task[t] = "free" <=> t >= ticket
          /\ Holding(t) => t = serving
      BY DEF TicketInv, Window, HolderIsServed
    <2>3. CASE t = ticket
      <3>1. task'[t] = "spawned"
        BY <1>2, <2>3
      <3>2. QED
        BY <1>1, <2>1, <2>3, <3>1, PhaseFacts DEF Holding
    <2>4. CASE t # ticket
      <3>1. task'[t] = task[t]
        BY <1>2, <2>4
      <3>2. QED
        BY <1>1, <2>1, <2>2, <2>4, <3>1 DEF Holding
    <2>5. QED
      BY <2>3, <2>4
  <1>5. QED
    BY <1>3, <1>4 DEF TicketInv, Window, HolderIsServed

\* A coroutine that exists moves to another phase without moving the counters;
\* it may enter its turn only when it has come.
LEMMA MoveInv ==
  ASSUME TicketInv,
         NEW t \in Ticket, Active(t),
         NEW to \in Phases \ {"free", "done"},
         task' = [task EXCEPT ![t] = to],
         UNCHANGED <<ticket, serving>>,
         to \in HeldPhases => t = serving
  PROVE  TicketInv'
  <1>1. /\ task \in [Ticket -> Phases]
        /\ task' \in [Ticket -> Phases]
        /\ ticket' = ticket /\ serving' = serving
        /\ ticket \in 0 .. MaxTickets /\ serving \in 0 .. ticket
    BY DEF TicketInv, Window
  <1>2. ASSUME NEW u \in Ticket
        PROVE  /\ task'[u] = "done" <=> u < serving
               /\ task'[u] = "free" <=> u >= ticket
               /\ Holding(u)' => u = serving
    <2>1. /\ task[u] = "done" <=> u < serving
          /\ task[u] = "free" <=> u >= ticket
          /\ Holding(u) => u = serving
      BY DEF TicketInv, Window, HolderIsServed
    <2>2. CASE u = t
      <3>1. task'[u] = to
        BY <1>1, <2>2
      <3>2. task[u] # "done" /\ task[u] # "free" /\ to # "done" /\ to # "free"
        BY <2>2 DEF Active
      <3>3. QED
        BY <2>1, <2>2, <3>1, <3>2 DEF Holding
    <2>3. CASE u # t
      <3>1. task'[u] = task[u]
        BY <1>1, <2>3
      <3>2. QED
        BY <2>1, <3>1 DEF Holding
    <2>4. QED
      BY <2>2, <2>3
  <1>3. QED
    BY <1>1, <1>2 DEF TicketInv, Window, HolderIsServed

\* A coroutine starts in any order.
LEMMA BeginInv ==
  ASSUME TicketInv, NEW t \in Ticket, Begin(t)
  PROVE  TicketInv'
  BY MoveInv, PhaseFacts DEF Begin, Active

\* The turn is taken when it has come.
LEMMA TakeTurnInv ==
  ASSUME TicketInv, NEW t \in Ticket, NEW held \in HeldPhases,
         TakeTurn(t, held)
  PROVE  TicketInv'
  BY MoveInv, PhaseFacts DEF TakeTurn, Active

\* Moves within the turn.
LEMMA ProceedInv ==
  ASSUME TicketInv, NEW t \in Ticket, NEW from \in HeldPhases,
         NEW to \in HeldPhases, Proceed(t, from, to)
  PROVE  TicketInv'
  <1>1. Holding(t) /\ t = serving
    BY DEF Proceed, Holding, TicketInv, HolderIsServed
  <1>2. QED
    BY <1>1, MoveInv, PhaseFacts DEF Proceed, Active

\* The sentinel passes the turn on: from t = serving to the next ticket, which
\* is issued or still to be issued.
LEMMA ReturnInv ==
  ASSUME TicketInv, NEW t \in Ticket, NEW held \in HeldPhases,
         Return(t, held)
  PROVE  TicketInv'
  <1>1. Holding(t) /\ t = serving /\ task[t] # "free" /\ serving' = serving + 1
    BY PhaseFacts DEF Return, Holding, TicketInv, HolderIsServed
  <1>2. /\ ticket \in Nat /\ serving \in Nat /\ MaxTickets \in Nat
        /\ ticket <= MaxTickets /\ ticket' = ticket
    BY MaxTicketsAssumption DEF Return, TicketInv, Window
  <1>3. serving < ticket
    BY <1>1, <1>2 DEF TicketInv, Window
  <1>4. /\ task \in [Ticket -> Phases]
        /\ task' \in [Ticket -> Phases]
        /\ task' = [task EXCEPT ![t] = "done"]
    BY PhaseFacts DEF Return, TicketInv, Window
  <1>5. ASSUME NEW u \in Ticket
        PROVE  /\ task'[u] = "done" <=> u < serving'
               /\ task'[u] = "free" <=> u >= ticket'
               /\ Holding(u)' => u = serving'
    <2>1. u \in Nat
      BY <1>2 DEF Ticket
    <2>2. /\ task[u] = "done" <=> u < serving
          /\ task[u] = "free" <=> u >= ticket
          /\ Holding(u) => u = serving
      BY DEF TicketInv, Window, HolderIsServed
    <2>3. CASE u = t
      <3>1. task'[u] = "done"
        BY <1>4, <2>3
      <3>2. QED
        BY <1>1, <1>2, <1>3, <2>1, <2>3, <3>1, PhaseFacts DEF Holding
    <2>4. CASE u # t
      <3>1. task'[u] = task[u]
        BY <1>4, <2>4
      <3>2. QED
        BY <1>1, <1>2, <1>3, <2>1, <2>2, <2>4, <3>1 DEF Holding
    <2>5. QED
      BY <2>3, <2>4
  <1>6. QED
    BY <1>1, <1>2, <1>3, <1>4, <1>5 DEF TicketInv, Window, HolderIsServed

\* The invariant speaks of the queue's variables only.
LEMMA TicketStutterInv == TicketInv /\ UNCHANGED ticketVars => TicketInv'
  BY DEF ticketVars, TicketInv, Window, HolderIsServed, Holding
=============================================================================
