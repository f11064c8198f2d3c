------------------------------- MODULE Tickets -------------------------------
(***************************************************************************)
(* The ticket queue that orders the coroutines of one connection: the      *)
(* counters connection::ticket and connection::serving and the             *)
(* ticket_sentinel.  A coroutine is spawned with the ticket `ticket++',    *)
(* polls `while (!sentinel)' until serving reaches its ticket, has the     *)
(* socket to itself from then on, and gives the turn to the next ticket    *)
(* when its sentinel is destroyed (`++serving').                           *)
(*                                                                         *)
(* A ticket is free until it is issued; then its coroutine is spawned,     *)
(* waits for its turn, holds it in some phase of its own ("writing", ...), *)
(* and is done.  The modules Connection and ClientConnection build their   *)
(* actions from the ones below; HeldPhases are the phases they add.        *)
(***************************************************************************)
EXTENDS Naturals

CONSTANTS
  MaxTickets,           \* bound: how many tickets a connection ever issues
  HeldPhases            \* the phases of a coroutine within its turn

\* The phases outside the turn.
OutOfTurn == {"free", "spawned", "waiting", "done"}

Phases == OutOfTurn \cup HeldPhases

ASSUME MaxTicketsAssumption == MaxTickets \in Nat \ {0}
ASSUME HeldPhasesAssumption == HeldPhases \cap OutOfTurn = {}

VARIABLES
  ticket,               \* the next ticket to issue
  serving,              \* the ticket whose turn it is
  task                  \* the phase of each ticket's coroutine

ticketVars == <<ticket, serving, task>>

Ticket == 0 .. MaxTickets - 1

\* The coroutine of t has seen its turn come and has not given it up.
Holding(t) == task[t] \in HeldPhases

\* The coroutine of t exists: it was spawned and has not returned.
Active(t) == task[t] \notin {"free", "done"}

\* Mutant: a ticket is reserved, as connect() does, and never served.
TicketInitReserved ==
  /\ ticket = 1
  /\ serving = 0
  /\ task = [t \in Ticket |-> "free"]

TicketInit ==
  /\ ticket = 0
  /\ serving = 0
  /\ task = [t \in Ticket |-> "free"]

-----------------------------------------------------------------------------

\* spawn(..., [tkt = ticket++] ...): the ticket is taken by the thread that
\* spawns, before the coroutine runs.
Issue ==
  /\ ticket < MaxTickets
  /\ ticket' = ticket + 1
  /\ task' = [task EXCEPT ![ticket] = "spawned"]
  /\ UNCHANGED serving

\* The coroutine runs for the first time and reaches `while (!sentinel)'.
Begin(t) ==
  /\ task[t] = "spawned"
  /\ task' = [task EXCEPT ![t] = "waiting"]
  /\ UNCHANGED <<ticket, serving>>

\* Mutant: no poll.
TakeTurnAnytime(t, held) ==
  /\ task[t] = "waiting"
  /\ task' = [task EXCEPT ![t] = held]
  /\ UNCHANGED <<ticket, serving>>

\* Mutant: the poll ends while serving has not passed tkt.
TakeTurnEarly(t, held) ==
  /\ task[t] = "waiting"
  /\ t >= serving
  /\ task' = [task EXCEPT ![t] = held]
  /\ UNCHANGED <<ticket, serving>>

\* The poll finds tkt = serving; the coroutine goes on in phase `held'.
TakeTurn(t, held) ==
  /\ task[t] = "waiting"
  /\ t = serving
  /\ task' = [task EXCEPT ![t] = held]
  /\ UNCHANGED <<ticket, serving>>

\* The coroutine moves on within its turn.
Proceed(t, from, to) ==
  /\ task[t] = from
  /\ task' = [task EXCEPT ![t] = to]
  /\ UNCHANGED <<ticket, serving>>

\* Mutant: the coroutine calls next itself and the sentinel does again.
ReturnTwice(t, held) ==
  /\ task[t] = held
  /\ task' = [task EXCEPT ![t] = "done"]
  /\ serving' = serving + 2
  /\ UNCHANGED ticket

\* The coroutine returns from phase `held': ~ticket_sentinel is `++serving',
\* whatever serving is.
Return(t, held) ==
  /\ task[t] = held
  /\ task' = [task EXCEPT ![t] = "done"]
  /\ serving' = serving + 1
  /\ UNCHANGED ticket

-----------------------------------------------------------------------------

\* The two counters delimit the coroutines that exist: tickets below serving
\* are done, tickets from serving up to ticket have a coroutine, the others
\* are free.
Window ==
  /\ task \in [Ticket -> Phases]
  /\ serving \in 0 .. ticket
  /\ ticket \in 0 .. MaxTickets
  /\ \A t \in Ticket : /\ task[t] = "done" <=> t < serving
                       /\ task[t] = "free" <=> t >= ticket

\* Only the ticket being served holds the turn.
HolderIsServed == \A t \in Ticket : Holding(t) => t = serving

TicketInv == Window /\ HolderIsServed
=============================================================================
