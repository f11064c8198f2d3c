--------------------------- MODULE PushConnection ---------------------------
(***************************************************************************)
(* A connection whose websocket handler pushes: ws_only_handler stores the *)
(* pusher it is given and detaches a thread that, every half second,       *)
(* copies the stored pusher and sends a message with the copy, until it    *)
(* finds the stored pusher empty.  The stored pusher holds a shared_ptr to *)
(* the connection that stores it, and so does the thread's copy; a failed  *)
(* websocket write is all that ever empties it.                            *)
(*                                                                         *)
(* The thread is not one of the io_service's, so what it pushes is posted. *)
(* It reads the stored pusher without synchronisation.  The outcomes of    *)
(* that race, and of a call through a copy that held the last reference,   *)
(* are the thread state "corrupt": memory that was freed is used.          *)
(***************************************************************************)
EXTENDS Connection

ASSUME PushAssumption == PushesText

\* "absent", "copying", "cloning", "calling", "ended" or "corrupt".
VARIABLE thread         \* the pusher thread

pushVars == <<vars, thread>>

PushInit == Init /\ thread = "absent"

\* The handler is given the pusher: it starts the thread.
AcceptAndStart ==
  /\ AcceptUpgrade
  /\ thread' = "copying"

\* pusher = string_pusher, where string_pusher went with the connection.
FindDestroyed ==
  /\ thread = "copying"
  /\ closed
  /\ thread' = "corrupt"
  /\ UNCHANGED vars

\* pusher = string_pusher, the source being found empty: the thread's copy is
\* dropped and the loop ends.
FindEmpty ==
  /\ thread = "copying"
  /\ ~closed /\ ~pusher
  /\ thread' = "ended"
  /\ held' = FALSE
  /\ UNCHANGED <<ticketVars, job, pc, peer, wire, pusher, open>>
  /\ Release(stats)

\* ... the source being found full: its closure is about to be copied.
FindFull ==
  /\ thread = "copying"
  /\ pusher
  /\ thread' = "cloning"
  /\ UNCHANGED vars

\* The closure is copied, unless a failed write has freed it since.
Clone ==
  /\ thread = "cloning"
  /\ thread' = IF pusher THEN "calling" ELSE "corrupt"
  /\ held' = (held \/ pusher)
  /\ UNCHANGED <<ticketVars, job, pc, peer, wire, pusher, open, stats,
                 closed>>

\* Mutant: the reference of the stored pusher is not counted.
OnlyPushersLeft ==
  /\ pc = "finished"
  /\ \A t \in Ticket : ~Active(t)

\* self.use_count() == 1
OnlyCopyLeft ==
  /\ pc = "finished"
  /\ \A t \in Ticket : ~Active(t)
  /\ ~pusher

\* The thread pushes a message; half a second later it copies again.  Past the
\* bound MaxTickets it goes round without a message.
Push ==
  /\ thread = "calling"
  /\ ~OnlyCopyLeft
  /\ thread' = "copying"
  /\ \/ Async("push")
     \/ ticket = MaxTickets /\ UNCHANGED <<ticketVars, job>>
  /\ UNCHANGED <<pc, peer, wire, pusher, held, open, stats, closed>>

\* The pusher resets the last reference, which destroys the connection, and
\* then calls async on it.
PushOnLastReference ==
  /\ thread = "calling"
  /\ OnlyCopyLeft
  /\ thread' = "corrupt"
  /\ held' = FALSE
  /\ UNCHANGED <<ticketVars, job, pc, peer, wire, pusher, open>>
  /\ Release(stats)

Thread ==
  \/ FindDestroyed
  \/ FindEmpty
  \/ FindFull
  \/ Clone
  \/ Push
  \/ PushOnLastReference

Connected ==
  \/ AcceptAndStart
  \/ /\ \/ ReadRequest \/ ReadUpgrade \/ FailUpgrade \/ ReadMessage
        \/ ReadError \/ PeerLeaves
        \/ \E t \in Ticket : Task(t)
     /\ UNCHANGED thread

\* Destroyed with no thread left; after "corrupt" anything may happen, and
\* nothing is said of it.
Over ==
  /\ \/ thread = "corrupt"
     \/ closed /\ thread \in {"absent", "ended"}
  /\ UNCHANGED pushVars

PushNext ==
  \/ thread # "corrupt" /\ (Thread \/ Connected)
  \/ Over

\* As for Connection, and the thread is never stopped.
Sound(A) == thread # "corrupt" /\ A /\ UNCHANGED thread

PushFairness ==
  /\ \A t \in Ticket : WF_pushVars(Sound(Task(t)))
  /\ WF_pushVars(AcceptAndStart \/ Sound(FailUpgrade))
  /\ WF_pushVars(peer # "up" /\ Sound(ReadError))
  /\ WF_pushVars(Thread)

PushSpec == PushInit /\ [][PushNext]_pushVars /\ PushFairness

-----------------------------------------------------------------------------

\* The unsynchronised pusher is harmless as long as no websocket write has
\* failed: only the reset that follows a failed write can free what the thread
\* is about to use.
UnsafeOnlyAfterFailure ==
  thread = "corrupt" => peer = "broken" /\ ~pusher

\* The thread is gone before the connection is: as long as nothing but the
\* thread's messages is written, the stored pusher or the thread's copy keeps
\* the connection whenever the thread may look at it.
ThreadKeepsConnection ==
  closed => thread \in {"absent", "ended", "corrupt"}

\* A failed websocket write ends the cycle of the connection, its handler and
\* the pusher: the connection is destroyed and the thread ends, unless the
\* thread falls into the race.
FailedWriteEndsCycle ==
  (thread # "absent" /\ peer = "broken")
    ~> ((closed /\ thread = "ended") \/ thread = "corrupt")
=============================================================================
