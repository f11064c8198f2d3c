-------------------------- MODULE SessionConnection --------------------------
(***************************************************************************)
(* A connection of http_handler with what its websocket_handler does: the  *)
(* handler of a text message selects the service it names, the handler of  *)
(* a binary message calls the service selected then.  So a call takes two  *)
(* messages, handled by two coroutines, and which function the second      *)
(* calls depends on when the first ran.  How a name is looked up, and what *)
(* a reload makes of the reference, is in module ServiceRegistry.          *)
(***************************************************************************)
EXTENDS Connection

CONSTANT Names          \* what text messages say

Nothing == "null"       \* null_ref

ASSUME NamesAssumption == Nothing \notin Names

VARIABLES
  named,                \* the name a text message says; of a binary message,
                        \* the name said last before it
  service,              \* websocket_handler::service, by the name looked up
  called                \* what the handler of a binary message called

session == <<named, service, called>>
sessionVars == <<vars, session>>

SessionInit ==
  /\ Init
  /\ named = [t \in Ticket |-> Nothing]
  /\ service = Nothing
  /\ called = [t \in Ticket |-> Nothing]

-----------------------------------------------------------------------------

Said == IF ticket = 0 THEN Nothing ELSE named[ticket - 1]

Message(kind, name) ==
  /\ ReadMessage
  /\ job'[ticket] = kind
  /\ named' = [named EXCEPT ![ticket] = name]
  /\ UNCHANGED <<service, called>>

\* Mutant: the handler of a binary message runs in its turn.
HandleMessageInTurn(t) ==
  \/ /\ Start(t)
     /\ service' = IF job[t] = "text" THEN named[t] ELSE service
     /\ UNCHANGED <<named, called>>
  \/ /\ BeginWrite(t)
     /\ called' = IF job[t] = "binary" THEN [called EXCEPT ![t] = service]
                  ELSE called
     /\ UNCHANGED <<named, service>>

\* websocket_handler::operator(), in a coroutine that has just been started,
\* before its turn
HandleMessage(t) ==
  /\ Start(t)
  /\ service' = IF job[t] = "text" THEN named[t] ELSE service
  /\ called' = IF job[t] = "binary" THEN [called EXCEPT ![t] = service]
               ELSE called
  /\ UNCHANGED named

\* A reply that cannot be written: a new handler takes the place of the old.
FailReply(t) ==
  /\ FailWrite(t)
  /\ service' = IF job[t] \in SocketJobs THEN Nothing ELSE service
  /\ UNCHANGED <<named, called>>

Elsewhere ==
  \/ ReadRequest \/ ReadUpgrade \/ AcceptUpgrade \/ FailUpgrade \/ ReadError
  \/ \E t \in Ticket : Poll(t) \/ BeginWrite(t) \/ EndWrite(t) \/ Finish(t)
  \/ PeerLeaves
  \/ Terminated

SessionNext ==
  \/ \E name \in Names : Message("text", name)
  \/ Message("binary", Said)
  \/ \E t \in Ticket : HandleMessage(t) \/ FailReply(t)
  \/ Elsewhere /\ UNCHANGED session

SessionSpec == SessionInit /\ [][SessionNext]_sessionVars /\ Fairness

-----------------------------------------------------------------------------
(* Properties.                                                             *)

\* The handler of every binary message called what the text message before it
\* names, however many messages of either kind a peer sends without waiting for
\* answers, or, once a reply could not be written, nothing: as long as a spawned
\* coroutine starts on the spot.
NamedServiceIsCalled ==
  ~StrandsCollide =>
    \A t \in Ticket :
      job[t] = "binary" /\ task[t] \notin {"free", "spawned"}
        => \/ called[t] = named[t]
           \/ peer = "broken" /\ called[t] = Nothing

\* What f maps the numbers in S to, those of lesser numbers first.
Listed(S, f) ==
  [i \in 1 .. Cardinality(S) |->
     f[CHOOSE t \in S : Cardinality({u \in S : u < t}) = i - 1]]

\* The tickets of the calls that have no answer yet.
Calls ==
  {t \in Ticket :
     job[t] = "binary" /\ task[t] \notin {"free", "written", "done"}}

\* The places of answered calls on the wire.
Replies == {i \in DOMAIN wire : wire[i].kind = "binary"}

CallQueue ==
  INSTANCE ResponseQueue
    WITH Work <- Names \cup {Nothing}, Silent <- {}, Handshakes <- {},
         queue <- Listed(Calls, named),
         sent <- Listed(Replies, [i \in Replies |-> called[wire[i].ticket]]),
         lost <- peer = "broken"

\* Whoever calls services over the websocket has a queue: a call of the named
\* service is answered by that service, in the order of the calls, whatever HTTP
\* answers and text messages come between.
ImplementsCallQueue == CallQueue!Spec
=============================================================================
