----------------------------- MODULE ServiceCall -----------------------------
(***************************************************************************)
(* The browser's side of a service call: the functions create_service      *)
(* makes, and the page test.html that calls them over the websocket ws1,   *)
(* which it replaces when it closes.                                       *)
(*                                                                         *)
(* service(ws, ...args).then(handler) stores handler as `this.callback',   *)
(* adds a listener for the next message and sends two messages.  The       *)
(* server answers pairs of messages in order (module Connection), and      *)
(* answers carry no number: one message fires every listener of the        *)
(* socket, and each calls what `this.callback' is by then.  The page calls *)
(* the services as plain functions: `this' is the window, and the callback *)
(* one for all of them.                                                    *)
(***************************************************************************)
EXTENDS Naturals, Sequences, FiniteSets, SequencesExt

CONSTANTS
  MaxCalls,             \* bound: calls, and so handlers
  MaxSockets            \* bound: websockets the page opens

ASSUME CallAssumption ==
  MaxCalls \in Nat \ {0} /\ MaxSockets \in Nat \ {0}

Calls == 1 .. MaxCalls
Greeting == 0
Sockets == 1 .. MaxSockets

VARIABLES
  state,                \* readyState of each websocket
  ws1,                  \* the page's current websocket
  calls,                \* how many calls were made
  callback,             \* the call whose handler the window stores, or 0
  listeners,            \* websocket -> calls whose listener is added
  asked,                \* websocket -> what the server has yet to answer
  orphans,              \* calls whose then() threw, after it added a listener
  delivered,            \* handler -> [answer, reader] of each invocation
  overlapped            \* a call was made before its websocket was open, while
                        \* something sent on it was unanswered, or while a
                        \* listener of an orphan was left on it (history)

vars == <<state, ws1, calls, callback, listeners, asked, orphans, delivered,
          overlapped>>

PageInit ==
  /\ state = [w \in Sockets |-> IF w = 1 THEN "connecting" ELSE "none"]
  /\ ws1 = 1
  /\ calls = 0
  /\ callback = 0
  /\ listeners = [w \in Sockets |-> <<>>]
  /\ asked = [w \in Sockets |-> <<>>]
  /\ orphans = {}
  /\ delivered = [c \in Calls |-> <<>>]
  /\ overlapped = FALSE

\* The websocket opens; the page greets on its first one, and is answered as
\* any call is.
Open(w) ==
  /\ state[w] = "connecting"
  /\ state' = [state EXCEPT ![w] = "open"]
  /\ asked' = IF w = 1
             THEN [asked EXCEPT ![w] = Append(@, Greeting)] ELSE asked
  /\ UNCHANGED <<ws1, calls, callback, listeners, orphans, delivered,
                 overlapped>>

\* The websocket closes: what it sent goes unanswered, its listeners stay.
\* The page opens another, unless the connection was lost (code 1006).
Close(w) ==
  /\ state[w] \in {"connecting", "open"}
  /\ asked' = [asked EXCEPT ![w] = <<>>]
  /\ \/ /\ w = ws1 /\ w < MaxSockets
        /\ ws1' = w + 1
        /\ state' = [state EXCEPT ![w] = "closed", ![w + 1] = "connecting"]
     \/ /\ UNCHANGED ws1
        /\ state' = [state EXCEPT ![w] = "closed"]
  /\ UNCHANGED <<calls, callback, listeners, orphans, delivered, overlapped>>

\* What then(handler) does before it sends anything.
Listen ==
  /\ calls < MaxCalls
  /\ calls' = calls + 1
  /\ callback' = calls + 1
  /\ listeners' = [listeners EXCEPT ![ws1] = Append(@, calls + 1)]
  /\ overlapped' = \/ overlapped
                   \/ state[ws1] # "open"
                   \/ asked[ws1] # <<>>
                   \/ ToSet(listeners[ws1]) \cap orphans # {}
  /\ UNCHANGED <<state, ws1, delivered>>

\* Mutant: the arguments are not sent.
CallWithoutArguments ==
  /\ Listen
  /\ state[ws1] # "connecting"
  /\ UNCHANGED <<asked, orphans>>

\* service(ws, ...args).then(handler): the pointer is sent, and the arguments,
\* unless the websocket is closed: send() discards them.
Call ==
  /\ Listen
  /\ state[ws1] # "connecting"
  /\ asked' = IF state[ws1] = "open"
              THEN [asked EXCEPT ![ws1] = Append(@, calls + 1)] ELSE asked
  /\ UNCHANGED orphans

\* then(handler) throws, with the listener added: send() does while the
\* websocket connects, or the writer of the arguments when the pointer was sent
\* already, which the server answers with nothing.
CallThrows ==
  /\ Listen
  /\ orphans' = orphans \cup {calls + 1}
  /\ UNCHANGED asked

\* The listeners of the calls cs are called with the answer to a, one after the
\* other: `this.callback' with what the reader of each makes of it.
Invoke(a, cs) ==
  delivered' = [c \in Calls |->
                  IF c # callback THEN delivered[c]
                  ELSE delivered[c] \o
                         [i \in DOMAIN cs |-> [answer |-> a, reader |-> cs[i]]]]

\* Which of the listeners ls get to call back, in the order they were added.
Readings(ls) ==
  {order \in UNION {[1 .. n -> DOMAIN ls] : n \in 0 .. Len(ls)} :
     \A i, j \in DOMAIN order : i < j => order[i] < order[j]}

\* Mutant: the listener does not remove itself.
MessageKeepsListeners(w) ==
  /\ state[w] = "open"
  /\ asked[w] # <<>>
  /\ asked' = [asked EXCEPT ![w] = Tail(@)]
  /\ Invoke(Head(asked[w]), listeners[w])
  /\ UNCHANGED <<state, ws1, calls, callback, listeners, orphans, overlapped>>

\* An answer arrives: every listener removes itself, then reads the answer,
\* which throws if it is not what its type needs, and calls back.
Message(w) ==
  /\ state[w] = "open"
  /\ asked[w] # <<>>
  /\ asked' = [asked EXCEPT ![w] = Tail(@)]
  /\ listeners' = [listeners EXCEPT ![w] = <<>>]
  /\ \E order \in Readings(listeners[w]) :
       Invoke(Head(asked[w]), [i \in DOMAIN order |-> listeners[w][order[i]]])
  /\ UNCHANGED <<state, ws1, calls, callback, orphans, overlapped>>

\* Nothing more is called, asked or opened.
Quiet ==
  /\ \A w \in Sockets : state[w] \in {"none", "closed"}
  /\ calls = MaxCalls
  /\ UNCHANGED vars

Next ==
  \/ Call
  \/ CallThrows
  \/ \E w \in Sockets : Open(w) \/ Close(w) \/ Message(w)
  \/ Quiet

PageSpec == PageInit /\ [][Next]_vars

-----------------------------------------------------------------------------
(* Properties.                                                             *)

\* Handlers get the answer to their own call, read with its own reader, once: as
\* long as every call was made on an open websocket with nothing unanswered and
\* no listener left by a then() that threw.  That is although the greeting is
\* answered on the same websocket, all calls share one callback, the latest
\* call's even if it threw, and websockets are replaced under pending calls.
RightAnswer ==
  ~overlapped => \A c \in Calls :
    /\ \A i \in DOMAIN delivered[c] :
         delivered[c][i] = [answer |-> c, reader |-> c]
    /\ Len(delivered[c]) <= 1

\* Calls that overlap get each other's answers, but never more of them than
\* there were calls: a listener is called once, for whichever handler.  And one
\* that still listens on an open websocket has an answer to wait for, whatever
\* was replaced since, unless its then() threw: at send() or in the writer.
CalledOncePerCall ==
  /\ \A c, d \in Calls :
       \A i \in DOMAIN delivered[c], j \in DOMAIN delivered[d] :
         delivered[c][i].reader = delivered[d][j].reader => c = d /\ i = j
  /\ \A w \in Sockets :
       state[w] = "open" =>
         ToSet(listeners[w]) \ orphans \subseteq ToSet(asked[w])
=============================================================================
