-------------------------- MODULE ServiceCallProofs --------------------------
(***************************************************************************)
(* Proofs about ServiceCall, for any number of calls and of websockets:    *)
(* a patient page gets the right answers, and an impatient one gets no     *)
(* more answers than it made calls.                                        *)
(***************************************************************************)
EXTENDS ServiceCall, TLAPS

PageTypes ==
  /\ state \in [Sockets -> {"none", "connecting", "open", "closed"}]
  /\ ws1 \in Sockets
  /\ calls \in 0 .. MaxCalls
  /\ callback = calls
  /\ listeners \in [Sockets -> Seq(Calls)]
  /\ asked \in [Sockets -> Seq(Calls \cup {Greeting})]
  /\ orphans \in SUBSET Calls
  /\ delivered \in [Calls -> Seq([answer : Calls \cup {Greeting},
                                  reader : Calls])]
  /\ overlapped \in BOOLEAN

\* The page's websockets are opened one after the other, each when the one
\* before closed; what was not opened yet was not used, and what is not open
\* yet was sent nothing.
SocketInv ==
  /\ \A w \in Sockets : w < ws1 => state[w] = "closed"
  /\ \A w \in Sockets : w > ws1 => state[w] = "none"
  /\ state[ws1] # "none"
  /\ \A w \in Sockets : state[w] = "none" => listeners[w] = <<>>
  /\ \A w \in Sockets : state[w] \in {"none", "connecting"} => asked[w] = <<>>

PageInv == PageTypes /\ SocketInv

\* The answers in the order in which handlers were given them: no two were read
\* by the listener of one call.
ReadOnce ==
  \A c, d \in Calls :
    \A i \in DOMAIN delivered[c], j \in DOMAIN delivered[d] :
      delivered[c][i].reader = delivered[d][j].reader => c = d /\ i = j

\* A call adds one listener, which is there until it has read.
ListenerInv ==
  /\ \A w \in Sockets : \A i \in DOMAIN listeners[w] : listeners[w][i] <= calls
  /\ \A c \in Calls : \A j \in DOMAIN delivered[c] :
       delivered[c][j].reader <= calls
  /\ \A v, w \in Sockets :
       \A i \in DOMAIN listeners[v], j \in DOMAIN listeners[w] :
         listeners[v][i] = listeners[w][j] => v = w /\ i = j
  /\ \A w \in Sockets, c \in Calls :
       \A i \in DOMAIN listeners[w], j \in DOMAIN delivered[c] :
         listeners[w][i] # delivered[c][j].reader
  /\ ReadOnce

\* The listeners of a websocket that may be answered wait for answers.
WaitInv ==
  \A w \in Sockets :
    state[w] # "closed" => ToSet(listeners[w]) \ orphans \subseteq ToSet(asked[w])

\* What an open websocket of a patient page waits for: nothing, the answer to
\* the greeting, or that to the latest call; unless that call threw, and left a
\* listener.
Patient(w) ==
  \/ listeners[w] = <<>> /\ asked[w] \in {<<>>, <<Greeting>>}
  \/ /\ listeners[w] = <<calls>> /\ asked[w] = <<calls>>
     /\ calls \in Calls /\ delivered[calls] = <<>>
  \/ listeners[w] = <<calls>> /\ asked[w] = <<>> /\ calls \in orphans

PatientInv ==
  ~overlapped =>
    /\ \A w \in Sockets : state[w] = "connecting" => listeners[w] = <<>>
    /\ \A w \in Sockets : state[w] = "open" => Patient(w)
    /\ \A c \in Calls : c > calls => delivered[c] = <<>>
    /\ RightAnswer

-----------------------------------------------------------------------------

LEMMA ConcatType ==
  ASSUME NEW A, NEW s \in Seq(A), NEW t \in Seq(A)
  PROVE  s \o t \in Seq(A)
  OBVIOUS

LEMMA ElementType ==
  ASSUME NEW A, NEW s \in Seq(A), NEW i \in DOMAIN s
  PROVE  s[i] \in A
  OBVIOUS

\* What an answer does to the handler the window stores: calls of listeners, each
\* at most once, are added to what it was given.
LEMMA MessageFacts ==
  ASSUME PageInv, NEW w \in Sockets, Message(w)
  PROVE  \E order \in Readings(listeners[w]) :
           LET new == [i \in DOMAIN order |->
                         [answer |-> Head(asked[w]),
                          reader |-> listeners[w][order[i]]]]
           IN  /\ new \in Seq([answer : Calls \cup {Greeting}, reader : Calls])
               /\ DOMAIN new = DOMAIN order
               /\ delivered' = [c \in Calls |->
                                  IF c # callback THEN delivered[c]
                                  ELSE delivered[c] \o new]
  <1>1. PICK order \in Readings(listeners[w]) :
          Invoke(Head(asked[w]), [i \in DOMAIN order |-> listeners[w][order[i]]])
    BY DEF Message
  <1> DEFINE cs == [i \in DOMAIN order |-> listeners[w][order[i]]]
             new == [i \in DOMAIN order |->
                       [answer |-> Head(asked[w]),
                        reader |-> listeners[w][order[i]]]]
  <1>2. /\ listeners[w] \in Seq(Calls)
        /\ asked[w] \in Seq(Calls \cup {Greeting}) /\ asked[w] # <<>>
    BY DEF PageInv, PageTypes, Message
  <1>3. PICK n \in 0 .. Len(listeners[w]) :
          order \in [1 .. n -> DOMAIN listeners[w]]
    BY DEF Readings
  <1>4. n \in Nat /\ DOMAIN order = 1 .. n
    BY <1>2, <1>3
  <1>5. Head(asked[w]) \in Calls \cup {Greeting}
    BY <1>2
  <1>6. \A i \in 1 .. n : listeners[w][order[i]] \in Calls
    BY <1>2, <1>3
  <1>7. new \in [1 .. n -> [answer : Calls \cup {Greeting}, reader : Calls]]
    BY <1>4, <1>5, <1>6
  <1>8. new \in Seq([answer : Calls \cup {Greeting}, reader : Calls])
    BY <1>4, <1>7
  <1>9. DOMAIN cs = DOMAIN order
        /\ [i \in DOMAIN cs |-> [answer |-> Head(asked[w]), reader |-> cs[i]]]
             = new
    OBVIOUS
  <1>10. delivered' = [c \in Calls |->
                         IF c # callback THEN delivered[c]
                         ELSE delivered[c] \o new]
    BY <1>1, <1>9 DEF Invoke
  <1>11. QED
    BY <1>8, <1>10

\* What a call does, whether or not it throws.
LEMMA CallFacts ==
  ASSUME PageInv, Call \/ CallThrows
  PROVE  /\ calls \in Nat /\ calls + 1 \in Calls /\ calls + 1 \in 0 .. MaxCalls
         /\ calls' = calls + 1 /\ callback' = calls + 1
         /\ UNCHANGED <<state, ws1, delivered>>
         /\ listeners' = [listeners EXCEPT ![ws1] = Append(@, calls + 1)]
         /\ ~overlapped' => /\ state[ws1] = "open" /\ asked[ws1] = <<>>
                            /\ ToSet(listeners[ws1]) \cap orphans = {}
         /\ \/ asked' = asked /\ orphans' \in {orphans, orphans \cup {calls + 1}}
            \/ /\ asked' = [asked EXCEPT ![ws1] = Append(@, calls + 1)]
               /\ orphans' = orphans /\ state[ws1] = "open"
         /\ overlapped' \in BOOLEAN
  <1>1. Listen
    BY DEF Call, CallThrows
  <1>2. /\ calls < MaxCalls /\ calls' = calls + 1 /\ callback' = calls + 1
        /\ listeners' = [listeners EXCEPT ![ws1] = Append(@, calls + 1)]
        /\ UNCHANGED <<state, ws1, delivered>>
    BY <1>1 DEF Listen
  <1>3. calls \in 0 .. MaxCalls /\ MaxCalls \in Nat
    BY CallAssumption DEF PageInv, PageTypes
  <1>4. /\ calls \in Nat /\ calls + 1 \in Calls /\ calls + 1 \in 0 .. MaxCalls
    BY <1>2, <1>3 DEF Calls
  <1>5. \/ asked' = asked /\ orphans' \in {orphans, orphans \cup {calls + 1}}
        \/ /\ asked' = [asked EXCEPT ![ws1] = Append(@, calls + 1)]
           /\ orphans' = orphans /\ state[ws1] = "open"
    <2>1. CASE Call
      BY <2>1 DEF Call
    <2>2. CASE CallThrows
      BY <2>2 DEF CallThrows
    <2>3. QED
      BY <2>1, <2>2
  <1>6. /\ ~overlapped' => /\ state[ws1] = "open" /\ asked[ws1] = <<>>
                           /\ ToSet(listeners[ws1]) \cap orphans = {}
        /\ overlapped' \in BOOLEAN
    BY <1>1, Zenon DEF Listen
  <1>7. QED
    BY <1>2, <1>4, <1>5, <1>6

\* Every step keeps the types and the order of the websockets.
LEMMA NextPageInv == PageInv /\ [Next]_vars => PageInv'
  <1> SUFFICES ASSUME PageInv, [Next]_vars PROVE PageInv'
    OBVIOUS
  <1>1. PageTypes /\ SocketInv
    BY DEF PageInv
  <1>2. MaxCalls \in Nat /\ MaxSockets \in Nat
        /\ \A w \in Sockets : w \in 1 .. MaxSockets
    BY CallAssumption DEF Sockets
  <1>3. CASE Call \/ CallThrows
    <2>1. /\ calls + 1 \in Calls /\ calls + 1 \in 0 .. MaxCalls
          /\ calls' = calls + 1 /\ callback' = calls + 1
          /\ UNCHANGED <<state, ws1, delivered>>
      BY <1>3, CallFacts
    <2>2. /\ listeners' = [listeners EXCEPT ![ws1] = Append(@, calls + 1)]
          /\ listeners' \in [Sockets -> Seq(Calls)]
      <3>1. listeners' = [listeners EXCEPT ![ws1] = Append(@, calls + 1)]
        BY <1>3, CallFacts
      <3>2. /\ listeners \in [Sockets -> Seq(Calls)] /\ ws1 \in Sockets
            /\ Append(listeners[ws1], calls + 1) \in Seq(Calls)
        BY <1>1, <2>1 DEF PageTypes
      <3>3. QED
        BY <3>1, <3>2
    <2>3. /\ asked' \in {asked, [asked EXCEPT ![ws1] = Append(@, calls + 1)]}
          /\ state[ws1] \in {"none", "connecting"} => asked' = asked
          /\ asked' \in [Sockets -> Seq(Calls \cup {Greeting})]
      <3>1. \/ asked' = asked
            \/ /\ asked' = [asked EXCEPT ![ws1] = Append(@, calls + 1)]
               /\ state[ws1] = "open"
        BY <1>3, CallFacts
      <3>2. /\ asked \in [Sockets -> Seq(Calls \cup {Greeting})]
            /\ ws1 \in Sockets
            /\ Append(asked[ws1], calls + 1) \in Seq(Calls \cup {Greeting})
        BY <1>1, <2>1 DEF PageTypes
      <3>3. QED
        BY <3>1, <3>2
    <2>4. /\ orphans' \in SUBSET Calls /\ overlapped' \in BOOLEAN
      BY <1>1, <1>3, <2>1, CallFacts DEF PageTypes
    <2>5. PageTypes'
      BY <1>1, <2>1, <2>2, <2>3, <2>4 DEF PageTypes
    <2>6. SocketInv'
      BY <1>1, <2>1, <2>2, <2>3 DEF PageTypes, SocketInv
    <2>7. QED
      BY <2>5, <2>6 DEF PageInv
  <1>4. ASSUME NEW w \in Sockets, Open(w) PROVE PageInv'
    <2>1. /\ asked' \in {asked, [asked EXCEPT ![w] = Append(@, Greeting)]}
          /\ asked' \in [Sockets -> Seq(Calls \cup {Greeting})]
      BY <1>1, <1>4 DEF Open, PageTypes
    <2>2. /\ state' = [state EXCEPT ![w] = "open"] /\ state[w] = "connecting"
          /\ UNCHANGED <<ws1, calls, callback, listeners, orphans, delivered,
                         overlapped>>
      BY <1>4 DEF Open
    <2>3. PageTypes'
      BY <1>1, <2>1, <2>2 DEF PageTypes
    <2>4. SocketInv'
      BY <1>1, <2>1, <2>2 DEF PageTypes, SocketInv
    <2>5. QED
      BY <2>3, <2>4 DEF PageInv
  <1>5. ASSUME NEW w \in Sockets, Close(w) PROVE PageInv'
    <2>1. /\ state[w] \in {"connecting", "open"}
          /\ asked' = [asked EXCEPT ![w] = <<>>]
          /\ asked' \in [Sockets -> Seq(Calls \cup {Greeting})]
          /\ UNCHANGED <<calls, callback, listeners, orphans, delivered,
                         overlapped>>
      BY <1>1, <1>5 DEF Close, PageTypes
    <2>2. CASE /\ w = ws1 /\ w < MaxSockets /\ ws1' = w + 1
               /\ state' = [state EXCEPT ![w] = "closed",
                                         ![w + 1] = "connecting"]
      <3>1. w + 1 \in Sockets /\ w \in Nat
        BY <1>2, <2>2 DEF Sockets
      <3>2. state[w + 1] = "none"
        BY <1>1, <2>2, <3>1 DEF SocketInv
      <3>3. PageTypes'
        BY <1>1, <2>1, <2>2, <3>1 DEF PageTypes
      <3>4. SocketInv'
        BY <1>1, <1>2, <2>1, <2>2, <3>1, <3>2 DEF PageTypes, SocketInv
      <3>5. QED
        BY <3>3, <3>4 DEF PageInv
    <2>3. CASE ws1' = ws1 /\ state' = [state EXCEPT ![w] = "closed"]
      <3>1. PageTypes'
        BY <1>1, <2>1, <2>3 DEF PageTypes
      <3>2. SocketInv'
        BY <1>1, <2>1, <2>3 DEF PageTypes, SocketInv
      <3>3. QED
        BY <3>1, <3>2 DEF PageInv
    <2>4. QED
      BY <1>5, <2>2, <2>3 DEF Close
  <1>6. ASSUME NEW w \in Sockets, Message(w) PROVE PageInv'
    <2>1. /\ state[w] = "open" /\ asked[w] # <<>>
          /\ asked' = [asked EXCEPT ![w] = Tail(@)]
          /\ listeners' = [listeners EXCEPT ![w] = <<>>]
          /\ UNCHANGED <<state, ws1, calls, callback, orphans, overlapped>>
      BY <1>6 DEF Message
    <2>2. asked' \in [Sockets -> Seq(Calls \cup {Greeting})]
      BY <1>1, <2>1 DEF PageTypes
    <2>3. delivered' \in [Calls -> Seq([answer : Calls \cup {Greeting},
                                       reader : Calls])]
      <3> DEFINE A == [answer : Calls \cup {Greeting}, reader : Calls]
      <3>1. PICK new \in Seq(A) :
              delivered' = [c \in Calls |-> IF c # callback THEN delivered[c]
                                            ELSE delivered[c] \o new]
        BY <1>6, MessageFacts
      <3>2. \A c \in Calls : delivered[c] \in Seq(A)
        BY <1>1 DEF PageTypes
      <3>3. \A c \in Calls : delivered[c] \o new \in Seq(A)
        BY <3>2, ConcatType
      <3>4. QED
        BY <3>1, <3>2, <3>3
    <2>4. listeners' \in [Sockets -> Seq(Calls)]
      BY <1>1, <2>1 DEF PageTypes
    <2>5. PageTypes'
      BY <1>1, <2>1, <2>2, <2>3, <2>4 DEF PageTypes
    <2>6. SocketInv'
      BY <1>1, <2>1 DEF PageTypes, SocketInv
    <2>7. QED
      BY <2>5, <2>6 DEF PageInv
  <1>7. CASE UNCHANGED vars
    BY <1>1, <1>7 DEF vars, PageInv, PageTypes, SocketInv
  <1>8. QED
    BY <1>3, <1>4, <1>5, <1>6, <1>7 DEF Next, Quiet

-----------------------------------------------------------------------------

\* No listener reads twice, and no call has two: each step keeps it.
LEMMA NextListenerInv == PageInv /\ ListenerInv /\ [Next]_vars => ListenerInv'
  <1> SUFFICES ASSUME PageInv, ListenerInv, [Next]_vars PROVE ListenerInv'
    OBVIOUS
  <1>1. PageTypes
    BY DEF PageInv
  <1>2. MaxCalls \in Nat /\ calls \in Nat /\ \A c \in Calls : c \in Nat
    BY <1>1, CallAssumption DEF PageTypes, Calls
  <1>3. CASE Call \/ CallThrows
    <2>1. /\ ws1 \in Sockets /\ calls' = calls + 1
          /\ listeners' = [listeners EXCEPT ![ws1] = Append(@, calls + 1)]
          /\ delivered' = delivered
      BY <1>1, <1>3 DEF Call, CallThrows, Listen, PageTypes
    <2>2. \A w \in Sockets : \A i \in DOMAIN listeners'[w] :
            \/ i \in DOMAIN listeners[w] /\ listeners'[w][i] = listeners[w][i]
            \/ w = ws1 /\ i = Len(listeners[w]) + 1 /\ listeners'[w][i] = calls + 1
      <3> SUFFICES ASSUME NEW w \in Sockets, NEW i \in DOMAIN listeners'[w]
                   PROVE  \/ /\ i \in DOMAIN listeners[w]
                             /\ listeners'[w][i] = listeners[w][i]
                          \/ /\ w = ws1 /\ i = Len(listeners[w]) + 1
                             /\ listeners'[w][i] = calls + 1
        OBVIOUS
      <3>1. listeners \in [Sockets -> Seq(Calls)]
        BY <1>1 DEF PageTypes
      <3>2. CASE w = ws1
        <4>1. listeners'[w] = Append(listeners[w], calls + 1)
          BY <2>1, <3>1, <3>2
        <4>2. QED
          BY <3>1, <3>2, <4>1
      <3>3. CASE w # ws1
        BY <2>1, <3>1, <3>3
      <3>4. QED
        BY <3>2, <3>3
    <2>3. /\ \A w \in Sockets : \A i \in DOMAIN listeners[w] :
               listeners[w][i] \in Nat /\ listeners[w][i] <= calls
          /\ \A c \in Calls : \A j \in DOMAIN delivered[c] :
               /\ delivered[c][j].reader \in Nat
               /\ delivered[c][j].reader <= calls
      <3>1. \A w \in Sockets : \A i \in DOMAIN listeners[w] :
              listeners[w][i] \in Calls
        BY <1>1 DEF PageTypes
      <3>2. \A c \in Calls : \A j \in DOMAIN delivered[c] :
              delivered[c][j].reader \in Calls
        <4> SUFFICES ASSUME NEW c \in Calls, NEW j \in DOMAIN delivered[c]
                     PROVE  delivered[c][j].reader \in Calls
          OBVIOUS
        <4>1. delivered[c] \in Seq([answer : Calls \cup {Greeting},
                                   reader : Calls])
          BY <1>1 DEF PageTypes
        <4>2. delivered[c][j] \in [answer : Calls \cup {Greeting},
                                  reader : Calls]
          BY <4>1, ElementType
        <4>3. QED
          BY <4>2
      <3>3. QED
        BY <1>2, <3>1, <3>2 DEF ListenerInv
    <2>4. /\ \A w \in Sockets : \A i \in DOMAIN listeners'[w] :
               listeners'[w][i] <= calls'
          /\ \A c \in Calls : \A j \in DOMAIN delivered'[c] :
               delivered'[c][j].reader <= calls'
      BY <1>2, <2>1, <2>2, <2>3
    <2>5. \A v, w \in Sockets :
            \A i \in DOMAIN listeners'[v], j \in DOMAIN listeners'[w] :
              listeners'[v][i] = listeners'[w][j] => v = w /\ i = j
      BY <1>2, <2>2, <2>3 DEF ListenerInv
    <2>6. \A w \in Sockets, c \in Calls :
            \A i \in DOMAIN listeners'[w], j \in DOMAIN delivered'[c] :
              listeners'[w][i] # delivered'[c][j].reader
      BY <1>2, <2>1, <2>2, <2>3 DEF ListenerInv
    <2>7. ReadOnce'
      BY <2>1 DEF ListenerInv, ReadOnce
    <2>8. QED
      BY <2>4, <2>5, <2>6, <2>7 DEF ListenerInv
  <1>4. ASSUME NEW w \in Sockets, Message(w) PROVE ListenerInv'
    <2>1. PICK order \in Readings(listeners[w]) :
            LET new == [i \in DOMAIN order |->
                          [answer |-> Head(asked[w]),
                           reader |-> listeners[w][order[i]]]]
            IN  /\ new \in Seq([answer : Calls \cup {Greeting}, reader : Calls])
                /\ delivered' = [c \in Calls |->
                                   IF c # callback THEN delivered[c]
                                   ELSE delivered[c] \o new]
      BY <1>4, MessageFacts
    <2> DEFINE new == [i \in DOMAIN order |-> [answer |-> Head(asked[w]),
                                              reader |-> listeners[w][order[i]]]]
               n(c) == Len(delivered[c])
    <2>2. PICK m \in Nat : DOMAIN order = 1 .. m
      BY <1>1 DEF Readings, PageTypes
    <2>3. /\ new \in Seq([answer : Calls \cup {Greeting}, reader : Calls])
          /\ DOMAIN new = 1 .. m /\ Len(new) = m
          /\ \A i \in 1 .. m : new[i].reader = listeners[w][order[i]]
      BY <2>1, <2>2
    <2>4. /\ \A i \in 1 .. m : order[i] \in DOMAIN listeners[w]
          /\ \A i, j \in 1 .. m : i < j => order[i] < order[j]
      BY <2>2 DEF Readings
    <2>5. \A i, j \in 1 .. m : order[i] = order[j] => i = j
      <3> SUFFICES ASSUME NEW i \in 1 .. m, NEW j \in 1 .. m,
                          order[i] = order[j]
                   PROVE  i = j
        OBVIOUS
      <3>1. order[i] \in Nat /\ order[j] \in Nat
        BY <1>1, <2>4 DEF PageTypes
      <3>2. ~(i < j) /\ ~(j < i)
        BY <2>4, <3>1
      <3>3. QED
        BY <3>2
    <2>6. /\ listeners' = [listeners EXCEPT ![w] = <<>>] /\ calls' = calls
          /\ \A v \in Sockets : \A i \in DOMAIN listeners'[v] :
               /\ v # w /\ i \in DOMAIN listeners[v]
               /\ listeners'[v][i] = listeners[v][i]
      BY <1>1, <1>4 DEF Message, PageTypes
    <2> DEFINE Old(c, j) == /\ j \in DOMAIN delivered[c]
                            /\ delivered'[c][j] = delivered[c][j]
               New(c, j) == /\ c = callback /\ j - n(c) \in 1 .. m
                            /\ delivered'[c][j].reader
                                 = listeners[w][order[j - n(c)]]
    <2>7. \A c \in Calls : \A j \in DOMAIN delivered'[c] : Old(c, j) \/ New(c, j)
      <3> SUFFICES ASSUME NEW c \in Calls, NEW j \in DOMAIN delivered'[c]
                   PROVE  Old(c, j) \/ New(c, j)
        OBVIOUS
      <3>1. delivered[c] \in Seq([answer : Calls \cup {Greeting}, reader : Calls])
        BY <1>1 DEF PageTypes
      <3>2. CASE c # callback
        BY <2>1, <3>1, <3>2
      <3>3. CASE c = callback
        <4>1. delivered'[c] = delivered[c] \o new
          BY <2>1, <3>3
        <4>2. /\ j \in 1 .. n(c) + m
              /\ j <= n(c) => delivered'[c][j] = delivered[c][j]
              /\ j > n(c) => delivered'[c][j] = new[j - n(c)]
          BY <2>3, <3>1, <4>1
        <4>3. QED
          BY <2>3, <3>1, <3>3, <4>2
      <3>4. QED
        BY <3>2, <3>3
    <2>8. \A v \in Sockets : \A i \in DOMAIN listeners'[v] :
            listeners'[v][i] <= calls'
      BY <2>6 DEF ListenerInv
    <2>9. \A c \in Calls : \A j \in DOMAIN delivered'[c] :
            delivered'[c][j].reader <= calls'
      BY <2>4, <2>6, <2>7 DEF ListenerInv
    <2>10. \A u, v \in Sockets :
             \A i \in DOMAIN listeners'[u], j \in DOMAIN listeners'[v] :
               listeners'[u][i] = listeners'[v][j] => u = v /\ i = j
      BY <2>6 DEF ListenerInv
    <2>11. \A v \in Sockets, c \in Calls :
             \A i \in DOMAIN listeners'[v], j \in DOMAIN delivered'[c] :
               listeners'[v][i] # delivered'[c][j].reader
      BY <2>4, <2>6, <2>7 DEF ListenerInv
    <2>12. ReadOnce'
      <3> SUFFICES ASSUME NEW c \in Calls, NEW d \in Calls,
                          NEW i \in DOMAIN delivered'[c],
                          NEW j \in DOMAIN delivered'[d],
                          delivered'[c][i].reader = delivered'[d][j].reader
                   PROVE  c = d /\ i = j
        BY DEF ReadOnce
      <3>1. n(c) \in Nat
        BY <1>1 DEF PageTypes
      <3>2. i \in Nat /\ j \in Nat
        <4>1. PageTypes'
          BY NextPageInv DEF PageInv
        <4>2. QED
          BY <4>1 DEF PageTypes
      <3>3. CASE Old(c, i) /\ Old(d, j)
        BY <3>3 DEF ListenerInv, ReadOnce
      <3>4. CASE Old(c, i) /\ New(d, j)
        BY <2>4, <3>4 DEF ListenerInv
      <3>5. CASE New(c, i) /\ Old(d, j)
        BY <2>4, <3>5 DEF ListenerInv
      <3>6. CASE New(c, i) /\ New(d, j)
        <4>1. order[i - n(c)] = order[j - n(d)]
          BY <2>4, <3>6 DEF ListenerInv
        <4>2. i - n(c) = j - n(c) /\ c = d
          BY <2>5, <3>6, <4>1
        <4>3. QED
          BY <3>1, <3>2, <4>2
      <3>7. QED
        BY <2>7, <3>3, <3>4, <3>5, <3>6
    <2>13. QED
      BY <2>8, <2>9, <2>10, <2>11, <2>12 DEF ListenerInv
  <1>5. ASSUME UNCHANGED <<calls, listeners, delivered>> PROVE ListenerInv'
    BY <1>5 DEF ListenerInv, ReadOnce
  <1>6. QED
    BY <1>3, <1>4, <1>5 DEF Next, Open, Close, Quiet, vars

\* Sequences of one element.
LEMMA OneElement ==
  ASSUME NEW e
  PROVE  Append(<<>>, e) = <<e>> /\ Tail(<<e>>) = <<>>
  <1>1. Append(<<>>, e) = <<e>>
    OBVIOUS
  <1>2. Tail(<<e>>) = <<>>
    OBVIOUS
  <1>3. QED
    BY <1>1, <1>2

\* What a sequence with one more element holds.
LEMMA AppendToSet ==
  ASSUME NEW A, NEW s \in Seq(A), NEW e
  PROVE  ToSet(Append(s, e)) = ToSet(s) \cup {e}
  <1> DEFINE n == Len(s)
             t == Append(s, e)
             D == 1 .. n
  <1>1. /\ DOMAIN t = 1 .. n + 1 /\ DOMAIN s = D /\ n \in Nat
        /\ t[n + 1] = e /\ \A i \in D : t[i] = s[i]
    OBVIOUS
  <1>2. (1 .. n + 1) = D \cup {n + 1}
    BY <1>1
  <1>3. {t[i] : i \in D \cup {n + 1}} = {s[i] : i \in D} \cup {e}
    <2> HIDE DEF D, t, n
    <2>1. QED
      BY <1>1, Zenon
  <1>4. QED
    BY <1>1, <1>2, <1>3 DEF ToSet

\* The page has one websocket that is not closed.
LEMMA OneOpen ==
  ASSUME PageInv, NEW v \in Sockets, state[v] = "open"
  PROVE  v = ws1
  <1>1. v \in Nat /\ ws1 \in Nat
    BY CallAssumption DEF PageInv, PageTypes, Sockets
  <1>2. ~(v < ws1) /\ ~(v > ws1)
    BY DEF PageInv, SocketInv
  <1>3. QED
    BY <1>1, <1>2

\* A websocket that connects after another closed connected before or is new.
LEMMA NextSocket ==
  ASSUME PageInv, NEW v \in Sockets, Close(v), NEW w \in Sockets,
         state'[w] = "connecting"
  PROVE  state[w] \in {"connecting", "none"} /\ w # v
  <1>1. v \in Nat /\ w \in Nat
    BY CallAssumption DEF Sockets
  <1>2. v < MaxSockets => v + 1 \in Sockets /\ v + 1 # v
    BY CallAssumption DEF Sockets
  <1>3. v = ws1 /\ v < MaxSockets => state[v + 1] = "none"
    BY <1>1, <1>2 DEF PageInv, PageTypes, SocketInv
  <1>4. QED
    BY <1>1, <1>2, <1>3 DEF Close, PageInv, PageTypes

\* The listeners of the calls on an open websocket wait for an answer each: a
\* websocket that closes gets none, and one that opens starts anew.
LEMMA NextWaitInv == PageInv /\ WaitInv /\ [Next]_vars => WaitInv'
  <1> SUFFICES ASSUME PageInv, WaitInv, [Next]_vars,
                      NEW w \in Sockets, state'[w] # "closed"
               PROVE  ToSet(listeners'[w]) \ orphans' \subseteq ToSet(asked'[w])
    BY DEF WaitInv
  <1>1. PageTypes /\ SocketInv
    BY DEF PageInv
  <1> DEFINE Waits == ToSet(listeners[w]) \ orphans \subseteq ToSet(asked[w])
  <1>2. CASE Call \/ CallThrows
    <2>1. state[w] # "closed" /\ Waits
      BY <1>2 DEF Call, CallThrows, Listen, WaitInv
    <2>2. CASE w # ws1
      BY <1>1, <1>2, <2>1, <2>2 DEF Call, CallThrows, Listen, PageTypes
    <2>3. /\ calls + 1 \in Calls /\ listeners[w] \in Seq(Calls)
          /\ asked[w] \in Seq(Calls \cup {Greeting})
      BY <1>1, <1>2, CallFacts DEF PageTypes
    <2>4. CASE w = ws1 /\ Call
      <3>1. state[w] = "open"
        BY <1>1, <2>1, <2>4 DEF Call, PageTypes, SocketInv
      <3>2. /\ listeners'[w] = Append(listeners[w], calls + 1)
            /\ asked'[w] = Append(asked[w], calls + 1)
            /\ orphans' = orphans
        BY <1>1, <2>4, <3>1 DEF Call, Listen, PageTypes
      <3>3. QED
        BY <2>1, <2>3, <3>2, AppendToSet
    <2>5. CASE w = ws1 /\ CallThrows
      <3>1. /\ listeners'[w] = Append(listeners[w], calls + 1)
            /\ asked'[w] = asked[w]
            /\ orphans' = orphans \cup {calls + 1}
        BY <1>1, <2>5 DEF CallThrows, Listen, PageTypes
      <3>2. QED
        BY <2>1, <2>3, <3>1, AppendToSet
    <2>6. QED
      BY <1>2, <2>2, <2>4, <2>5
  <1>3. ASSUME NEW v \in Sockets, Open(v)
        PROVE  ToSet(listeners'[w]) \ orphans' \subseteq ToSet(asked'[w])
    <2>1. Waits
      BY <1>1, <1>3 DEF Open, WaitInv, PageTypes
    <2>2. /\ listeners'[w] = listeners[w] /\ orphans' = orphans
          /\ asked'[w] \in {asked[w], Append(asked[w], Greeting)}
      BY <1>1, <1>3 DEF Open, PageTypes
    <2>3. asked[w] \in Seq(Calls \cup {Greeting})
      BY <1>1 DEF PageTypes
    <2>4. ToSet(asked[w]) \subseteq ToSet(asked'[w])
      <3>1. ToSet(Append(asked[w], Greeting)) = ToSet(asked[w]) \cup {Greeting}
        BY <2>3, AppendToSet
      <3>2. QED
        BY <2>2, <3>1
    <2>5. QED
      BY <2>1, <2>2, <2>4
  <1>4. ASSUME NEW v \in Sockets, Close(v)
        PROVE  ToSet(listeners'[w]) \ orphans' \subseteq ToSet(asked'[w])
    <2>1. w # v
      BY <1>1, <1>4 DEF Close, PageTypes
    <2>2. /\ listeners'[w] = listeners[w] /\ orphans' = orphans
          /\ asked'[w] = asked[w]
      BY <1>1, <1>4, <2>1 DEF Close, PageTypes
    <2>3. state[w] # "closed"
      <3>1. CASE state'[w] = "connecting"
        BY <1>4, <3>1, NextSocket
      <3>2. CASE state'[w] # "connecting"
        BY <1>1, <1>4, <2>1, <3>2 DEF Close, PageTypes
      <3>3. QED
        BY <3>1, <3>2
    <2>4. QED
      BY <2>2, <2>3 DEF WaitInv
  <1>5. ASSUME NEW v \in Sockets, Message(v)
        PROVE  ToSet(listeners'[w]) \ orphans' \subseteq ToSet(asked'[w])
    <2>1. CASE w = v
      <3>1. listeners'[w] = <<>>
        BY <1>1, <1>5, <2>1 DEF Message, PageTypes
      <3>2. QED
        BY <3>1 DEF ToSet
    <2>2. CASE w # v
      BY <1>1, <1>5, <2>2 DEF Message, PageTypes, WaitInv
    <2>3. QED
      BY <2>1, <2>2
  <1>6. CASE UNCHANGED vars
    BY <1>6 DEF vars, WaitInv
  <1>7. QED
    BY <1>2, <1>3, <1>4, <1>5, <1>6 DEF Next, Quiet

-----------------------------------------------------------------------------

\* What an answer does to a page that waits for one thing: the greeting's calls
\* nothing, a call's calls its own handler.
LEMMA PatientMessage ==
  ASSUME PageInv, NEW v \in Sockets, Message(v), Patient(v)
  PROVE  \/ UNCHANGED delivered
         \/ /\ calls \in Calls /\ delivered[calls] = <<>>
            /\ delivered' = [delivered EXCEPT
                              ![calls] = <<[answer |-> calls, reader |-> calls]>>]
  <1>1. /\ delivered \in [Calls -> Seq([answer : Calls \cup {Greeting},
                                        reader : Calls])]
        /\ callback = calls
    BY DEF PageInv, PageTypes
  <1>2. PICK order \in Readings(listeners[v]) :
          LET new == [i \in DOMAIN order |->
                        [answer |-> Head(asked[v]),
                         reader |-> listeners[v][order[i]]]]
          IN  /\ new \in Seq([answer : Calls \cup {Greeting}, reader : Calls])
              /\ DOMAIN new = DOMAIN order
              /\ delivered' = [c \in Calls |->
                                 IF c # callback THEN delivered[c]
                                 ELSE delivered[c] \o new]
    BY MessageFacts
  <1> DEFINE new == [i \in DOMAIN order |-> [answer |-> Head(asked[v]),
                                            reader |-> listeners[v][order[i]]]]
  <1>3. PICK n \in 0 .. Len(listeners[v]) :
          order \in [1 .. n -> DOMAIN listeners[v]]
    BY DEF Readings
  <1>4. CASE listeners[v] = <<>>
    <2>1. n = 0 /\ DOMAIN order = {}
      BY <1>3, <1>4
    <2>2. new = <<>>
      BY <1>2, <2>1
    <2>3. \A c \in Calls : delivered[c] \o new = delivered[c]
      BY <1>1, <2>2
    <2>4. QED
      BY <1>1, <1>2, <2>3
  <1>5. CASE /\ listeners[v] = <<calls>> /\ asked[v] = <<calls>>
             /\ calls \in Calls /\ delivered[calls] = <<>>
    <2>1. Len(listeners[v]) = 1 /\ DOMAIN listeners[v] = {1}
          /\ listeners[v][1] = calls /\ Head(asked[v]) = calls
      BY <1>5
    <2>2. CASE n = 0
      <3>1. new = <<>>
        BY <1>2, <1>3, <2>2
      <3>2. \A c \in Calls : delivered[c] \o new = delivered[c]
        BY <1>1, <3>1
      <3>3. QED
        BY <1>1, <1>2, <3>2
    <2>3. CASE n = 1
      <3>1. DOMAIN order = {1} /\ order[1] = 1
        BY <1>3, <2>1, <2>3
      <3>2. new = <<[answer |-> calls, reader |-> calls]>>
        BY <1>2, <2>1, <3>1
      <3>3. delivered[calls] \o new = new
        BY <1>2, <1>5
      <3>4. delivered' = [delivered EXCEPT ![calls] = new]
        BY <1>1, <1>2, <1>5, <3>3
      <3>5. QED
        BY <1>5, <3>2, <3>4
    <2>4. QED
      BY <1>3, <2>1, <2>2, <2>3
  <1>6. QED
    BY <1>4, <1>5 DEF Message, Patient

\* As long as no call overlaps, an open websocket waits for one thing at a time,
\* and a call for the answer that comes next.
LEMMA NextPatientInv == PageInv /\ PatientInv /\ [Next]_vars => PatientInv'
  <1> SUFFICES ASSUME PageInv, PatientInv, [Next]_vars, ~overlapped'
               PROVE  /\ \A w \in Sockets :
                           state'[w] = "connecting" => listeners'[w] = <<>>
                      /\ \A w \in Sockets : state'[w] = "open" => Patient(w)'
                      /\ \A c \in Calls : c > calls' => delivered'[c] = <<>>
                      /\ RightAnswer'
    BY DEF PatientInv
  <1>1. PageTypes /\ SocketInv
    BY DEF PageInv
  <1>2. MaxCalls \in Nat /\ calls \in Nat /\ \A c \in Calls : c \in Nat
    BY <1>1, CallAssumption DEF PageTypes, Calls
  <1>3. ~overlapped
    BY DEF Next, Call, CallThrows, Listen, Open, Close, Message, Quiet, vars
  <1>4. /\ \A w \in Sockets : state[w] = "connecting" => listeners[w] = <<>>
        /\ \A w \in Sockets : state[w] = "open" => Patient(w)
        /\ \A c \in Calls : c > calls => delivered[c] = <<>>
        /\ RightAnswer
    BY <1>3 DEF PatientInv
  <1>5. CASE Call \/ CallThrows
    <2>1. /\ state[ws1] = "open" /\ asked[ws1] = <<>> /\ ws1 \in Sockets
          /\ ToSet(listeners[ws1]) \cap orphans = {}
      BY <1>1, <1>5 DEF Call, CallThrows, Listen, PageTypes
    <2>2. listeners[ws1] = <<>>
      <3>1. listeners[ws1] = <<calls>> => calls \in ToSet(listeners[ws1])
        BY DEF ToSet
      <3>2. QED
        BY <1>4, <2>1, <3>1 DEF Patient
    <2>3. /\ calls' = calls + 1 /\ calls + 1 \in Calls
          /\ listeners' = [listeners EXCEPT ![ws1] = <<calls + 1>>]
          /\ UNCHANGED <<state, delivered>>
          /\ \/ /\ asked' = [asked EXCEPT ![ws1] = <<calls + 1>>]
                /\ UNCHANGED orphans
             \/ UNCHANGED asked /\ orphans' = orphans \cup {calls + 1}
      <3>1. Append(<<>>, calls + 1) = <<calls + 1>>
        BY OneElement
      <3>2. QED
        <4>1. /\ calls' = calls + 1 /\ calls + 1 \in Calls
              /\ listeners' = [listeners EXCEPT ![ws1] = <<calls + 1>>]
              /\ UNCHANGED <<state, delivered>>
          BY <1>5, <2>2, <3>1, CallFacts
        <4>2. CASE Call
          BY <2>1, <3>1, <4>1, <4>2 DEF Call
        <4>3. CASE CallThrows
          BY <4>1, <4>3 DEF CallThrows
        <4>4. QED
          BY <1>5, <4>2, <4>3
    <2>4. \A c \in Calls : c > calls' => delivered'[c] = <<>>
      BY <1>2, <1>4, <2>3
    <2>5. RightAnswer'
      BY <1>3, <1>4, <2>3 DEF RightAnswer
    <2>6. \A w \in Sockets : w # ws1 => state[w] # "open"
      BY <1>1, <1>5, OneOpen
    <2>7. delivered'[calls + 1] = <<>>
      BY <1>2, <1>4, <2>3
    <2>8. Patient(ws1)'
      <3>1. listeners'[ws1] = <<calls'>> /\ calls' \in Calls
        BY <1>1, <2>1, <2>3 DEF PageTypes
      <3>2. \/ asked'[ws1] = <<calls'>> /\ delivered'[calls'] = <<>>
            \/ asked'[ws1] = <<>> /\ calls' \in orphans'
        BY <1>1, <2>1, <2>3, <2>7 DEF PageTypes
      <3>3. ws1' = ws1
        BY <1>5 DEF Call, CallThrows, Listen
      <3>4. QED
        BY <3>1, <3>2, <3>3 DEF Patient
    <2>9. \A w \in Sockets : state'[w] = "open" => Patient(w)'
      <3>1. ws1' = ws1
        BY <1>5 DEF Call, CallThrows, Listen
      <3>2. QED
        BY <2>3, <2>6, <2>8, <3>1 DEF Patient
    <2>10. \A w \in Sockets : state'[w] = "connecting" => listeners'[w] = <<>>
      BY <1>1, <1>4, <2>1, <2>3 DEF PageTypes
    <2>11. QED
      BY <2>4, <2>5, <2>9, <2>10
  <1>6. ASSUME NEW v \in Sockets, Open(v)
        PROVE  /\ \A w \in Sockets :
                    state'[w] = "connecting" => listeners'[w] = <<>>
               /\ \A w \in Sockets : state'[w] = "open" => Patient(w)'
               /\ \A c \in Calls : c > calls' => delivered'[c] = <<>>
               /\ RightAnswer'
    <2>1. /\ state[v] = "connecting" /\ listeners[v] = <<>> /\ asked[v] = <<>>
          /\ state' = [state EXCEPT ![v] = "open"]
          /\ asked' \in {asked, [asked EXCEPT ![v] = <<Greeting>>]}
          /\ UNCHANGED <<calls, callback, listeners, orphans, delivered,
                         overlapped>>
      <3>1. Append(<<>>, Greeting) = <<Greeting>>
        BY OneElement
      <3>2. QED
        BY <1>1, <1>4, <1>6, <3>1 DEF Open, SocketInv
    <2>2. Patient(v)'
      BY <1>1, <2>1 DEF Patient, PageTypes
    <2>3. \A w \in Sockets : w # v /\ Patient(w) => Patient(w)'
      BY <1>1, <2>1 DEF Patient, PageTypes
    <2>4. QED
      BY <1>1, <1>4, <2>1, <2>2, <2>3 DEF PageTypes, RightAnswer
  <1>7. ASSUME NEW v \in Sockets, Close(v)
        PROVE  /\ \A w \in Sockets :
                    state'[w] = "connecting" => listeners'[w] = <<>>
               /\ \A w \in Sockets : state'[w] = "open" => Patient(w)'
               /\ \A c \in Calls : c > calls' => delivered'[c] = <<>>
               /\ RightAnswer'
    <2>1. /\ state[v] \in {"connecting", "open"}
          /\ asked' = [asked EXCEPT ![v] = <<>>]
          /\ UNCHANGED <<calls, callback, listeners, orphans, delivered,
                         overlapped>>
      BY <1>7 DEF Close
    <2>2. \A w \in Sockets : state'[w] = "connecting" =>
            state[w] \in {"connecting", "none"}
      BY <1>1, <1>7, NextSocket
    <2>3. \A w \in Sockets : state'[w] = "open" => w # v /\ state[w] = "open"
      BY <1>1, <1>7 DEF Close, PageTypes
    <2>4. \A w \in Sockets : w # v /\ Patient(w) => Patient(w)'
      BY <1>1, <2>1 DEF Patient, PageTypes
    <2>5. QED
      BY <1>1, <1>4, <2>1, <2>2, <2>3, <2>4 DEF SocketInv, RightAnswer
  <1>8. ASSUME NEW v \in Sockets, Message(v)
        PROVE  /\ \A w \in Sockets :
                    state'[w] = "connecting" => listeners'[w] = <<>>
               /\ \A w \in Sockets : state'[w] = "open" => Patient(w)'
               /\ \A c \in Calls : c > calls' => delivered'[c] = <<>>
               /\ RightAnswer'
    <2>1. /\ state[v] = "open" /\ Patient(v) /\ asked[v] # <<>>
          /\ asked' = [asked EXCEPT ![v] = Tail(@)]
          /\ listeners' = [listeners EXCEPT ![v] = <<>>]
          /\ UNCHANGED <<state, calls, callback, overlapped>>
      BY <1>4, <1>8 DEF Message
    <2>2. asked'[v] = <<>> /\ listeners'[v] = <<>>
      <3>1. \E a : asked[v] = <<a>>
        BY <2>1 DEF Patient
      <3>2. asked'[v] = Tail(asked[v]) /\ listeners'[v] = <<>>
        BY <1>1, <2>1 DEF PageTypes
      <3>3. QED
        BY <3>1, <3>2, OneElement
    <2>3. \A w \in Sockets : w # v => state[w] # "open"
      BY <1>1, <2>1, OneOpen
    <2>4. \/ UNCHANGED delivered
          \/ /\ calls \in Calls /\ delivered[calls] = <<>>
             /\ delivered' = [delivered EXCEPT
                               ![calls] = <<[answer |-> calls, reader |-> calls]>>]
      BY <1>8, <2>1, PatientMessage DEF PageInv
    <2>5. \A c \in Calls : c > calls' => delivered'[c] = <<>>
      BY <1>1, <1>2, <1>4, <2>1, <2>4 DEF PageTypes
    <2>6. RightAnswer'
      <3>1. \A c \in Calls :
              \/ delivered'[c] = delivered[c]
              \/ delivered'[c] = <<[answer |-> c, reader |-> c]>>
        BY <1>1, <2>4 DEF PageTypes
      <3>2. \A c \in Calls :
              /\ \A i \in DOMAIN delivered[c] :
                   delivered[c][i] = [answer |-> c, reader |-> c]
              /\ Len(delivered[c]) <= 1
        BY <1>3, <1>4 DEF RightAnswer
      <3>3. ASSUME NEW c \in Calls,
                   delivered'[c] = <<[answer |-> c, reader |-> c]>>
            PROVE  /\ \A i \in DOMAIN delivered'[c] :
                        delivered'[c][i] = [answer |-> c, reader |-> c]
                   /\ Len(delivered'[c]) <= 1
        BY <3>3
      <3>4. QED
        BY <3>1, <3>2, <3>3 DEF RightAnswer
    <2>7. Patient(v)'
      BY <2>2 DEF Patient
    <2>8. QED
      BY <1>1, <1>4, <2>1, <2>2, <2>3, <2>5, <2>6, <2>7 DEF PageTypes
  <1>9. CASE UNCHANGED vars
    BY <1>4, <1>9 DEF vars, Patient, RightAnswer
  <1>10. QED
    BY <1>5, <1>6, <1>7, <1>8, <1>9 DEF Next, Quiet

-----------------------------------------------------------------------------

\* What holds of a new page.
LEMMA InitPage == PageInit => PageInv /\ ListenerInv /\ WaitInv /\ PatientInv
  <1> SUFFICES ASSUME PageInit
               PROVE  PageInv /\ ListenerInv /\ WaitInv /\ PatientInv
    OBVIOUS
  <1>1. 1 \in Sockets /\ MaxCalls \in Nat /\ MaxSockets \in Nat
    BY CallAssumption DEF Sockets
  <1>2. PageTypes
    <2>1. <<>> \in Seq(Calls) /\ <<>> \in Seq(Calls \cup {Greeting})
          /\ <<>> \in Seq([answer : Calls \cup {Greeting}, reader : Calls])
      OBVIOUS
    <2>2. state \in [Sockets -> {"none", "connecting", "open", "closed"}]
      BY DEF PageInit
    <2>4. ws1 \in Sockets /\ calls \in 0 .. MaxCalls /\ callback = calls
      BY <1>1 DEF PageInit
    <2>5. orphans \in SUBSET Calls /\ overlapped \in BOOLEAN
      BY DEF PageInit
    <2>3. QED
      BY <2>1, <2>2, <2>4, <2>5 DEF PageInit, PageTypes
  <1>7. SocketInv
    BY <1>1 DEF PageInit, SocketInv, Sockets
  <1>3. ListenerInv
    BY DEF PageInit, ListenerInv, ReadOnce
  <1>4. WaitInv
    BY DEF PageInit, WaitInv, ToSet
  <1>5. PatientInv
    BY DEF PageInit, PatientInv, RightAnswer
  <1>6. QED
    BY <1>2, <1>3, <1>4, <1>5, <1>7 DEF PageInv

\* A page that makes its calls one after the other, on an open websocket, gets
\* the answer to each in its own handler and at most once, whatever closes.
THEOREM PatientGetsRight == PageSpec => []RightAnswer
  <1>1. PatientInv => RightAnswer
    BY DEF PatientInv, RightAnswer
  <1>2. QED
    BY <1>1, InitPage, NextPageInv, NextPatientInv, PTL DEF PageSpec

\* However calls overlap, each listener reads one answer at most, and one that
\* still listens on an open websocket has an answer to wait for.
THEOREM OneReadingPerCall == PageSpec => []CalledOncePerCall
  <1>1. ListenerInv /\ WaitInv => CalledOncePerCall
    BY DEF ListenerInv, WaitInv, ReadOnce, CalledOncePerCall
  <1>2. QED
    BY <1>1, InitPage, NextPageInv, NextListenerInv, NextWaitInv, PTL
    DEF PageSpec
=============================================================================
