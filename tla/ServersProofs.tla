---------------------------- MODULE ServersProofs ----------------------------
(***************************************************************************)
(* Proofs about Servers, for any number of processes, acceptors, ports and *)
(* sockets: who gives up a port, and what the counter of connections is.   *)
(***************************************************************************)
EXTENDS Servers, FiniteSetTheorems, TLAPS

\* The coroutines of a process that was never started have not run.
AcceptorInv ==
  /\ phase \in [Processes -> {"none", "running", "stopped", "ended"}]
  /\ acceptor \in [Processes -> [Acceptors -> {"spawned", "opened", "bound",
                                               "accepting", "accepted",
                                               "ended"}]]
  /\ \A s \in Processes, a \in Acceptors :
       phase[s] = "none" => acceptor[s][a] = "spawned"

\* Who listens has listened.
ListenInv ==
  /\ AcceptorInv /\ GivesUpToListener
  /\ \A t \in Processes, b \in Acceptors :
       Listens(t, b) => <<t, b>> \in listened

\* A coroutine of accept goes from one place to another.
LEMMA GotoFacts ==
  ASSUME AcceptorInv, NEW s \in Processes, NEW a \in Acceptors,
         NEW there \in {"spawned", "opened", "bound", "accepting", "accepted",
                        "ended"},
         Goto(s, a, there)
  PROVE  /\ acceptor' \in [Processes -> [Acceptors -> {"spawned", "opened",
                             "bound", "accepting", "accepted", "ended"}]]
         /\ acceptor'[s][a] = there
         /\ \A t \in Processes, b \in Acceptors :
              <<t, b>> # <<s, a>> => acceptor'[t][b] = acceptor[t][b]
  BY DEF AcceptorInv, Goto

\* Whoever gives up has a reason that stays one, and who listens has begun to.
LEMMA GiveUpStep ==
  ASSUME ListenInv, AcceptorInv',
         short \subseteq short', listened \subseteq listened',
         \A t \in Processes, b \in Acceptors :
           Listens(t, b)' => Listens(t, b) \/ <<t, b>> \in listened',
         \A t \in Processes, b \in Acceptors :
           Lives(t)' /\ acceptor'[t][b] = "ended" =>
             \/ Lives(t) /\ acceptor[t][b] = "ended"
             \/ <<t, b>> \in short'
             \/ \E u \in Processes, c \in Acceptors :
                  /\ Port[u][c] = Port[t][b]
                  /\ Listens(u, c) /\ <<u, c>> # <<t, b>>
  PROVE  ListenInv'
  <1>1. \A t \in Processes, b \in Acceptors :
          Listens(t, b)' => <<t, b>> \in listened'
    BY DEF ListenInv
  <1>2. ASSUME NEW s \in Processes, NEW a \in Acceptors,
               Lives(s)', acceptor'[s][a] = "ended", <<s, a>> \notin short'
        PROVE  \E t \in Processes, b \in Acceptors :
                 /\ Port[t][b] = Port[s][a]
                 /\ <<t, b>> \in listened' \ {<<s, a>>}
    <2>1. CASE Lives(s) /\ acceptor[s][a] = "ended"
      <3>1. PICK t \in Processes, b \in Acceptors :
              /\ Port[t][b] = Port[s][a]
              /\ <<t, b>> \in listened \ {<<s, a>>}
        BY <1>2, <2>1 DEF ListenInv, GivesUpToListener
      <3>2. QED
        BY <3>1
    <2>2. CASE \E u \in Processes, c \in Acceptors :
                 /\ Port[u][c] = Port[s][a]
                 /\ Listens(u, c) /\ <<u, c>> # <<s, a>>
      BY <2>2 DEF ListenInv
    <2>3. QED
      BY <1>2, <2>1, <2>2
  <1>3. GivesUpToListener'
    BY <1>2 DEF GivesUpToListener
  <1>4. QED
    BY <1>1, <1>3 DEF ListenInv

\* Every step of an acceptor keeps it.
LEMMA AcceptorStep ==
  ASSUME ListenInv, NEW s \in Processes, NEW a \in Acceptors,
         Open(s, a) \/ Bind(s, a) \/ Listen(s, a) \/ Accept(s, a)
           \/ AcceptFails(s, a) \/ Serve(s, a)
  PROVE  ListenInv'
  <1>1. AcceptorInv
    BY DEF ListenInv
  <1>2. /\ phase' = phase /\ Lives(s)
        /\ \E there \in {"opened", "bound", "accepting", "accepted", "ended"} :
             Goto(s, a, there)
        /\ short \subseteq short' /\ listened \subseteq listened'
    BY DEF Open, Bind, Listen, Accept, AcceptFails, Serve, Begins, Lives,
           history
  <1>3. AcceptorInv'
    BY <1>1, <1>2, GotoFacts DEF AcceptorInv, Lives
  <1>4. \A t \in Processes, b \in Acceptors :
          <<t, b>> # <<s, a>> => acceptor'[t][b] = acceptor[t][b]
    BY <1>1, <1>2, GotoFacts
  <1>5. /\ Listens(s, a)' => Listens(s, a) \/ <<s, a>> \in listened'
        /\ acceptor'[s][a] = "ended" =>
             \/ <<s, a>> \in short'
             \/ Taken(Port[s][a]) /\ acceptor[s][a] \in {"opened", "bound"}
    <2>1. CASE Open(s, a)
      <3>1. CASE Goto(s, a, "opened")
        <4>1. acceptor'[s][a] = "opened"
          BY <1>1, <3>1, GotoFacts
        <4>2. QED
          BY <4>1 DEF Listens
      <3>2. CASE Goto(s, a, "ended") /\ short' = short \cup {<<s, a>>}
        <4>1. acceptor'[s][a] = "ended"
          BY <1>1, <3>2, GotoFacts
        <4>2. QED
          BY <3>2, <4>1 DEF Listens
      <3>3. QED
        BY <2>1, <3>1, <3>2 DEF Open
    <2>2. CASE Bind(s, a)
      <3>1. /\ acceptor[s][a] = "opened"
            /\ acceptor'[s][a] = IF Taken(Port[s][a]) THEN "ended" ELSE "bound"
        BY <1>1, <2>2, GotoFacts DEF Bind
      <3>2. QED
        BY <3>1 DEF Listens
    <2>3. CASE Listen(s, a)
      <3>1. acceptor[s][a] = "bound"
        BY <2>3 DEF Listen
      <3>2. CASE Taken(Port[s][a])
        <4>1. acceptor'[s][a] = "ended"
          BY <1>1, <2>3, <3>2, GotoFacts DEF Listen
        <4>2. QED
          BY <3>1, <3>2, <4>1 DEF Listens
      <3>3. CASE ~Taken(Port[s][a])
        <4>1. acceptor'[s][a] = "accepting" /\ <<s, a>> \in listened'
          BY <1>1, <2>3, <3>3, GotoFacts DEF Listen
        <4>2. QED
          BY <4>1
      <3>4. QED
        BY <3>2, <3>3
    <2>4. CASE Accept(s, a) \/ Serve(s, a)
      <3>1. /\ acceptor[s][a] \in {"accepting", "accepted"}
            /\ acceptor'[s][a] \in {"accepting", "accepted"}
        BY <1>1, <2>4, GotoFacts DEF Accept, Serve
      <3>2. QED
        BY <1>2, <3>1 DEF Listens
    <2>5. CASE AcceptFails(s, a)
      <3>1. acceptor'[s][a] = "ended" /\ <<s, a>> \in short'
        BY <1>1, <2>5, GotoFacts DEF AcceptFails
      <3>2. QED
        BY <3>1 DEF Listens
    <2>6. QED
      BY <2>1, <2>2, <2>3, <2>4, <2>5
  <1>6. Taken(Port[s][a]) /\ acceptor[s][a] \in {"opened", "bound"} =>
          \E u \in Processes, c \in Acceptors :
            /\ Port[u][c] = Port[s][a]
            /\ Listens(u, c) /\ <<u, c>> # <<s, a>>
    BY DEF Taken, Listens
  <1>7. \A t \in Processes, b \in Acceptors :
          Listens(t, b)' => Listens(t, b) \/ <<t, b>> \in listened'
    BY <1>2, <1>4, <1>5 DEF Listens, Lives
  <1>8. \A t \in Processes, b \in Acceptors :
          Lives(t)' /\ acceptor'[t][b] = "ended" =>
            \/ Lives(t) /\ acceptor[t][b] = "ended"
            \/ <<t, b>> \in short'
            \/ \E u \in Processes, c \in Acceptors :
                 /\ Port[u][c] = Port[t][b]
                 /\ Listens(u, c) /\ <<u, c>> # <<t, b>>
    BY <1>2, <1>4, <1>5, <1>6 DEF Lives
  <1>9. QED
    BY <1>2, <1>3, <1>7, <1>8, GiveUpStep

\* Every step keeps it.
LEMMA NextListenInv == ListenInv /\ [Next]_vars => ListenInv'
  <1> SUFFICES ASSUME ListenInv, [Next]_vars PROVE ListenInv'
    OBVIOUS
  <1>1. AcceptorInv
    BY DEF ListenInv
  <1>2. ASSUME AcceptorInv', short' = short, listened' = listened,
               \A t \in Processes, b \in Acceptors :
                 Listens(t, b)' => Listens(t, b),
               \A t \in Processes, b \in Acceptors :
                 Lives(t)' /\ acceptor'[t][b] = "ended" =>
                   Lives(t) /\ acceptor[t][b] = "ended"
        PROVE  ListenInv'
    BY <1>2, GiveUpStep
  <1>3. ASSUME NEW s \in Processes, NEW t \in Processes, SpawnServer(s, t)
        PROVE  ListenInv'
    <2>1. /\ phase[t] = "none" /\ phase' = [phase EXCEPT ![t] = "running"]
          /\ acceptor' = acceptor /\ short' = short /\ listened' = listened
      BY <1>3 DEF SpawnServer, history
    <2>2. AcceptorInv'
      BY <1>1, <2>1 DEF AcceptorInv
    <2>3. \A u \in Processes, b \in Acceptors :
            /\ Listens(u, b)' => Listens(u, b)
            /\ Lives(u)' /\ acceptor'[u][b] = "ended" =>
                 Lives(u) /\ acceptor[u][b] = "ended"
      BY <1>1, <2>1 DEF AcceptorInv, Listens, Lives
    <2>4. QED
      BY <1>2, <2>1, <2>2, <2>3
  <1>4. ASSUME NEW s \in Processes, Stop(s) PROVE ListenInv'
    <2>1. /\ phase[s] = "running" /\ phase' = [phase EXCEPT ![s] = "stopped"]
          /\ acceptor' = acceptor /\ short' = short /\ listened' = listened
      BY <1>4 DEF Stop, Begins, history
    <2>2. AcceptorInv'
      BY <1>1, <2>1 DEF AcceptorInv
    <2>3. \A u \in Processes : Lives(u)' => Lives(u)
      BY <1>1, <2>1 DEF AcceptorInv, Lives
    <2>4. QED
      BY <1>2, <2>1, <2>2, <2>3 DEF Listens
  <1>5. ASSUME NEW s \in Processes, EndStopped(s) PROVE ListenInv'
    <2>1. /\ phase' = [phase EXCEPT ![s] = "ended"]
          /\ short' = short /\ listened' = listened
          /\ acceptor' = [acceptor EXCEPT ![s] = [a \in Acceptors |-> "ended"]]
      BY <1>5 DEF EndStopped, End, history
    <2>2. AcceptorInv'
      BY <1>1, <2>1 DEF AcceptorInv
    <2>3. /\ phase'[s] = "ended"
          /\ \A u \in Processes : u # s =>
               phase'[u] = phase[u] /\ acceptor'[u] = acceptor[u]
      BY <1>1, <2>1 DEF AcceptorInv
    <2>4. \A u \in Processes, b \in Acceptors :
            /\ Listens(u, b)' => Listens(u, b)
            /\ Lives(u)' /\ acceptor'[u][b] = "ended" =>
                 Lives(u) /\ acceptor[u][b] = "ended"
      BY <2>3 DEF Listens, Lives
    <2>5. QED
      BY <1>2, <2>1, <2>2, <2>4
  <1>6. ASSUME UNCHANGED <<phase, acceptor, history>> PROVE ListenInv'
    BY <1>1, <1>2, <1>6 DEF AcceptorInv, Listens, Lives, history
  <1>7. QED
    BY <1>3, <1>4, <1>5, <1>6, AcceptorStep
    DEF Next, Destroy, AllEnded, vars, history

LEMMA InitListenInv == Init => ListenInv
  BY ServersAssumption
  DEF Init, ListenInv, AcceptorInv, GivesUpToListener, Listens

\* Whatever the ports are, the processes that are started, and when: those that
\* bind a port together do not all give it up to each other, but to one that
\* listened on it, or for want of a descriptor.
THEOREM PortGoesToOne == Spec => []GivesUpToListener
  <1>1. Init => ListenInv
    BY InitListenInv
  <1>2. ListenInv => GivesUpToListener
    BY DEF ListenInv
  <1>3. QED
    BY <1>1, <1>2, NextListenInv, PTL DEF Spec

-----------------------------------------------------------------------------
(* The counter of connections.                                             *)

Reported(s) == Each([a \in Reporting |-> Served(s, a)])

CountTypes ==
  /\ live \in [Processes -> [Acceptors -> Nat]]
  /\ connections \in [Processes -> Int]
  /\ failed \in [Processes -> Int]
  /\ \A s \in Processes, a \in Acceptors :
       acceptor[s][a] = "accepted" => live[s][a] > 0

\* The counter of a process never started is that of one that serves nobody;
\* there are finitely many connections to count.
CountInv ==
  /\ AcceptorInv /\ CountTypes
  /\ \A s \in Processes : phase[s] = "none" =>
       /\ connections[s] + failed[s] = 0
       /\ \A a \in Acceptors : live[s][a] = 0
  /\ \A s \in Processes : Lives(s) => IsFiniteSet(Reported(s))
  /\ CountShortByFailedAccepts

\* One more of one kind is one more.
LEMMA EachStep ==
  ASSUME NEW f, NEW g, DOMAIN g = DOMAIN f, NEW a \in DOMAIN f, f[a] \in Nat,
         g[a] = f[a] + 1, \A b \in DOMAIN f : b # a => g[b] = f[b]
  PROVE  /\ IsFiniteSet(Each(f)) <=> IsFiniteSet(Each(g))
         /\ IsFiniteSet(Each(f)) =>
              Cardinality(Each(g)) = Cardinality(Each(f)) + 1
  <1> DEFINE x == <<a, f[a] + 1>>
  <1>1. (1 .. g[a]) = (1 .. f[a]) \cup {f[a] + 1}
    OBVIOUS
  <1>2. ASSUME NEW h, DOMAIN h = DOMAIN f, NEW p
        PROVE  p \in Each(h) <=>
                 \E b \in DOMAIN f : p \in {b} \X (1 .. h[b])
    BY <1>2 DEF Each
  <1>3. Each(g) = Each(f) \cup {x}
    <2>1. ASSUME NEW p PROVE p \in Each(g) <=> p \in Each(f) \/ p = x
      <3>1. ASSUME NEW b \in DOMAIN f, b # a
            PROVE  p \in {b} \X (1 .. g[b]) <=> p \in {b} \X (1 .. f[b])
        BY <3>1
      <3>2. p \in {a} \X (1 .. g[a]) <=> p \in {a} \X (1 .. f[a]) \/ p = x
        BY <1>1
      <3>3. QED
        BY <1>2, <3>1, <3>2
    <2>2. QED
      BY <2>1
  <1>4. x \notin Each(f)
    <2>1. ASSUME NEW b \in DOMAIN f, x \in {b} \X (1 .. f[b]) PROVE FALSE
      BY <2>1
    <2>2. QED
      BY <1>2, <2>1
  <1>5. Each(f) = Each(g) \ {x}
    BY <1>3, <1>4
  <1>6. IsFiniteSet(Each(f)) =>
          /\ IsFiniteSet(Each(g))
          /\ Cardinality(Each(g)) = Cardinality(Each(f)) + 1
    BY <1>3, <1>4, FS_AddElement
  <1>7. IsFiniteSet(Each(g)) => IsFiniteSet(Each(f))
    <2> HIDE DEF x
    <2>1. IsFiniteSet(Each(g)) => IsFiniteSet(Each(g) \ {x})
      BY FS_RemoveElement
    <2>2. QED
      BY <1>5, <2>1
  <1>8. QED
    BY <1>6, <1>7

\* One number of live changes.
LEMMA LiveStep ==
  ASSUME live \in [Processes -> [Acceptors -> Nat]],
         NEW s \in Processes, NEW a \in Acceptors, NEW n \in Nat,
         live' = [live EXCEPT ![s][a] = n]
  PROVE  /\ live' \in [Processes -> [Acceptors -> Nat]]
         /\ live'[s][a] = n
         /\ \A t \in Processes, b \in Acceptors :
              <<t, b>> # <<s, a>> => live'[t][b] = live[t][b]
  <1> DEFINE row == [live[s] EXCEPT ![a] = n]
  <1>1. /\ row \in [Acceptors -> Nat] /\ row[a] = n
        /\ \A b \in Acceptors : b # a => row[b] = live[s][b]
    OBVIOUS
  <1>2. live' = [live EXCEPT ![s] = row]
    OBVIOUS
  <1> HIDE DEF row
  <1>3. QED
    BY <1>1, <1>2

\* What happens to the connections of acceptor a of process s leaves those of
\* the others as they are.
LEMMA ServedElsewhere ==
  ASSUME CountInv, NEW s \in Processes, NEW a \in Acceptors,
         live' \in [Processes -> [Acceptors -> Nat]],
         acceptor' \in [Processes -> [Acceptors -> {"spawned", "opened",
                          "bound", "accepting", "accepted", "ended"}]],
         \A t \in Processes, b \in Acceptors :
           <<t, b>> # <<s, a>> => /\ live'[t][b] = live[t][b]
                                  /\ acceptor'[t][b] = acceptor[t][b],
         acceptor'[s][a] = "accepted" => live'[s][a] > 0
  PROVE  /\ \A t \in Processes : t # s => Reported(t)' = Reported(t)
         /\ a \notin Reporting \/ Served(s, a)' = Served(s, a)
              => Reported(s)' = Reported(s)
         /\ a \in Reporting /\ Served(s, a)' = Served(s, a) + 1
              => /\ IsFiniteSet(Reported(s)) <=> IsFiniteSet(Reported(s))'
                 /\ IsFiniteSet(Reported(s)) =>
                      Cardinality(Reported(s)') = Cardinality(Reported(s)) + 1
         /\ a \in Reporting /\ Served(s, a) = Served(s, a)' + 1
              => /\ IsFiniteSet(Reported(s)) <=> IsFiniteSet(Reported(s))'
                 /\ IsFiniteSet(Reported(s)) =>
                      Cardinality(Reported(s)) = Cardinality(Reported(s)') + 1
  <1>1. \A t \in Processes, b \in Acceptors :
          <<t, b>> # <<s, a>> => Served(t, b)' = Served(t, b)
    BY DEF Served
  <1>2. \A b \in Reporting : b \in Acceptors
    BY ServersAssumption
  <1>3. Served(s, a) \in Nat /\ Served(s, a)' \in Nat
    BY DEF CountInv, CountTypes, Served
  <1> DEFINE f(t) == [b \in Reporting |-> Served(t, b)]
             g(t) == [b \in Reporting |-> Served(t, b)']
  <1>4. \A t \in Processes : Reported(t) = Each(f(t)) /\ Reported(t)' = Each(g(t))
    BY DEF Reported, Each
  <1>5. \A t \in Processes : t # s => g(t) = f(t)
    BY <1>1, <1>2
  <1>6. a \notin Reporting \/ Served(s, a)' = Served(s, a) => g(s) = f(s)
    BY <1>1, <1>2
  <1>7. ASSUME a \in Reporting, Served(s, a)' = Served(s, a) + 1
        PROVE  /\ IsFiniteSet(Reported(s)) <=> IsFiniteSet(Reported(s)')
               /\ IsFiniteSet(Reported(s)) =>
                    Cardinality(Reported(s)') = Cardinality(Reported(s)) + 1
    <2>1. /\ DOMAIN g(s) = DOMAIN f(s) /\ a \in DOMAIN f(s)
          /\ f(s)[a] \in Nat /\ g(s)[a] = f(s)[a] + 1
          /\ \A b \in DOMAIN f(s) : b # a => g(s)[b] = f(s)[b]
      BY <1>1, <1>2, <1>3, <1>7
    <2> HIDE DEF f, g
    <2>2. QED
      BY <1>4, <2>1, EachStep
  <1>8. ASSUME a \in Reporting, Served(s, a) = Served(s, a)' + 1
        PROVE  /\ IsFiniteSet(Reported(s)) <=> IsFiniteSet(Reported(s)')
               /\ IsFiniteSet(Reported(s)) =>
                    Cardinality(Reported(s)) = Cardinality(Reported(s)') + 1
    <2>1. /\ DOMAIN f(s) = DOMAIN g(s) /\ a \in DOMAIN g(s)
          /\ g(s)[a] \in Nat /\ f(s)[a] = g(s)[a] + 1
          /\ \A b \in DOMAIN g(s) : b # a => f(s)[b] = g(s)[b]
      BY <1>1, <1>2, <1>3, <1>8
    <2> HIDE DEF f, g
    <2>2. QED
      BY <1>4, <2>1, EachStep
  <1>9. QED
    BY <1>4, <1>5, <1>6, <1>7, <1>8

\* Every step moves the counter as it moves the connections, or fails.
LEMMA NextCountInv == ListenInv /\ CountInv /\ [Next]_vars => CountInv'
  <1> SUFFICES ASSUME ListenInv, CountInv, [Next]_vars PROVE CountInv'
    OBVIOUS
  <1>1. /\ AcceptorInv /\ CountTypes /\ AcceptorInv'
        /\ \A s \in Processes : phase[s] = "none" =>
             /\ connections[s] + failed[s] = 0
             /\ \A a \in Acceptors : live[s][a] = 0
        /\ \A s \in Processes : Lives(s) => IsFiniteSet(Reported(s))
        /\ \A s \in Processes : Lives(s) =>
             connections[s] + failed[s] = Cardinality(Reported(s))
    BY NextListenInv
    DEF CountInv, ListenInv, CountShortByFailedAccepts, Reported
  <1>2. ASSUME NEW s \in Processes, NEW a \in Acceptors, Lives(s),
               phase' = phase, CountTypes',
               \A t \in Processes, b \in Acceptors :
                 <<t, b>> # <<s, a>> => /\ live'[t][b] = live[t][b]
                                        /\ acceptor'[t][b] = acceptor[t][b],
               \A t \in Processes : t # s =>
                 /\ connections'[t] = connections[t] /\ failed'[t] = failed[t],
               \/ /\ connections'[s] + failed'[s] = connections[s] + failed[s]
                  /\ a \notin Reporting \/ Served(s, a)' = Served(s, a)
               \/ /\ connections'[s] + failed'[s]
                       = connections[s] + failed[s] + 1
                  /\ a \in Reporting /\ Served(s, a)' = Served(s, a) + 1
               \/ /\ connections'[s] + failed'[s]
                       = connections[s] + failed[s] - 1
                  /\ a \in Reporting /\ Served(s, a) = Served(s, a)' + 1
        PROVE  CountInv'
    <2>1. /\ \A t \in Processes : t # s => Reported(t)' = Reported(t)
          /\ a \notin Reporting \/ Served(s, a)' = Served(s, a)
               => Reported(s)' = Reported(s)
          /\ a \in Reporting /\ Served(s, a)' = Served(s, a) + 1
               => /\ IsFiniteSet(Reported(s)) <=> IsFiniteSet(Reported(s))'
                  /\ IsFiniteSet(Reported(s)) =>
                       Cardinality(Reported(s)') = Cardinality(Reported(s)) + 1
          /\ a \in Reporting /\ Served(s, a) = Served(s, a)' + 1
               => /\ IsFiniteSet(Reported(s)) <=> IsFiniteSet(Reported(s))'
                  /\ IsFiniteSet(Reported(s)) =>
                       Cardinality(Reported(s)) = Cardinality(Reported(s)') + 1
      BY <1>1, <1>2, ServedElsewhere DEF CountTypes, AcceptorInv
    <2>2. \A t \in Processes : Lives(t)' <=> Lives(t)
      BY <1>2 DEF Lives
    <2>3. \A t \in Processes : Lives(t)' => IsFiniteSet(Reported(t))'
      BY <1>1, <1>2, <2>1, <2>2
    <2>4. /\ connections[s] + failed[s] = Cardinality(Reported(s))
          /\ connections[s] \in Int /\ failed[s] \in Int
          /\ connections'[s] \in Int /\ failed'[s] \in Int
      BY <1>1, <1>2 DEF CountTypes
    <2>5. Cardinality(Reported(s)') \in Nat
      BY <1>2, <2>2, <2>3, FS_CardinalityType
    <2>6. connections'[s] + failed'[s] = Cardinality(Reported(s)')
      <3>1. CASE /\ connections'[s] + failed'[s] = connections[s] + failed[s]
                 /\ a \notin Reporting \/ Served(s, a)' = Served(s, a)
        BY <2>1, <2>4, <3>1
      <3>2. CASE /\ connections'[s] + failed'[s] = connections[s] + failed[s] + 1
                 /\ a \in Reporting /\ Served(s, a)' = Served(s, a) + 1
        BY <1>1, <1>2, <2>1, <2>4, <3>2
      <3>3. CASE /\ connections'[s] + failed'[s] = connections[s] + failed[s] - 1
                 /\ a \in Reporting /\ Served(s, a) = Served(s, a)' + 1
        <4>1. Cardinality(Reported(s)) = Cardinality(Reported(s)') + 1
          BY <1>1, <1>2, <2>1, <3>3
        <4>2. QED
          BY <2>4, <2>5, <3>3, <4>1
      <3>4. QED
        BY <1>2, <3>1, <3>2, <3>3, Zenon
    <2>7. \A t \in Processes : Lives(t)' =>
            connections'[t] + failed'[t] = Cardinality(Reported(t)')
      BY <1>1, <1>2, <2>1, <2>2, <2>6
    <2>8. \A t \in Processes : phase'[t] = "none" =>
            /\ connections'[t] + failed'[t] = 0
            /\ \A b \in Acceptors : live'[t][b] = 0
      BY <1>1, <1>2 DEF Lives
    <2>9. CountShortByFailedAccepts'
      BY <2>7 DEF CountShortByFailedAccepts, Reported
    <2>10. QED
      BY <1>1, <1>2, <2>3, <2>8, <2>9 DEF CountInv
  <1>3. ASSUME NEW s \in Processes, NEW a \in Acceptors,
               Open(s, a) \/ Bind(s, a) \/ Listen(s, a)
        PROVE  CountInv'
    <2>1. /\ Lives(s) /\ UNCHANGED <<phase, live, connections, failed>>
          /\ acceptor[s][a] # "accepted"
          /\ \E there \in {"opened", "bound", "accepting", "ended"} :
               Goto(s, a, there)
      BY <1>3 DEF Open, Bind, Listen, Begins, Lives
    <2>2. /\ acceptor'[s][a] # "accepted"
          /\ \A t \in Processes, b \in Acceptors :
               <<t, b>> # <<s, a>> => acceptor'[t][b] = acceptor[t][b]
      BY <1>1, <2>1, GotoFacts
    <2>3. CountTypes'
      BY <1>1, <2>1, <2>2 DEF CountTypes
    <2>4. Served(s, a)' = Served(s, a)
      BY <2>1, <2>2 DEF Served
    <2>5. connections'[s] + failed'[s] = connections[s] + failed[s]
      BY <1>1, <2>1 DEF CountTypes
    <2>6. QED
      BY <1>2, <2>1, <2>2, <2>3, <2>4, <2>5
  <1>4. ASSUME NEW s \in Processes, NEW a \in Acceptors, Accept(s, a)
        PROVE  CountInv'
    <2>1. /\ Lives(s) /\ UNCHANGED <<phase, connections, failed>>
          /\ live' = [live EXCEPT ![s][a] = @ + 1]
          /\ acceptor[s][a] = "accepting" /\ Goto(s, a, "accepted")
      BY <1>4 DEF Accept, Begins, Lives
    <2>2. /\ acceptor'[s][a] = "accepted"
          /\ \A t \in Processes, b \in Acceptors :
               <<t, b>> # <<s, a>> => acceptor'[t][b] = acceptor[t][b]
      BY <1>1, <2>1, GotoFacts
    <2>3. /\ live' \in [Processes -> [Acceptors -> Nat]]
          /\ live'[s][a] = live[s][a] + 1 /\ live[s][a] \in Nat
          /\ \A t \in Processes, b \in Acceptors :
               <<t, b>> # <<s, a>> => live'[t][b] = live[t][b]
      BY <1>1, <2>1, LiveStep DEF CountTypes
    <2>4. CountTypes'
      BY <1>1, <2>1, <2>2, <2>3 DEF CountTypes
    <2>5. Served(s, a)' = Served(s, a)
      BY <2>1, <2>2, <2>3 DEF Served
    <2>6. connections'[s] + failed'[s] = connections[s] + failed[s]
      BY <1>1, <2>1 DEF CountTypes
    <2>7. QED
      BY <1>2, <2>1, <2>2, <2>3, <2>4, <2>5, <2>6
  <1>5. ASSUME NEW s \in Processes, NEW a \in Acceptors, AcceptFails(s, a)
        PROVE  CountInv'
    <2>1. /\ Lives(s) /\ UNCHANGED <<phase, live>>
          /\ acceptor[s][a] = "accepting" /\ Goto(s, a, "ended")
          /\ \/ UNCHANGED <<connections, failed>>
             \/ /\ connections' = [connections EXCEPT ![s] = @ - 1]
                /\ failed' = [failed EXCEPT ![s] = @ + 1]
      BY <1>5 DEF AcceptFails, Begins, Lives
    <2>2. /\ acceptor'[s][a] = "ended"
          /\ \A t \in Processes, b \in Acceptors :
               <<t, b>> # <<s, a>> => acceptor'[t][b] = acceptor[t][b]
      BY <1>1, <2>1, GotoFacts
    <2>3. /\ connections' \in [Processes -> Int] /\ failed' \in [Processes -> Int]
          /\ \A t \in Processes : t # s =>
               connections'[t] = connections[t] /\ failed'[t] = failed[t]
          /\ connections'[s] + failed'[s] = connections[s] + failed[s]
      BY <1>1, <2>1 DEF CountTypes
    <2>4. CountTypes'
      BY <1>1, <2>1, <2>2, <2>3 DEF CountTypes
    <2>5. Served(s, a)' = Served(s, a)
      BY <2>1, <2>2 DEF Served
    <2>6. QED
      BY <1>2, <2>1, <2>2, <2>3, <2>4, <2>5
  <1>6. ASSUME NEW s \in Processes, NEW a \in Acceptors, Serve(s, a)
        PROVE  CountInv'
    <2>1. /\ Lives(s) /\ UNCHANGED <<phase, live, failed>>
          /\ acceptor[s][a] = "accepted" /\ Goto(s, a, "accepting")
          /\ connections' =
               [connections EXCEPT ![s] = @ + IF a \in Reporting THEN 1 ELSE 0]
      BY <1>6 DEF Serve
    <2>2. /\ acceptor'[s][a] = "accepting"
          /\ \A t \in Processes, b \in Acceptors :
               <<t, b>> # <<s, a>> => acceptor'[t][b] = acceptor[t][b]
      BY <1>1, <2>1, GotoFacts
    <2>3. /\ connections' \in [Processes -> Int]
          /\ \A t \in Processes : t # s => connections'[t] = connections[t]
          /\ \/ /\ a \in Reporting
                /\ connections'[s] + failed'[s] = connections[s] + failed[s] + 1
             \/ /\ a \notin Reporting
                /\ connections'[s] + failed'[s] = connections[s] + failed[s]
      <3>1. /\ connections \in [Processes -> Int] /\ failed'[s] = failed[s]
            /\ connections[s] \in Int /\ failed[s] \in Int
        BY <1>1, <2>1 DEF CountTypes
      <3>2. CASE a \in Reporting
        <4>1. connections' = [connections EXCEPT ![s] = @ + 1]
          BY <2>1, <3>2
        <4>2. connections'[s] = connections[s] + 1
          BY <3>1, <4>1
        <4>3. QED
          BY <3>1, <3>2, <4>1, <4>2
      <3>3. CASE a \notin Reporting
        BY <2>1, <3>1, <3>3
      <3>4. QED
        BY <3>2, <3>3
    <2>4. CountTypes'
      BY <1>1, <2>1, <2>2, <2>3 DEF CountTypes
    <2>5. Served(s, a)' = Served(s, a) + 1
      BY <1>1, <2>1, <2>2 DEF Served, CountTypes
    <2>6. QED
      BY <1>2, <2>1, <2>2, <2>3, <2>4, <2>5
  <1>7. ASSUME NEW s \in Processes, NEW a \in Acceptors, Destroy(s, a)
        PROVE  CountInv'
    <2>1. /\ Lives(s) /\ UNCHANGED <<phase, acceptor, failed>>
          /\ Served(s, a) > 0 /\ live' = [live EXCEPT ![s][a] = @ - 1]
          /\ connections' =
               [connections EXCEPT ![s] = @ - IF a \in Reporting THEN 1 ELSE 0]
      BY <1>7 DEF Destroy
    <2>2. live[s][a] \in Nat /\ live[s][a] > 0
          /\ (acceptor[s][a] = "accepted" => live[s][a] - 1 > 0)
      BY <1>1, <2>1 DEF Served, CountTypes
    <2>3. /\ live' \in [Processes -> [Acceptors -> Nat]]
          /\ live'[s][a] = live[s][a] - 1
          /\ \A t \in Processes, b \in Acceptors :
               <<t, b>> # <<s, a>> => live'[t][b] = live[t][b]
      BY <1>1, <2>1, <2>2, LiveStep DEF CountTypes
    <2>4. /\ connections' \in [Processes -> Int]
          /\ \A t \in Processes : t # s => connections'[t] = connections[t]
          /\ \/ /\ a \in Reporting
                /\ connections'[s] + failed'[s] = connections[s] + failed[s] - 1
             \/ /\ a \notin Reporting
                /\ connections'[s] + failed'[s] = connections[s] + failed[s]
      BY <1>1, <2>1 DEF CountTypes
    <2>5. CountTypes'
      BY <1>1, <2>1, <2>2, <2>3, <2>4 DEF CountTypes
    <2>6. Served(s, a) = Served(s, a)' + 1
      BY <1>1, <2>1, <2>2, <2>3 DEF Served
    <2>7. QED
      BY <1>2, <2>1, <2>3, <2>4, <2>5, <2>6
  <1>8. ASSUME UNCHANGED <<acceptor, live, connections, failed>>,
               phase' \in [Processes -> {"none", "running", "stopped", "ended"}],
               \A t \in Processes : Lives(t)' => Lives(t) \/ phase[t] = "none",
               \A t \in Processes : phase'[t] = "none" => phase[t] = "none"
        PROVE  CountInv'
    <2>1. \A t \in Processes : Reported(t)' = Reported(t)
      BY <1>8 DEF Reported, Served, Each
    <2>2. ASSUME NEW t \in Processes, phase[t] = "none"
          PROVE  /\ IsFiniteSet(Reported(t))
                 /\ connections[t] + failed[t] = Cardinality(Reported(t))
      <3>1. \A a \in Reporting : Served(t, a) = 0
        BY <1>1, <2>2, ServersAssumption DEF Served, AcceptorInv
      <3>2. Reported(t) = {}
        BY <3>1 DEF Reported, Each
      <3>3. QED
        BY <1>1, <2>2, <3>2, FS_EmptySet
    <2>3. /\ \A t \in Processes : Lives(t)' => IsFiniteSet(Reported(t))'
          /\ \A t \in Processes : Lives(t)' =>
               connections'[t] + failed'[t] = Cardinality(Reported(t))'
      BY <1>1, <1>8, <2>1, <2>2
    <2>4. CountTypes'
      BY <1>1, <1>8 DEF CountTypes
    <2>5. QED
      BY <1>1, <1>8, <2>3, <2>4 DEF CountInv, CountShortByFailedAccepts, Reported
  <1>9. ASSUME NEW s \in Processes, NEW t \in Processes, SpawnServer(s, t)
        PROVE  CountInv'
    BY <1>1, <1>8, <1>9 DEF SpawnServer, AcceptorInv, Lives
  <1>10. ASSUME NEW s \in Processes, Stop(s) PROVE CountInv'
    BY <1>1, <1>8, <1>10 DEF Stop, Begins, AcceptorInv, Lives
  <1>11. ASSUME NEW s \in Processes, EndStopped(s) PROVE CountInv'
    <2>1. /\ phase' = [phase EXCEPT ![s] = "ended"]
          /\ acceptor' = [acceptor EXCEPT ![s] = [a \in Acceptors |-> "ended"]]
          /\ live' = [live EXCEPT ![s] = [a \in Acceptors |-> 0]]
          /\ UNCHANGED <<connections, failed>>
      BY <1>11 DEF EndStopped, End
    <2>2. CountTypes'
      BY <1>1, <2>1 DEF CountTypes, AcceptorInv
    <2>3. /\ ~Lives(s)' /\ phase'[s] # "none"
          /\ \A t \in Processes : t # s => (Lives(t)' <=> Lives(t))
      BY <1>1, <2>1 DEF AcceptorInv, Lives
    <2>4. \A t \in Processes, a \in Acceptors : t # s =>
            live'[t][a] = live[t][a] /\ acceptor'[t][a] = acceptor[t][a]
      BY <1>1, <2>1 DEF AcceptorInv, CountTypes
    <2>5. \A t \in Processes : t # s => Reported(t)' = Reported(t)
      <3>1. \A t \in Processes, a \in Reporting : t # s =>
              Served(t, a)' = Served(t, a)
        BY <2>4, ServersAssumption DEF Served
      <3>2. QED
        BY <3>1 DEF Reported, Each
    <2>6. /\ \A t \in Processes : Lives(t)' => IsFiniteSet(Reported(t))'
          /\ \A t \in Processes : Lives(t)' =>
               connections'[t] + failed'[t] = Cardinality(Reported(t))'
      BY <1>1, <2>1, <2>3, <2>5
    <2>7. \A t \in Processes : phase'[t] = "none" =>
            /\ connections'[t] + failed'[t] = 0
            /\ \A a \in Acceptors : live'[t][a] = 0
      BY <1>1, <2>1, <2>3, <2>4 DEF AcceptorInv
    <2>8. QED
      BY <1>1, <2>2, <2>6, <2>7
      DEF CountInv, CountShortByFailedAccepts, Reported
  <1>12. CASE UNCHANGED vars
    BY <1>1, <1>8, <1>12 DEF vars, AcceptorInv, Lives
  <1>13. QED
    BY <1>3, <1>4, <1>5, <1>6, <1>7, <1>9, <1>10, <1>11, <1>12
    DEF Next, AllEnded

\* The counter of connections falls short of those that are served, in any
\* process and whatever becomes of the others, by its failed accepts exactly.
THEOREM CountFallsShort == Spec => []CountShortByFailedAccepts
  <1>1. Init => ListenInv /\ CountInv
    <2> SUFFICES ASSUME Init PROVE ListenInv /\ CountInv
      OBVIOUS
    <2>1. ListenInv
      BY InitListenInv
    <2>2. CountTypes
      BY DEF Init, CountTypes
    <2>3. \A s \in Processes : Reported(s) = {}
      BY ServersAssumption DEF Init, Reported, Each, Served
    <2>4. \A s \in Processes : /\ IsFiniteSet(Reported(s))
                               /\ Cardinality(Reported(s)) = 0
      BY <2>3, FS_EmptySet
    <2>5. \A s \in Processes : connections[s] + failed[s] = 0
      BY DEF Init
    <2>6. QED
      BY <2>1, <2>2, <2>4, <2>5
      DEF Init, ListenInv, CountInv, CountShortByFailedAccepts, Reported
  <1>2. CountInv => CountShortByFailedAccepts
    BY DEF CountInv
  <1>3. QED
    BY <1>1, <1>2, NextListenInv, NextCountInv, PTL DEF Spec
=============================================================================
