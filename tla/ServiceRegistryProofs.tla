----------------------- MODULE ServiceRegistryProofs -----------------------
(***************************************************************************)
(* Proofs about ServiceRegistry, for any number of sessions, pages,        *)
(* plugins and services, and every plugin that appears or disappears at a  *)
(* reload: what a session's reference refers to.  And about HttpHandler,    *)
(* which it extends: what normalized_uri takes for the path of a target.   *)
(***************************************************************************)
EXTENDS ServiceRegistry, SequenceTheorems, TLAPS

Steps == {"idle", "look", "test", "use", "run"}
References == Places \cup {"null", "gone"}

RegistryTypes ==
  /\ loaded \subseteq Plugins
  /\ entries = [p \in Places |-> entries[p]]
  /\ scan \in [Reloaders -> SUBSET Plugins]
  /\ step \in [Sessions -> Steps]
  /\ at \in [Sessions -> 0 .. Len(Order) + 1]
  /\ selected \in [Sessions -> References]
  /\ call \in [Sessions -> References \cup {"none"}]
  /\ outcome \in [Sessions -> {"none", "reply", "undefined"}]
  /\ fresh \in [Sessions -> BOOLEAN]

\* A session is in the loop when it looks up, and calls when its function runs.
HandlerInv ==
  \A s \in Sessions :
    /\ step[s] = "look" => at[s] # 0
    /\ step[s] = "test" => InLoop(s)
    /\ step[s] # "run" => call[s] = "none"

\* The functions of a place are those that were registered with it: lookups
\* enter names, and neither add a function nor lose one.
EntriesInv ==
  \A name :
    /\ Callable("server", name) <=> name \in ServerServices
    /\ \A p \in Plugins :
         Callable(p, name) <=> p \in loaded /\ name \in Provides[p]

RegistryInv == RegistryTypes /\ HandlerInv /\ EntriesInv

\* The model's own words are nobody's names.
LEMMA Apart ==
  /\ "null" \notin Places /\ "gone" \notin Places /\ "none" \notin Places
  /\ "server" \notin Plugins
  /\ Len(Order) \in Nat /\ DOMAIN Order = 1 .. Len(Order)
  /\ \A i \in DOMAIN Order : Order[i] \in Plugins
  /\ \A p \in Plugins : \E i \in DOMAIN Order : Order[i] = p
  <1>1. /\ "null" \notin Places /\ "gone" \notin Places /\ "none" \notin Places
        /\ "server" \notin Plugins
    BY RegistryAssumption DEF Places
  <1>2. Len(Order) \in Nat /\ DOMAIN Order = 1 .. Len(Order)
    BY RegistryAssumption
  <1>3. /\ \A i \in DOMAIN Order : Order[i] \in Plugins
        /\ \A p \in Plugins : \E i \in DOMAIN Order : Order[i] = p
    BY DEF Plugins
  <1>4. QED
    BY <1>1, <1>2, <1>3

\* What a plugin takes with it.
LEMMA DestroyedFacts ==
  ASSUME RegistryTypes, NEW s \in Sessions
  PROVE  /\ Destroyed(selected) \in [Sessions -> References]
         /\ Destroyed(call) \in [Sessions -> References \cup {"none"}]
         /\ Destroyed(call)[s] = "none" <=> call[s] = "none"
         /\ Destroyed(call)[s] = "server" <=> call[s] = "server"
         /\ Destroyed(selected)[s] \in {selected[s], "gone"}
         /\ Destroyed(selected)[s] = "server" <=> selected[s] = "server"
         /\ Destroyed(selected)[s] = "null" <=> selected[s] = "null"
         /\ Destroyed(selected)[s] \in Plugins
              => selected[s] \in Plugins \ loaded
  BY Apart DEF RegistryTypes, Destroyed, Places, References

\* What runs is still something, or gone.
LEMMA CallTypes ==
  ASSUME RegistryTypes
  PROVE  Destroyed(call) \in [Sessions -> References \cup {"none"}]
  BY DEF RegistryTypes, Destroyed, References

\* What a lookup that looks into a plugin selects.
LEMMA HereFacts ==
  ASSUME RegistryTypes, NEW s \in Sessions, InLoop(s)
  PROVE  /\ Here(s) \in Plugins
         /\ at[s] \in 1 .. Len(Order)
         /\ at[s] + 1 \in 1 .. Len(Order) + 1
         /\ at[s] # 0
  BY Apart DEF InLoop, Here, RegistryTypes

\* A lookup leaves the functions of every place as they are.
LEMMA AssignFacts ==
  ASSUME RegistryTypes, NEW s \in Sessions, NEW place \in Places,
         Assign(s, place)
  PROVE  /\ entries' = [p \in Places |-> entries'[p]]
         /\ \A p, name : Callable(p, name)' <=> Callable(p, name)
         /\ selected' \in [Sessions -> References]
         /\ selected' = [selected EXCEPT ![s] = place]
  <1>1. /\ entries' = [entries EXCEPT
                         ![place] = Enter(entries[place], asked[s])]
        /\ selected' = [selected EXCEPT ![s] = place]
    BY DEF Assign
  <1>2. entries = [p \in Places |-> entries[p]]
    BY DEF RegistryTypes
  <1>3. /\ entries' = [p \in Places |-> entries'[p]]
        /\ \A p \in Places : p # place => entries'[p] = entries[p]
        /\ entries'[place] = Enter(entries[place], asked[s])
    BY <1>1, <1>2
  <1>4. \A name :
          /\ name \in DOMAIN entries'[place]
               <=> name \in DOMAIN entries[place] \/ name = asked[s]
          /\ name \in DOMAIN entries[place]
               => entries'[place][name] = entries[place][name]
          /\ name = asked[s] /\ name \notin DOMAIN entries[place]
               => entries'[place][name] = "empty"
    BY <1>3 DEF Enter
  <1>5. \A name : Callable(place, name)' <=> Callable(place, name)
    BY <1>4 DEF Callable
  <1>6. \A p, name : p # place => (Callable(p, name)' <=> Callable(p, name))
    BY <1>3 DEF Callable
  <1>7. selected' \in [Sessions -> References]
    BY <1>1 DEF RegistryTypes, References
  <1>8. QED
    BY <1>1, <1>3, <1>5, <1>6, <1>7

\* What clearing the plugins does.
LEMMA ClearFacts ==
  ASSUME RegistryInv, NEW r \in Reloaders, Clear(r)
  PROVE  /\ loaded' = {} /\ scan' \in [Reloaders -> SUBSET Plugins]
         /\ entries' = [p \in Places |-> entries'[p]]
         /\ selected' = Destroyed(selected)
         /\ selected' \in [Sessions -> References]
         /\ fresh' \in [Sessions -> BOOLEAN]
         /\ EntriesInv'
  <1>1. RegistryTypes /\ EntriesInv
    BY DEF RegistryInv
  <1>2. /\ loaded' = {} /\ scan' = [scan EXCEPT ![r] = Plugins]
        /\ entries' = [p \in Places |-> IF p = "server" THEN entries[p]
                                        ELSE NoEntries]
        /\ selected' = Destroyed(selected)
        /\ fresh' = [s \in Sessions |-> FALSE]
    BY DEF Clear
  <1>3. /\ scan' \in [Reloaders -> SUBSET Plugins]
        /\ fresh' \in [Sessions -> BOOLEAN]
    BY <1>1, <1>2 DEF RegistryTypes
  <1>4. selected' \in [Sessions -> References]
    BY <1>1, <1>2 DEF RegistryTypes, References, Destroyed
  <1>5. \A name : Callable("server", name)' <=> Callable("server", name)
    BY <1>2 DEF Callable, Places
  <1>6. \A p \in Plugins : \A name : ~Callable(p, name)'
    BY <1>2, Apart DEF Callable, NoEntries
  <1>7. EntriesInv'
    BY <1>1, <1>2, <1>5, <1>6 DEF EntriesInv
  <1>8. QED
    BY <1>2, <1>3, <1>4, <1>7

\* A plugin comes with its functions.
LEMMA LoadFacts ==
  ASSUME RegistryInv, NEW r \in Reloaders, LoadPlugin(r)
  PROVE  /\ loaded' \subseteq Plugins /\ scan' \in [Reloaders -> SUBSET Plugins]
         /\ entries' = [p \in Places |-> entries'[p]]
         /\ EntriesInv'
         /\ loaded \subseteq loaded'
  <1>1. RegistryTypes /\ EntriesInv
    BY DEF RegistryInv
  <1>2. PICK p \in scan[r] :
          /\ scan' = [scan EXCEPT ![r] = @ \ {p}]
          /\ \/ UNCHANGED <<loaded, entries>>
             \/ /\ p \notin loaded
                /\ loaded' = loaded \cup {p}
                /\ entries' = [entries EXCEPT ![p] = Filled(Provides[p])]
    BY DEF LoadPlugin
  <1>3. p \in Plugins /\ p \in Places
    BY <1>1 DEF RegistryTypes, Places
  <1>4. scan' \in [Reloaders -> SUBSET Plugins]
    BY <1>1, <1>2 DEF RegistryTypes
  <1>5. CASE UNCHANGED <<loaded, entries>>
    <2>1. \A q, name : Callable(q, name)' <=> Callable(q, name)
      BY <1>5 DEF Callable
    <2>2. QED
      BY <1>1, <1>4, <1>5, <2>1 DEF RegistryTypes, EntriesInv
  <1>6. CASE /\ loaded' = loaded \cup {p}
             /\ entries' = [entries EXCEPT ![p] = Filled(Provides[p])]
    <2>1. /\ entries' = [q \in Places |-> entries'[q]]
          /\ \A q \in Places : q # p => entries'[q] = entries[q]
          /\ entries'[p] = Filled(Provides[p])
      BY <1>1, <1>3, <1>6 DEF RegistryTypes
    <2>2. \A name : Callable(p, name)' <=> name \in Provides[p]
      BY <1>3, <2>1 DEF Callable, Filled
    <2>3. \A q, name : q # p => (Callable(q, name)' <=> Callable(q, name))
      BY <2>1 DEF Callable
    <2>4. EntriesInv'
      BY <1>1, <1>3, <1>6, <2>2, <2>3, Apart DEF EntriesInv
    <2>5. QED
      BY <1>1, <1>3, <1>4, <1>6, <2>1, <2>4 DEF RegistryTypes
  <1>7. QED
    BY <1>2, <1>5, <1>6

\* The functions stay when the maps and the plugins do.
LEMMA SameEntries ==
  ASSUME RegistryInv, UNCHANGED <<loaded, entries>>
  PROVE  EntriesInv' /\ \A p, name : Callable(p, name)' <=> Callable(p, name)
  <1>1. \A p, name : Callable(p, name)' <=> Callable(p, name)
    BY DEF Callable
  <1>2. QED
    BY <1>1 DEF RegistryInv, EntriesInv

\* The types, the order of a session's steps and the functions of the places.
LEMMA NextRegistryInv == RegistryInv /\ [Next]_vars => RegistryInv'
  <1> SUFFICES ASSUME RegistryInv, [Next]_vars PROVE RegistryInv'
    OBVIOUS
  <1>1. RegistryTypes /\ HandlerInv /\ EntriesInv
    BY DEF RegistryInv
  <1>2. ASSUME NEW r \in Reloaders, Registry(r) PROVE RegistryInv'
    <2>1. CASE GetModules(r)
      <3>1. /\ Clear(r) /\ call' = Destroyed(call)
            /\ UNCHANGED <<step, at, outcome>>
        BY <2>1 DEF GetModules
      <3>2. RegistryTypes'
        BY <1>1, <3>1, ClearFacts, DestroyedFacts, CallTypes DEF RegistryTypes
      <3>3. HandlerInv'
        BY <1>1, <3>1, DestroyedFacts DEF HandlerInv, InLoop
      <3>4. QED
        BY <3>1, <3>2, <3>3, ClearFacts DEF RegistryInv
    <2>2. CASE LoadPlugin(r)
      <3>1. UNCHANGED <<step, at, selected, call, outcome>>
            /\ fresh' \in [Sessions -> BOOLEAN]
        BY <2>2 DEF LoadPlugin
      <3>2. RegistryTypes' /\ HandlerInv'
        BY <1>1, <2>2, <3>1, LoadFacts DEF RegistryTypes, HandlerInv, InLoop
      <3>3. QED
        BY <2>2, <3>2, LoadFacts DEF RegistryInv
    <2>3. CASE EndReload(r)
      <3>1. UNCHANGED <<loaded, entries, scan, step, at, selected, call,
                        outcome, fresh>>
        BY <2>3 DEF EndReload
      <3>2. RegistryTypes' /\ HandlerInv'
        BY <1>1, <3>1 DEF RegistryTypes, HandlerInv, InLoop
      <3>3. QED
        BY <3>1, <3>2, SameEntries DEF RegistryInv
    <2>4. QED
      BY <1>2, <2>1, <2>2, <2>3 DEF Registry
  <1>3. ASSUME NEW s \in Sessions, Session(s) PROVE RegistryInv'
    <2>1. ASSUME NEW name \in Names, Text(s, name) PROVE RegistryInv'
      <3>1. /\ UNCHANGED <<loaded, entries, scan, selected, call, outcome>>
            /\ step' = [step EXCEPT ![s] = "look"]
            /\ at' = [at EXCEPT ![s] = 1]
            /\ fresh' = [fresh EXCEPT ![s] = reloading = {}]
            /\ step[s] = "idle"
        BY <2>1 DEF Text, Handler, GoesTo, registry
      <3>2. RegistryTypes'
        BY <1>1, <3>1, Apart DEF RegistryTypes, Steps
      <3>3. HandlerInv'
        BY <1>1, <3>1 DEF RegistryTypes, HandlerInv, InLoop
      <3>4. QED
        BY <3>1, <3>2, <3>3, SameEntries DEF RegistryInv
    <2>2. ASSUME UNCHANGED <<loaded, entries, scan, selected, call, fresh>>,
                 outcome' \in [Sessions -> {"none", "reply", "undefined"}],
                 step' \in [Sessions -> Steps],
                 at' \in [Sessions -> 0 .. Len(Order) + 1],
                 \A u \in Sessions :
                   u # s => at'[u] = at[u] /\ step'[u] = step[u],
                 step'[s] = "look" => at'[s] # 0,
                 step'[s] = "test" => at'[s] \in DOMAIN Order,
                 step'[s] # "run" => call[s] = "none"
          PROVE  RegistryInv'
      <3>1. RegistryTypes'
        BY <1>1, <2>2 DEF RegistryTypes
      <3>2. HandlerInv'
        BY <1>1, <2>2 DEF HandlerInv, InLoop
      <3>3. QED
        BY <2>2, <3>1, <3>2, SameEntries DEF RegistryInv
    <2>3. CASE PassOver(s)
      BY <1>1, <2>2, <2>3, HereFacts, Apart
      DEF PassOver, Handler, registry, RegistryTypes, HandlerInv
    <2>4. CASE LookIn(s) \/ LookInServer(s)
      <3>1. PICK place \in Places : Assign(s, place)
        BY <1>1, <2>4, HereFacts DEF LookIn, LookInServer, Places
      <3>2. /\ UNCHANGED <<loaded, scan, call, outcome, fresh>>
            /\ step[s] = "look"
            /\ \/ /\ step' = [step EXCEPT ![s] = "test"] /\ at' = at
                  /\ InLoop(s)
               \/ /\ step' = [step EXCEPT ![s] = "idle"]
                  /\ at' = [at EXCEPT ![s] = 0]
        BY <2>4 DEF LookIn, LookInServer, Handler, GoesTo
      <3>3. at' \in [Sessions -> 0 .. Len(Order) + 1]
            /\ step' \in [Sessions -> Steps]
        <4>1. 0 \in 0 .. Len(Order) + 1
          BY Apart
        <4>2. at' \in [Sessions -> 0 .. Len(Order) + 1]
          BY <1>1, <3>2, <4>1 DEF RegistryTypes
        <4>3. step' \in [Sessions -> Steps]
          BY <1>1, <3>2 DEF RegistryTypes, Steps
        <4>4. QED
          BY <4>2, <4>3
      <3>4. RegistryTypes'
        BY <1>1, <3>1, <3>2, <3>3, AssignFacts DEF RegistryTypes
      <3>5. HandlerInv'
        BY <1>1, <3>2 DEF HandlerInv, InLoop, RegistryTypes
      <3>6. EntriesInv'
        BY <1>1, <3>1, <3>2, AssignFacts DEF EntriesInv
      <3>7. QED
        BY <3>4, <3>5, <3>6 DEF RegistryInv
    <2>5. CASE Found(s)
      BY <1>1, <2>2, <2>5, Apart
      DEF Found, Handler, GoesTo, registry, RegistryTypes, HandlerInv, Steps
    <2>6. CASE NotFound(s)
      <3>1. InLoop(s)
        BY <1>1, <2>6 DEF NotFound, Handler, HandlerInv
      <3>2. QED
        BY <1>1, <2>2, <2>6, <3>1, HereFacts, Apart
        DEF NotFound, Handler, GoesTo, registry, RegistryTypes, HandlerInv,
            Steps
    <2>7. CASE FindDangling(s) \/ UseEmpty(s)
      BY <1>1, <2>2, <2>7
      DEF FindDangling, UseEmpty, registry, RegistryTypes, HandlerInv, InLoop
    <2>8. CASE BinaryUnanswered(s) \/ BinaryDangling(s)
      BY <1>1, <2>2, <2>8
      DEF BinaryUnanswered, BinaryDangling, Return, registry, RegistryTypes,
          HandlerInv, InLoop
    <2>9. CASE Binary(s)
      BY <1>1, <2>2, <2>9
      DEF Binary, Handler, GoesTo, registry, RegistryTypes, HandlerInv, Steps
    <2>10. CASE Use(s)
      <3>1. /\ step' = [step EXCEPT ![s] = "run"]
            /\ UNCHANGED <<at, outcome>>
            /\ selected[s] \in References
        BY <1>1, <2>10 DEF Use, GoesTo, RegistryTypes
      <3>2. step' \in [Sessions -> Steps]
        BY <1>1, <3>1 DEF RegistryTypes, Steps
      <3>3. CASE asked[s] = Reload
        <4>1. Clear(s) /\ call' = [Destroyed(call) EXCEPT ![s] = selected[s]]
          BY <2>10, <3>3 DEF Use
        <4>2. Destroyed(call) \in [Sessions -> References \cup {"none"}]
          BY <1>1, CallTypes
        <4>3. /\ call' \in [Sessions -> References \cup {"none"}]
              /\ \A u \in Sessions : u # s => call'[u] = Destroyed(call)[u]
          BY <3>1, <4>1, <4>2
        <4>4. HandlerInv'
          BY <1>1, <3>1, <4>3, DestroyedFacts
          DEF HandlerInv, InLoop, RegistryTypes
        <4>5. RegistryTypes'
          BY <1>1, <3>1, <3>2, <4>1, <4>3, ClearFacts
          DEF RegistryTypes, Reloaders
        <4>6. QED
          BY <4>1, <4>4, <4>5, ClearFacts DEF RegistryInv, Reloaders
      <3>4. CASE asked[s] # Reload
        <4>1. /\ UNCHANGED <<loaded, entries, scan, selected, fresh>>
              /\ call' = [call EXCEPT ![s] = selected[s]]
          BY <2>10, <3>4 DEF Use, registry
        <4>2. RegistryTypes'
          BY <1>1, <3>1, <3>2, <4>1 DEF RegistryTypes
        <4>3. HandlerInv'
          BY <1>1, <3>1, <4>1 DEF HandlerInv, InLoop, RegistryTypes
        <4>4. QED
          BY <4>1, <4>2, <4>3, SameEntries DEF RegistryInv
      <3>5. QED
        BY <3>3, <3>4
    <2>11. CASE EndBinary(s)
      <3>1. /\ call' = [call EXCEPT ![s] = "none"]
            /\ step' = [step EXCEPT ![s] = "idle"]
            /\ \E what \in {"reply", "undefined"} :
                 outcome' = [outcome EXCEPT ![s] = what]
            /\ UNCHANGED <<loaded, entries, scan, at, selected, fresh>>
        BY <2>11 DEF EndBinary, Return, GoesTo, registry
      <3>2. RegistryTypes'
        BY <1>1, <3>1 DEF RegistryTypes, Steps
      <3>3. HandlerInv'
        BY <1>1, <3>1 DEF HandlerInv, InLoop, RegistryTypes
      <3>4. QED
        BY <3>1, <3>2, <3>3, SameEntries DEF RegistryInv
    <2>12. CASE WriteFails(s)
      <3>1. /\ selected' = [selected EXCEPT ![s] = "null"]
            /\ UNCHANGED <<loaded, entries, scan, step, at, call, outcome,
                           fresh>>
        BY <2>12 DEF WriteFails, registry
      <3>2. RegistryTypes' /\ HandlerInv'
        BY <1>1, <3>1 DEF RegistryTypes, References, HandlerInv, InLoop
      <3>3. QED
        BY <3>1, <3>2, SameEntries DEF RegistryInv
    <2>13. QED
      BY <1>3, <2>1, <2>3, <2>4, <2>5, <2>6, <2>7, <2>8, <2>9, <2>10, <2>11,
         <2>12 DEF Session, Lookup
  <1>4. CASE Race \/ Over \/ UNCHANGED vars
    <2>1. UNCHANGED <<loaded, entries, scan, step, at, selected, call, outcome,
                      fresh>>
      BY <1>4 DEF Race, Over, vars, registry
    <2>2. RegistryTypes' /\ HandlerInv'
      BY <1>1, <2>1 DEF RegistryTypes, HandlerInv, InLoop
    <2>3. QED
      BY <2>1, <2>2, SameEntries DEF RegistryInv
  <1>5. QED
    BY <1>2, <1>3, <1>4 DEF Next

\* They hold of a server that starts.
LEMMA InitRegistryInv == RegistryInit => RegistryInv
  <1> SUFFICES ASSUME RegistryInit PROVE RegistryInv
    OBVIOUS
  <1>1. RegistryTypes
    BY Apart DEF RegistryInit, RegistryTypes, References, Steps
  <1>2. HandlerInv
    BY DEF RegistryInit, HandlerInv
  <1>3. \A name : Callable("server", name) <=> name \in ServerServices
    BY DEF RegistryInit, Callable, Places, Filled
  <1>4. \A name : \A p \in Plugins : ~Callable(p, name)
    BY Apart DEF RegistryInit, Callable, Places, NoEntries
  <1>5. loaded = {}
    BY DEF RegistryInit
  <1>6. QED
    BY <1>1, <1>2, <1>3, <1>4, <1>5 DEF RegistryInv, EntriesInv

\* They hold throughout.
LEMMA RegistryInvCorrect == RegistrySpec => []RegistryInv
  BY InitRegistryInv, NextRegistryInv, PTL DEF RegistrySpec

-----------------------------------------------------------------------------

\* What a step of the registry or of another session does to session s: it
\* leaves it as it is, or reloads.
Undisturbed(s) ==
  /\ asked'[s] = asked[s] /\ step'[s] = step[s] /\ at'[s] = at[s]
  /\ outcome'[s] = outcome[s] /\ selected'[s] = selected[s]
  /\ call'[s] = call[s] /\ (s \in lost' <=> s \in lost)
  /\ loaded \subseteq loaded'
  /\ (loaded' = loaded /\ fresh'[s] = fresh[s]) \/ ~fresh'[s]

Reloaded(s) ==
  /\ asked'[s] = asked[s] /\ step'[s] = step[s] /\ at'[s] = at[s]
  /\ outcome'[s] = outcome[s] /\ selected'[s] = Destroyed(selected)[s]
  /\ call'[s] = Destroyed(call)[s] /\ (s \in lost' <=> s \in lost)
  /\ loaded' = {} /\ ~fresh'[s]

\* A step is one of session s, or leaves it as it is, or reloads.
LEMMA SessionStep ==
  ASSUME RegistryInv, [Next]_vars, NEW s \in Sessions
  PROVE  Session(s) \/ Undisturbed(s) \/ Reloaded(s)
  <1>1. RegistryTypes
    BY DEF RegistryInv
  <1>2. ASSUME NEW u \in Sessions, u # s, Session(u)
        PROVE  Undisturbed(s) \/ Reloaded(s)
    <2>1. CASE \E name \in Names : Text(u, name)
      BY <1>1, <1>2, <2>1
      DEF Text, GoesTo, registry, RegistryTypes, Undisturbed
    <2>2. CASE Lookup(u)
      BY <1>1, <1>2, <2>2
      DEF Lookup, PassOver, LookIn, LookInServer, Found, NotFound, FindDangling,
          Assign, GoesTo, registry, RegistryTypes, Undisturbed
    <2>3. CASE BinaryUnanswered(u) \/ BinaryDangling(u) \/ WriteFails(u)
               \/ Binary(u) \/ UseEmpty(u)
      BY <1>1, <1>2, <2>3
      DEF BinaryUnanswered, BinaryDangling, WriteFails, Binary, UseEmpty,
          Return, GoesTo, registry, RegistryTypes, Undisturbed
    <2>4. CASE Use(u) /\ asked[u] = Reload
      <3>1. /\ Clear(u) /\ UNCHANGED <<asked, at, outcome, lost>>
            /\ step' = [step EXCEPT ![u] = "run"]
            /\ call' = [Destroyed(call) EXCEPT ![u] = selected[u]]
        BY <2>4 DEF Use, GoesTo
      <3>2. call'[s] = Destroyed(call)[s] /\ step'[s] = step[s]
        BY <1>1, <1>2, <3>1, CallTypes DEF RegistryTypes
      <3>3. QED
        BY <3>1, <3>2 DEF Clear, Reloaded
    <2>5. CASE Use(u) /\ asked[u] # Reload
      BY <1>1, <1>2, <2>5 DEF Use, GoesTo, registry, RegistryTypes, Undisturbed
    <2>6. CASE EndBinary(u)
      <3>1. /\ call' = [call EXCEPT ![u] = "none"]
            /\ step' = [step EXCEPT ![u] = "idle"]
            /\ \E what : outcome' = [outcome EXCEPT ![u] = what]
            /\ UNCHANGED <<loaded, asked, at, selected, lost, fresh>>
        BY <2>6 DEF EndBinary, Return, GoesTo, registry
      <3>2. QED
        BY <1>1, <1>2, <3>1 DEF RegistryTypes, Undisturbed
    <2>7. QED
      BY <1>2, <2>1, <2>2, <2>3, <2>4, <2>5, <2>6 DEF Session
  <1>3. ASSUME NEW r \in Reloaders, Registry(r)
        PROVE  Undisturbed(s) \/ Reloaded(s)
    <2>1. CASE GetModules(r)
      BY <2>1 DEF GetModules, Clear, Reloaded
    <2>2. CASE LoadPlugin(r)
      <3>1. loaded \subseteq loaded'
        BY <2>2, LoadFacts
      <3>2. QED
        BY <2>2, <3>1 DEF LoadPlugin, Undisturbed
    <2>3. CASE EndReload(r)
      BY <2>3 DEF EndReload, Undisturbed
    <2>4. QED
      BY <1>3, <2>1, <2>2, <2>3 DEF Registry
  <1>4. CASE Race \/ Over \/ UNCHANGED vars
    BY <1>4 DEF Race, Over, vars, registry, Undisturbed
  <1>5. QED
    BY <1>2, <1>3, <1>4 DEF Next

-----------------------------------------------------------------------------

\* What session s asked for is a service of the server's, and of no plugin's.
OfServer(s) ==
  /\ asked[s] \in ServerServices
  /\ \A p \in Plugins : asked[s] \notin Provides[p]

\* Such a session refers into the server, once its lookup is over, and calls
\* nothing else; no lookup ends in a plugin.
SurviveInv ==
  \A s \in Sessions : OfServer(s) =>
    /\ outcome[s] # "undefined"
    /\ call[s] \in {"none", "server"}
    /\ LookedUp(s) => selected[s] \in {"server", "null"}

\* Nothing more happens once something undefined has been returned.
UndefinedInv == \A s \in Sessions : outcome[s] = "undefined" => ~Running

\* Every step keeps that.
LEMMA NextUndefinedInv ==
  RegistryTypes /\ UndefinedInv /\ [Next]_vars => UndefinedInv'
  <1> SUFFICES ASSUME RegistryTypes, UndefinedInv, [Next]_vars,
                      NEW s \in Sessions, Running'
               PROVE  outcome'[s] # "undefined"
    BY DEF UndefinedInv
  <1>1. ASSUME NEW r \in Reloaders, Registry(r)
        PROVE  Running /\ outcome' = outcome
    BY <1>1 DEF Registry, GetModules, LoadPlugin, EndReload
  <1>2. ASSUME NEW u \in Sessions, Session(u)
        PROVE  /\ Running
               /\ \/ outcome' = outcome
                  \/ outcome' = [outcome EXCEPT ![u] = "reply"]
    <2>1. CASE (\E name \in Names : Text(u, name)) \/ Lookup(u) \/ Binary(u)
               \/ Use(u) \/ UseEmpty(u) \/ WriteFails(u)
      BY <2>1
      DEF Text, Lookup, PassOver, LookIn, LookInServer, Found, NotFound,
          FindDangling, Binary, Use, UseEmpty, WriteFails, Handler
    <2>2. CASE BinaryUnanswered(u) \/ BinaryDangling(u) \/ EndBinary(u)
      BY <2>2
      DEF BinaryUnanswered, BinaryDangling, EndBinary, Handler, Return, Running
    <2>3. QED
      BY <1>2, <2>1, <2>2 DEF Session
  <1>3. CASE Race \/ Over \/ UNCHANGED vars
    BY <1>3 DEF Race, Over, vars, Running, UndefinedInv
  <1>4. QED
    BY <1>1, <1>2, <1>3 DEF Next, RegistryTypes, UndefinedInv

\* Every step keeps it.
LEMMA NextSurviveInv ==
  RegistryInv /\ UndefinedInv /\ SurviveInv /\ [Next]_vars => SurviveInv'
  <1> SUFFICES ASSUME RegistryInv, UndefinedInv, SurviveInv, [Next]_vars,
                      NEW s \in Sessions, OfServer(s)'
               PROVE  /\ outcome'[s] # "undefined"
                      /\ call'[s] \in {"none", "server"}
                      /\ LookedUp(s)' => selected'[s] \in {"server", "null"}
    BY DEF SurviveInv
  <1>1. /\ RegistryTypes /\ HandlerInv /\ EntriesInv
        /\ step[s] # "run" => call[s] = "none"
    BY DEF RegistryInv, HandlerInv
  <1>2. asked'[s] = asked[s] =>
          /\ OfServer(s) /\ outcome[s] # "undefined"
          /\ call[s] \in {"none", "server"}
          /\ LookedUp(s) => selected[s] \in {"server", "null"}
    BY DEF OfServer, SurviveInv
  <1>3. CASE Undisturbed(s)
    BY <1>2, <1>3 DEF Undisturbed, LookedUp
  <1>4. CASE Reloaded(s)
    BY <1>1, <1>2, <1>4, DestroyedFacts DEF Reloaded, LookedUp
  <1>5. ASSUME NEW name \in Names, Text(s, name), outcome[s] # "undefined"
        PROVE  /\ outcome'[s] # "undefined" /\ call'[s] = "none"
               /\ ~LookedUp(s)'
    BY <1>1, <1>5 DEF Text, Handler, GoesTo, RegistryTypes, LookedUp
  <1>6. CASE Lookup(s)
    <2>1. UNCHANGED <<asked, call, outcome>>
      BY <1>6
      DEF Lookup, PassOver, LookIn, LookInServer, Found, NotFound, FindDangling
    <2>2. CASE PassOver(s) \/ LookIn(s) \/ NotFound(s) \/ FindDangling(s)
      <3>1. ~LookedUp(s)'
        BY <1>1, <2>2
        DEF PassOver, LookIn, NotFound, FindDangling, Handler, GoesTo,
            RegistryTypes, LookedUp
      <3>2. QED
        BY <1>2, <2>1, <3>1
    <2>3. CASE LookInServer(s)
      <3>1. selected'[s] = "server"
        BY <1>1, <2>3 DEF LookInServer, Assign, RegistryTypes
      <3>2. QED
        BY <1>2, <2>1, <3>1
    <2>4. CASE Found(s)
      <3>1. Callable(selected[s], asked[s]) /\ selected' = selected
        BY <2>4 DEF Found
      <3>2. selected[s] \in Places /\ selected[s] \notin Plugins
        BY <1>1, <1>2, <2>1, <3>1 DEF Callable, EntriesInv, OfServer
      <3>3. QED
        BY <1>2, <2>1, <3>1, <3>2 DEF Places
    <2>5. QED
      BY <1>6, <2>2, <2>3, <2>4 DEF Lookup
  <1>7. CASE WriteFails(s)
    BY <1>1, <1>2, <1>7 DEF WriteFails, RegistryTypes
  <1>13. CASE BinaryUnanswered(s) \/ Binary(s) \/ UseEmpty(s)
    <2>1. UNCHANGED <<asked, call, selected>> /\ (LookedUp(s)' => LookedUp(s))
      BY <1>1, <1>13
      DEF BinaryUnanswered, Binary, UseEmpty, Handler, GoesTo, RegistryTypes,
          LookedUp
    <2>2. outcome'[s] \in {outcome[s], "reply"}
      BY <1>1, <1>13
      DEF BinaryUnanswered, Return, Binary, UseEmpty, RegistryTypes
    <2>3. QED
      BY <1>2, <2>1, <2>2
  <1>8. ~BinaryDangling(s)
    <2>1. ASSUME BinaryDangling(s)
          PROVE  asked'[s] = asked[s] /\ LookedUp(s) /\ selected[s] = "gone"
      BY <2>1 DEF BinaryDangling, Handler, LookedUp
    <2>2. QED
      BY <1>2, <2>1
  <1>9. CASE Use(s)
    <2>1. /\ UNCHANGED <<asked, outcome>>
          /\ step[s] = "use" /\ Callable(selected[s], asked[s])
      BY <1>9 DEF Use, Handler
    <2>2. selected[s] = "server"
      BY <1>2, <2>1, Apart DEF LookedUp, Callable
    <2>3. call'[s] = "server" /\ selected'[s] = "server"
      <3>1. CASE asked[s] = Reload
        <4>1. /\ selected' = Destroyed(selected)
              /\ call' = [Destroyed(call) EXCEPT ![s] = selected[s]]
          BY <1>9, <3>1 DEF Use, Clear
        <4>2. Destroyed(call) \in [Sessions -> References \cup {"none"}]
          BY <1>1, CallTypes
        <4>3. QED
          BY <1>1, <2>2, <4>1, <4>2, DestroyedFacts
      <3>2. CASE asked[s] # Reload
        BY <1>1, <1>9, <2>2, <3>2 DEF Use, RegistryTypes
      <3>3. QED
        BY <3>1, <3>2
    <2>4. QED
      BY <1>2, <2>1, <2>3
  <1>10. CASE EndBinary(s)
    <2>1. UNCHANGED <<asked, selected>> /\ step[s] = "run"
      BY <1>10 DEF EndBinary, Handler
    <2>2. call[s] # "gone"
      BY <1>2, <2>1
    <2>3. outcome' = [outcome EXCEPT ![s] = "reply"] /\ call'[s] = "none"
      BY <1>1, <1>10, <2>2 DEF EndBinary, Return, RegistryTypes
    <2>4. QED
      BY <1>1, <1>2, <2>1, <2>3 DEF RegistryTypes, LookedUp
  <1>11. ASSUME NEW name \in Names, Text(s, name)
         PROVE  outcome[s] # "undefined"
    BY <1>11 DEF Text, Handler, UndefinedInv
  <1>12. QED
    BY <1>3, <1>4, <1>5, <1>6, <1>7, <1>8, <1>9, <1>10, <1>11,
       <1>13, SessionStep DEF Session

\* A session that calls the server's own services loses none of them to a
\* reload, whoever reloads and when.
THEOREM ServerSurvives == RegistrySpec => []ServerServicesSurvive
  <1>1. RegistryInit => SurviveInv /\ UndefinedInv
    BY DEF RegistryInit, SurviveInv, UndefinedInv, LookedUp
  <1>2. SurviveInv => ServerServicesSurvive
    BY DEF SurviveInv, OfServer, ServerServicesSurvive
  <1>3. RegistryInv => RegistryTypes
    BY DEF RegistryInv
  <1>4. QED
    BY <1>1, <1>2, <1>3, NextSurviveInv, NextUndefinedInv, RegistryInvCorrect,
       PTL DEF RegistrySpec

-----------------------------------------------------------------------------

\* As long as no reload came since it looked up, a session refers to nothing
\* that is gone.
FreshInv ==
  \A s \in Sessions : fresh[s] =>
    call[s] # "gone" /\ (step[s] # "look" => selected[s] # "gone")

\* Every step keeps it.
LEMMA NextFreshInv == RegistryInv /\ FreshInv /\ [Next]_vars => FreshInv'
  <1> SUFFICES ASSUME RegistryInv, FreshInv, [Next]_vars,
                      NEW s \in Sessions, fresh'[s]
               PROVE  /\ call'[s] # "gone"
                      /\ step'[s] # "look" => selected'[s] # "gone"
    BY DEF FreshInv
  <1>1. RegistryTypes /\ (step[s] # "run" => call[s] = "none")
    BY DEF RegistryInv, HandlerInv
  <1>2. fresh[s] => /\ call[s] # "gone"
                    /\ step[s] # "look" => selected[s] # "gone"
    BY DEF FreshInv
  <1>3. CASE Undisturbed(s)
    BY <1>2, <1>3 DEF Undisturbed
  <1>4. ~Reloaded(s)
    BY DEF Reloaded
  <1>5. ASSUME NEW name \in Names, Text(s, name)
        PROVE  call'[s] = "none" /\ step'[s] = "look"
    BY <1>1, <1>5 DEF Text, Handler, GoesTo, RegistryTypes
  <1>6. CASE PassOver(s) \/ NotFound(s)
    <2>1. UNCHANGED <<call, fresh>> /\ step'[s] = "look"
      BY <1>1, <1>6 DEF PassOver, NotFound, Handler, GoesTo, RegistryTypes
    <2>2. QED
      BY <1>2, <2>1
  <1>7. CASE LookIn(s) \/ LookInServer(s)
    <2>1. UNCHANGED <<call, fresh>>
      BY <1>7 DEF LookIn, LookInServer
    <2>2. selected'[s] \in Places
      BY <1>1, <1>7, HereFacts
      DEF LookIn, LookInServer, Assign, RegistryTypes, Places
    <2>3. QED
      BY <1>2, <2>1, <2>2, Apart
  <1>8. CASE Found(s) \/ Binary(s)
    <2>1. UNCHANGED <<call, selected, fresh>> /\ Callable(selected[s], asked[s])
      BY <1>8 DEF Found, Binary
    <2>2. QED
      BY <1>2, <2>1, Apart DEF Callable
  <1>9. CASE FindDangling(s) \/ UseEmpty(s) \/ BinaryUnanswered(s)
             \/ BinaryDangling(s)
    BY <1>2, <1>9 DEF FindDangling, UseEmpty, BinaryUnanswered, BinaryDangling
  <1>10. CASE WriteFails(s)
    BY <1>1, <1>2, <1>10 DEF WriteFails, RegistryTypes
  <1>11. CASE Use(s)
    <2>1. /\ UNCHANGED <<selected, fresh>> /\ Callable(selected[s], asked[s])
          /\ call' = [call EXCEPT ![s] = selected[s]]
      BY <1>11 DEF Use, Clear
    <2>2. selected[s] # "gone"
      BY <2>1, Apart DEF Callable
    <2>3. QED
      BY <1>1, <2>1, <2>2 DEF RegistryTypes
  <1>12. CASE EndBinary(s)
    BY <1>1, <1>2, <1>12 DEF EndBinary, Handler, RegistryTypes
  <1>13. QED
    BY <1>3, <1>4, <1>5, <1>6, <1>7, <1>8, <1>9, <1>10, <1>11, <1>12,
       SessionStep DEF Session, Lookup

\* Nothing a session refers to is destroyed but by a reload.
LEMMA OnlyReloadDestroys == RegistrySpec => []DanglesOnlyByReload
  <1>1. RegistryInit => FreshInv
    BY DEF RegistryInit, FreshInv
  <1>2. FreshInv => DanglesOnlyByReload
    BY DEF FreshInv, DanglesOnlyByReload
  <1>3. QED
    BY <1>1, <1>2, NextFreshInv, RegistryInvCorrect, PTL DEF RegistrySpec

-----------------------------------------------------------------------------

\* A session that has found a function and is about to call it still refers to
\* one, unless it was destroyed or a reply failed to be written.
UseInv ==
  /\ \A s \in Sessions : step[s] = "use" =>
       \/ Callable(selected[s], asked[s])
       \/ selected[s] = "gone"
       \/ selected[s] = "null" /\ s \in lost
  /\ TerminatedByLoss

\* Every step keeps it.
LEMMA NextUseInv == RegistryInv /\ UseInv /\ [Next]_vars => UseInv'
  <1> SUFFICES ASSUME RegistryInv, UseInv, [Next]_vars PROVE UseInv'
    OBVIOUS
  <1>1. RegistryTypes /\ EntriesInv
    BY DEF RegistryInv
  <1>2. ASSUME NEW s \in Sessions, step'[s] = "use"
        PROVE  \/ Callable(selected[s], asked[s])'
               \/ selected'[s] = "gone"
               \/ selected'[s] = "null" /\ s \in lost'
    <2>1. step[s] = "use" => \/ Callable(selected[s], asked[s])
                             \/ selected[s] = "gone"
                             \/ selected[s] = "null" /\ s \in lost
      BY DEF UseInv
    <2>2. EntriesInv'
      BY NextRegistryInv DEF RegistryInv
    <2>3. CASE Undisturbed(s)
      <3>1. /\ step[s] = "use" /\ selected'[s] = selected[s]
            /\ asked'[s] = asked[s] /\ loaded \subseteq loaded'
            /\ s \in lost' <=> s \in lost
        BY <1>2, <2>3 DEF Undisturbed
      <3>2. Callable(selected[s], asked[s]) => Callable(selected[s], asked[s])'
        <4>1. CASE selected[s] = "server"
          BY <1>1, <2>2, <3>1, <4>1 DEF EntriesInv
        <4>2. CASE selected[s] \in Plugins
          BY <1>1, <2>2, <3>1, <4>2 DEF EntriesInv
        <4>3. QED
          BY <4>1, <4>2 DEF Callable, Places
      <3>3. QED
        BY <2>1, <3>1, <3>2
    <2>4. CASE Reloaded(s)
      <3>1. /\ step[s] = "use" /\ asked'[s] = asked[s]
            /\ selected'[s] \in {selected[s], "gone"}
            /\ selected'[s] = Destroyed(selected)[s]
            /\ s \in lost' <=> s \in lost
        BY <1>1, <1>2, <2>4, DestroyedFacts DEF Reloaded
      <3>2. CASE selected'[s] = selected[s] /\ Callable(selected[s], asked[s])
        <4>1. selected[s] \notin Plugins
          BY <1>1, <3>1, <3>2, DestroyedFacts DEF EntriesInv
        <4>2. selected[s] = "server" /\ asked[s] \in ServerServices
          BY <1>1, <3>2, <4>1 DEF Callable, Places, EntriesInv
        <4>3. QED
          BY <2>2, <3>1, <4>2 DEF EntriesInv
      <3>3. QED
        BY <2>1, <3>1, <3>2
    <2>5. CASE Binary(s)
      <3>1. UNCHANGED <<loaded, entries, asked, selected>>
            /\ Callable(selected[s], asked[s])
        BY <2>5 DEF Binary, registry
      <3>2. QED
        BY <3>1, SameEntries
    <2>6. CASE WriteFails(s)
      BY <1>1, <2>6 DEF WriteFails, RegistryTypes
    <2>7. CASE UseEmpty(s) \/ BinaryUnanswered(s) \/ BinaryDangling(s)
               \/ FindDangling(s)
      <3>1. UNCHANGED <<loaded, entries, asked, step, selected, lost>>
        BY <2>7
        DEF UseEmpty, BinaryUnanswered, BinaryDangling, FindDangling, registry
      <3>2. QED
        BY <1>2, <2>1, <3>1, SameEntries
    <2>8. CASE (\E name \in Names : Text(s, name)) \/ PassOver(s) \/ LookIn(s)
               \/ LookInServer(s) \/ Found(s) \/ NotFound(s) \/ Use(s)
               \/ EndBinary(s)
      <3>1. step'[s] # "use"
        BY <1>1, <2>8
        DEF Text, PassOver, LookIn, LookInServer, Found, NotFound, Use,
            EndBinary, Handler, GoesTo, RegistryTypes
      <3>2. QED
        BY <1>2, <3>1
    <2>9. QED
      BY <2>3, <2>4, <2>5, <2>6, <2>7, <2>8, SessionStep DEF Session, Lookup
  <1>3. TerminatedByLoss'
    <2>1. CASE fate' = "terminated" /\ fate # "terminated"
      <3>1. PICK s \in Sessions : UseEmpty(s)
        <4>1. ASSUME NEW r \in Reloaders, Registry(r) PROVE fate' = fate
          BY <4>1 DEF Registry, GetModules, LoadPlugin, EndReload
        <4>2. ASSUME NEW s \in Sessions, Session(s), ~UseEmpty(s)
              PROVE  fate' \in {fate, "dangling"}
          BY <4>2
          DEF Session, Lookup, Text, PassOver, LookIn, LookInServer, Found,
              NotFound, FindDangling, BinaryUnanswered, Binary, Use,
              BinaryDangling, EndBinary, WriteFails
        <4>3. ~(Race \/ Over \/ UNCHANGED vars)
          BY <2>1 DEF Race, Over, vars
        <4>4. QED
          BY <2>1, <4>1, <4>2, <4>3 DEF Next
      <3>2. /\ step[s] = "use" /\ selected[s] # "gone"
            /\ ~Callable(selected[s], asked[s])
            /\ UNCHANGED <<step, selected, lost>>
        BY <3>1 DEF UseEmpty, Handler
      <3>3. QED
        BY <3>2 DEF UseInv, TerminatedByLoss
    <2>2. CASE fate = "terminated"
      <3>1. UNCHANGED vars
        BY <2>2
        DEF Next, Registry, GetModules, LoadPlugin, EndReload, Session, Lookup,
            Text, PassOver, LookIn, LookInServer, Found, NotFound, FindDangling,
            BinaryUnanswered, Binary, Use, UseEmpty, BinaryDangling, EndBinary,
            WriteFails, Race, Over, Handler, Running
      <3>2. QED
        BY <3>1 DEF vars, UseInv, TerminatedByLoss
    <2>3. QED
      BY <2>1, <2>2 DEF TerminatedByLoss
  <1>4. QED
    BY <1>2, <1>3 DEF UseInv

\* No peer ends the process by a name nobody registered, by a call without a
\* name, or with the help of a reload: only if a reply to it cannot be written.
LEMMA OnlyLossTerminates == RegistrySpec => []TerminatedByLoss
  <1>1. RegistryInit => UseInv
    BY DEF RegistryInit, UseInv, TerminatedByLoss
  <1>2. UseInv => TerminatedByLoss
    BY DEF UseInv
  <1>3. QED
    BY <1>1, <1>2, NextUseInv, RegistryInvCorrect, PTL DEF RegistrySpec

\* A function that was found is lost, while it is looked up, waits to be called
\* or runs, to nothing but a reload or a reply that could not be written.
THEOREM FailuresHaveCauses == RegistrySpec => []FailsForACause
  <1>1. FailsForACause <=> DanglesOnlyByReload /\ TerminatedByLoss
    BY DEF FailsForACause
  <1>2. QED
    BY <1>1, OnlyReloadDestroys, OnlyLossTerminates, PTL

-----------------------------------------------------------------------------

\* A lookup that can be answered has passed over no plugin that has the service,
\* refers to the plugin it looks into, and ends at the first provider.
FindsFirst(s) ==
  /\ ~LookedUp(s) => \A i \in Providers(s) : at[s] <= i
  /\ step[s] = "test" => selected[s] = Here(s) /\ Here(s) \in loaded
  /\ LookedUp(s) => selected[s] = FirstProvider(s)

\* Any other ends at a provider, the server or nothing.
FindsSome(s) ==
  LookedUp(s) => \/ selected[s] \in {"null", "server"}
                 \/ \E i \in Providers(s) : selected[s] = Order[i]

\* That is as long as no reload came between.
SelectInv ==
  \A s \in Sessions :
    fresh[s] => IF s \in lost THEN FindsSome(s) ELSE FindsFirst(s)

\* The first of the providers is the one no other comes before.
LEMMA FirstIsLeast ==
  ASSUME NEW P \in SUBSET Nat, NEW k \in P, \A j \in P : k <= j
  PROVE  (CHOOSE i \in P : \A j \in P : i <= j) = k
  <1>1. \E i \in P : \A j \in P : i <= j
    OBVIOUS
  <1> DEFINE first == CHOOSE i \in P : \A j \in P : i <= j
  <1>2. first \in P /\ \A j \in P : first <= j
    BY <1>1
  <1> HIDE DEF first
  <1>3. first = k
    BY <1>2
  <1>4. QED
    BY <1>3 DEF first

\* What a session has yet to find does not depend on what it selected.
LEMMA ProvidersFacts ==
  ASSUME NEW s \in Sessions
  PROVE  /\ Providers(s) \subseteq 1 .. Len(Order)
         /\ Providers(s) \subseteq Nat
         /\ loaded' = loaded /\ asked'[s] = asked[s] =>
              /\ Providers(s)' = Providers(s)
              /\ FirstProvider(s)' = FirstProvider(s)
         /\ InLoop(s) => (at[s] \in Providers(s) <=>
              Here(s) \in loaded /\ asked[s] \in Provides[Here(s)])
  <1>1. Providers(s) \subseteq 1 .. Len(Order)
    BY Apart DEF Providers
  <1>2. Providers(s) \subseteq Nat
    BY <1>1, Apart
  <1>3. loaded' = loaded /\ asked'[s] = asked[s] => Providers(s)' = Providers(s)
    BY DEF Providers
  <1>4. loaded' = loaded /\ asked'[s] = asked[s]
          => FirstProvider(s)' = FirstProvider(s)
    BY <1>3 DEF FirstProvider
  <1>5. InLoop(s) => (at[s] \in Providers(s) <=>
          Here(s) \in loaded /\ asked[s] \in Provides[Here(s)])
    BY DEF InLoop, Here, Providers
  <1>6. QED
    BY <1>1, <1>2, <1>3, <1>4, <1>5

\* Every step keeps it.
LEMMA NextSelectInv == RegistryInv /\ SelectInv /\ [Next]_vars => SelectInv'
  <1> SUFFICES ASSUME RegistryInv, SelectInv, [Next]_vars,
                      NEW s \in Sessions, fresh'[s]
               PROVE  IF s \in lost' THEN FindsSome(s)' ELSE FindsFirst(s)'
    BY DEF SelectInv
  <1>1. /\ RegistryTypes /\ EntriesInv
        /\ step[s] = "look" => at[s] # 0
        /\ step[s] = "test" => InLoop(s)
    BY DEF RegistryInv, HandlerInv
  <1>2. fresh[s] => IF s \in lost THEN FindsSome(s) ELSE FindsFirst(s)
    BY DEF SelectInv
  <1>3. /\ Providers(s) \subseteq 1 .. Len(Order) /\ Providers(s) \subseteq Nat
        /\ loaded' = loaded /\ asked'[s] = asked[s] =>
             /\ Providers(s)' = Providers(s)
             /\ FirstProvider(s)' = FirstProvider(s)
        /\ InLoop(s) => (at[s] \in Providers(s) <=>
             Here(s) \in loaded /\ asked[s] \in Provides[Here(s)])
    BY ProvidersFacts
  <1>4. ASSUME UNCHANGED <<loaded, fresh>>, asked'[s] = asked[s],
               at'[s] = at[s], selected'[s] = selected[s],
               s \in lost' <=> s \in lost,
               step'[s] = step[s] \/ (LookedUp(s)' /\ LookedUp(s))
        PROVE  IF s \in lost' THEN FindsSome(s)' ELSE FindsFirst(s)'
    <2>1. /\ LookedUp(s)' <=> LookedUp(s)
          /\ step'[s] = "test" => step[s] = "test" /\ Here(s)' = Here(s)
      BY <1>4 DEF LookedUp, Here
    <2>2. FindsSome(s) => FindsSome(s)'
      BY <1>3, <1>4, <2>1 DEF FindsSome
    <2>3. FindsFirst(s) => FindsFirst(s)'
      BY <1>3, <1>4, <2>1 DEF FindsFirst
    <2>4. QED
      BY <1>2, <1>4, <2>2, <2>3
  <1>5. CASE Undisturbed(s)
    <2>1. /\ loaded' = loaded /\ fresh'[s] = fresh[s] /\ asked'[s] = asked[s]
          /\ at'[s] = at[s] /\ selected'[s] = selected[s]
          /\ step'[s] = step[s] /\ (s \in lost' <=> s \in lost)
      BY <1>5 DEF Undisturbed
    <2>2. /\ LookedUp(s)' <=> LookedUp(s)
          /\ Here(s)' = Here(s)
      BY <2>1 DEF LookedUp, Here
    <2>3. FindsSome(s) => FindsSome(s)'
      BY <1>3, <2>1, <2>2 DEF FindsSome
    <2>4. FindsFirst(s) => FindsFirst(s)'
      BY <1>3, <2>1, <2>2 DEF FindsFirst
    <2>5. QED
      BY <1>2, <2>1, <2>3, <2>4
  <1>6. ~Reloaded(s)
    BY DEF Reloaded
  <1>7. ASSUME NEW name \in Names, Text(s, name)
        PROVE  FindsSome(s)' /\ FindsFirst(s)'
    <2>1. at'[s] = 1 /\ step'[s] = "look"
      BY <1>1, <1>7 DEF Text, GoesTo, RegistryTypes
    <2>2. Providers(s)' \subseteq 1 .. Len(Order)
      BY Apart DEF Providers
    <2>3. \A i \in Providers(s)' : at'[s] <= i
      BY <2>1, <2>2, Apart
    <2>4. QED
      BY <2>1, <2>3 DEF FindsSome, FindsFirst, LookedUp
  <1>8. ASSUME UNCHANGED <<loaded, asked, lost, fresh>>, ~LookedUp(s),
               InLoop(s), at[s] \notin Providers(s), step'[s] = "look",
               at' = [at EXCEPT ![s] = @ + 1]
        PROVE  IF s \in lost' THEN FindsSome(s)' ELSE FindsFirst(s)'
    <2>1. at[s] \in Nat /\ at'[s] = at[s] + 1
      BY <1>1, <1>8, HereFacts, Apart DEF RegistryTypes
    <2>2. \A i \in Providers(s) : i \in Nat /\ i # at[s]
      BY <1>3, <1>8
    <2>3. FindsSome(s)'
      BY <1>8 DEF FindsSome, LookedUp
    <2>4. s \notin lost => \A i \in Providers(s) : at[s] <= i
      BY <1>2, <1>8 DEF FindsFirst
    <2>5. s \notin lost => \A i \in Providers(s)' : at'[s] <= i
      BY <1>3, <1>8, <2>1, <2>2, <2>4
    <2>6. s \notin lost => FindsFirst(s)'
      BY <1>8, <2>5 DEF FindsFirst, LookedUp
    <2>7. QED
      BY <1>8, <2>3, <2>6
  <1>9. CASE PassOver(s)
    <2>1. /\ UNCHANGED <<loaded, asked, lost, fresh>> /\ step'[s] = "look"
          /\ ~LookedUp(s) /\ InLoop(s) /\ Here(s) \notin loaded
          /\ at' = [at EXCEPT ![s] = @ + 1]
      BY <1>9 DEF PassOver, Handler, LookedUp, registry
    <2>2. QED
      BY <1>3, <1>8, <2>1
  <1>10. CASE NotFound(s)
    <2>1. /\ UNCHANGED <<loaded, asked, selected, lost, fresh>>
          /\ ~LookedUp(s) /\ step[s] = "test"
          /\ at' = [at EXCEPT ![s] = @ + 1]
          /\ ~Callable(selected[s], asked[s]) /\ step'[s] = "look"
      BY <1>1, <1>10
      DEF NotFound, Handler, GoesTo, LookedUp, registry, RegistryTypes
    <2>2. InLoop(s) /\ Here(s) \in Plugins
      BY <1>1, <2>1, HereFacts
    <2>3. CASE s \in lost
      BY <2>1, <2>3 DEF FindsSome, LookedUp
    <2>4. CASE s \notin lost
      <3>1. selected[s] = Here(s) /\ Here(s) \in loaded
        BY <1>2, <2>1, <2>4 DEF FindsFirst
      <3>2. at[s] \notin Providers(s)
        BY <1>1, <1>3, <2>1, <2>2, <3>1 DEF EntriesInv
      <3>3. QED
        BY <1>8, <2>1, <2>2, <3>2
    <2>5. QED
      BY <2>3, <2>4
  <1>11. CASE LookIn(s)
    <2>1. /\ UNCHANGED <<loaded, asked, at, lost, fresh>>
          /\ step[s] = "look" /\ step'[s] = "test"
          /\ InLoop(s) /\ Here(s) \in loaded /\ selected'[s] = Here(s)
      BY <1>1, <1>11 DEF LookIn, Handler, GoesTo, Assign, RegistryTypes
    <2>2. Here(s)' = Here(s)
      BY <2>1 DEF Here
    <2>3. QED
      BY <1>2, <1>3, <2>1, <2>2 DEF FindsSome, FindsFirst, LookedUp
  <1>12. CASE LookInServer(s)
    <2>1. /\ UNCHANGED <<loaded, asked, lost, fresh>>
          /\ step[s] = "look" /\ at[s] = Len(Order) + 1 /\ step'[s] = "idle"
          /\ selected'[s] = "server"
      BY <1>1, <1>12 DEF LookInServer, Handler, GoesTo, Assign, RegistryTypes
    <2>2. s \notin lost => \A i \in Providers(s) : at[s] <= i
      BY <1>2, <2>1 DEF FindsFirst, LookedUp
    <2>3. s \notin lost => Providers(s) = {}
      BY <1>3, <2>1, <2>2, Apart
    <2>4. s \notin lost => FirstProvider(s)' = "server"
      BY <1>3, <2>1, <2>3 DEF FirstProvider
    <2>5. QED
      BY <2>1, <2>4 DEF FindsSome, FindsFirst, LookedUp
  <1>13. CASE Found(s)
    <2>1. /\ UNCHANGED <<loaded, asked, selected, lost, fresh>>
          /\ step[s] = "test" /\ step'[s] = "idle"
          /\ Callable(selected[s], asked[s])
      BY <1>1, <1>13 DEF Found, Handler, GoesTo, registry, RegistryTypes
    <2>2. CASE selected[s] = "server"
      <3>1. s \in lost
        <4>1. InLoop(s) /\ Here(s) \in Plugins
          BY <1>1, <2>1, HereFacts
        <4>2. QED
          BY <1>2, <2>1, <2>2, <4>1, Apart DEF FindsFirst
      <3>2. QED
        BY <2>1, <2>2, <3>1 DEF FindsSome
    <2>3. CASE selected[s] \in Plugins
      <3>1. selected[s] \in loaded /\ asked[s] \in Provides[selected[s]]
        BY <1>1, <2>1, <2>3 DEF EntriesInv
      <3>2. \E i \in Providers(s) : selected[s] = Order[i]
        BY <2>3, <3>1, Apart DEF Providers
      <3>3. ASSUME s \notin lost PROVE selected[s] = FirstProvider(s)
        <4>1. /\ selected[s] = Here(s) /\ InLoop(s) /\ Here(s) \in loaded
              /\ \A i \in Providers(s) : at[s] <= i
          BY <1>1, <1>2, <2>1, <3>3 DEF FindsFirst, LookedUp
        <4>2. at[s] \in Providers(s)
          BY <1>3, <3>1, <4>1
        <4>3. at[s] = CHOOSE i \in Providers(s) :
                        \A j \in Providers(s) : i <= j
          BY <1>3, <4>1, <4>2, FirstIsLeast
        <4>4. FirstProvider(s) = Order[at[s]]
          BY <4>2, <4>3 DEF FirstProvider
        <4>5. QED
          BY <4>1, <4>4 DEF Here
      <3>4. QED
        BY <1>3, <2>1, <3>2, <3>3 DEF FindsSome, FindsFirst, LookedUp
    <2>4. QED
      BY <2>1, <2>2, <2>3 DEF Callable, Places
  <1>14. CASE FindDangling(s) \/ UseEmpty(s) \/ BinaryUnanswered(s)
              \/ BinaryDangling(s)
    <2>1. UNCHANGED <<loaded, asked, step, at, selected, lost, fresh>>
      BY <1>14
      DEF FindDangling, UseEmpty, BinaryUnanswered, BinaryDangling, registry
    <2>2. QED
      BY <1>4, <2>1
  <1>15. CASE Binary(s) \/ EndBinary(s)
    <2>1. /\ UNCHANGED <<loaded, asked, at, selected, lost, fresh>>
          /\ LookedUp(s) /\ LookedUp(s)'
      BY <1>1, <1>15
      DEF Binary, EndBinary, Handler, GoesTo, registry, RegistryTypes, LookedUp
    <2>2. QED
      BY <1>4, <2>1
  <1>16. CASE Use(s)
    <2>1. /\ UNCHANGED <<loaded, asked, at, selected, lost, fresh>>
          /\ LookedUp(s) /\ LookedUp(s)'
      BY <1>1, <1>16
      DEF Use, Clear, Handler, GoesTo, registry, RegistryTypes, LookedUp
    <2>2. QED
      BY <1>4, <2>1
  <1>17. CASE WriteFails(s)
    BY <1>1, <1>17 DEF WriteFails, RegistryTypes, FindsSome
  <1>18. QED
    BY <1>5, <1>6, <1>7, <1>9, <1>10, <1>11, <1>12, <1>13, <1>14, <1>15, <1>16,
       <1>17, SessionStep DEF Session, Lookup

\* As long as nobody reloads, a session gets the service of the first plugin
\* that registered the name, however many sessions look up what names at once;
\* when a reply to it fails meanwhile, some provider, the server, or nothing.
THEOREM FirstSelected == RegistrySpec => []SelectsFirstProvider
  <1>1. RegistryInit => SelectInv
    BY DEF RegistryInit, SelectInv
  <1>2. SelectInv => SelectsFirstProvider
    BY DEF SelectInv, FindsFirst, FindsSome, SelectsFirstProvider
  <1>3. QED
    BY <1>1, <1>2, NextSelectInv, RegistryInvCorrect, PTL DEF RegistrySpec

-----------------------------------------------------------------------------

(***************************************************************************)
(* What normalized_uri takes for the path, for every URI, of any length.   *)
(***************************************************************************)

\* The provers do not know that what is quoted is a string.
Token == STRING \cup {"/", ":", "?", "#", "host"}
Texts == Seq(Token)

\* A member below which there is none.
LEMMA MinIs ==
  ASSUME NEW S \in SUBSET Int, NEW n \in S, \A m \in S : n <= m
  PROVE  Min(S) = n
  <1>1. \A x \in S : (\A y \in S : x <= y) => x = n
    OBVIOUS
  <1>2. QED
    BY <1>1 DEF Min

\* Two texts after one another.
LEMMA Joined ==
  ASSUME NEW p \in Texts, NEW q \in Texts
  PROVE  /\ p \o q \in Texts
         /\ Len(p \o q) = Len(p) + Len(q)
         /\ \A i \in 1 .. Len(p) : (p \o q)[i] = p[i]
         /\ \A i \in 1 .. Len(q) : (p \o q)[Len(p) + i] = q[i]
         /\ SubSeq(p \o q, 1, Len(p)) = p
         /\ SubSeq(p \o q, Len(p) + 1, Len(p \o q)) = q
  <1>1. /\ p \o q \in Texts
        /\ Len(p \o q) = Len(p) + Len(q)
        /\ \A i \in 1 .. Len(p) : (p \o q)[i] = p[i]
        /\ \A i \in 1 .. Len(q) : (p \o q)[Len(p) + i] = q[i]
    BY DEF Texts
  <1>2. SubSeq(p \o q, 1, Len(p)) = p
    <2> DEFINE s == SubSeq(p \o q, 1, Len(p))
    <2>1. /\ s \in Seq(Token) /\ Len(s) = Len(p)
          /\ \A i \in 1 .. Len(s) : s[i] = p[i]
      BY <1>1 DEF Texts
    <2> HIDE DEF s
    <2>2. s = p
      BY <2>1, SeqEqual DEF Texts
    <2>3. QED
      BY <2>2 DEF s
  <1>3. SubSeq(p \o q, Len(p) + 1, Len(p \o q)) = q
    <2> DEFINE s == SubSeq(p \o q, Len(p) + 1, Len(p \o q))
    <2>1. /\ s \in Seq(Token) /\ Len(s) = Len(q)
          /\ \A i \in 1 .. Len(s) : s[i] = q[i]
      BY <1>1 DEF Texts
    <2> HIDE DEF s
    <2>2. s = q
      BY <2>1, SeqEqual DEF Texts
    <2>3. QED
      BY <2>2 DEF s
  <1>4. QED
    BY <1>1, <1>2, <1>3

\* Parentheses between texts say nothing.
LEMMA JoinedThrice ==
  \A p, q, r \in Texts : (p \o q) \o r = p \o (q \o r)
  BY ConcatAssociative DEF Texts

\* A token is in either text.
LEMMA JoinedContains ==
  ASSUME NEW p \in Texts, NEW q \in Texts, NEW t
  PROVE  Contains(p \o q, t) <=> Contains(p, t) \/ Contains(q, t)
  <1>1. Len(p) \in Nat /\ Len(q) \in Nat
    BY DEF Texts
  <1> DEFINE r == p \o q
  <1>2. /\ Len(r) = Len(p) + Len(q)
        /\ \A i \in 1 .. Len(p) : r[i] = p[i]
        /\ \A i \in 1 .. Len(q) : r[Len(p) + i] = q[i]
    BY Joined
  <1> HIDE DEF r
  <1>3. ASSUME NEW i \in 1 .. Len(r), r[i] = t
        PROVE  Contains(p, t) \/ Contains(q, t)
    <2>1. CASE i \in 1 .. Len(p)
      BY <1>2, <1>3, <2>1 DEF Contains
    <2>2. CASE i \notin 1 .. Len(p)
      <3>1. i - Len(p) \in 1 .. Len(q) /\ i = Len(p) + (i - Len(p))
        BY <1>1, <1>2, <2>2
      <3>2. q[i - Len(p)] = t
        BY <1>2, <1>3, <3>1
      <3>3. QED
        BY <3>1, <3>2 DEF Contains
    <2>3. QED
      BY <2>1, <2>2
  <1>4. ASSUME NEW i \in 1 .. Len(p), p[i] = t PROVE Contains(r, t)
    <2>1. i \in 1 .. Len(r) /\ r[i] = t
      BY <1>1, <1>2, <1>4
    <2>2. QED
      BY <2>1 DEF Contains
  <1>5. ASSUME NEW i \in 1 .. Len(q), q[i] = t PROVE Contains(r, t)
    <2>1. Len(p) + i \in 1 .. Len(r) /\ r[Len(p) + i] = t
      BY <1>1, <1>2, <1>5
    <2>2. QED
      BY <2>1 DEF Contains
  <1>6. Contains(r, t) <=> Contains(p, t) \/ Contains(q, t)
    BY <1>3, <1>4, <1>5 DEF Contains
  <1>7. QED
    BY <1>6 DEF r

\* What is before the first token of a kind.
LEMMA BeforeFirst ==
  ASSUME NEW t, NEW p \in Texts, NEW q \in Texts,
         ~Contains(p, t), q # <<>>, q[1] = t
  PROVE  Contains(p \o q, t) /\ Before(p \o q, t) = p
  <1> DEFINE r == p \o q
             S == {i \in DOMAIN r : r[i] = t}
             n == Len(p) + 1
  <1>1. /\ Len(p) \in Nat /\ Len(q) \in Nat \ {0} /\ 1 \in 1 .. Len(q)
        /\ DOMAIN r = 1 .. Len(r)
    BY DEF Texts
  <1>2. /\ Len(r) = Len(p) + Len(q)
        /\ \A i \in 1 .. Len(p) : r[i] = p[i]
        /\ \A i \in 1 .. Len(q) : r[Len(p) + i] = q[i]
        /\ SubSeq(r, 1, Len(p)) = p
    BY Joined
  <1> HIDE DEF r
  <1>3. n \in 1 .. Len(r) /\ r[n] = t
    <2>1. r[Len(p) + 1] = q[1]
      BY <1>1, <1>2
    <2>2. QED
      BY <1>1, <1>2, <2>1
  <1>4. ASSUME NEW i \in 1 .. Len(r), r[i] = t PROVE n <= i
    <2> SUFFICES ASSUME i < n PROVE FALSE
      BY <1>1
    <2>1. i \in 1 .. Len(p)
      BY <1>1
    <2>2. p[i] = t
      BY <1>2, <1>4, <2>1
    <2>3. QED
      BY <2>1, <2>2 DEF Contains
  <1>5. n \in S /\ S \in SUBSET Int /\ \A i \in S : n <= i
    <2>1. S = {i \in 1 .. Len(r) : r[i] = t}
      BY <1>1
    <2> HIDE DEF S, n
    <2>2. n \in S
      BY <1>3, <2>1
    <2>3. \A i \in S : n <= i
      BY <1>4, <2>1
    <2>4. S \in SUBSET Int
      BY <1>1, <1>2, <2>1
    <2>5. QED
      BY <2>2, <2>3, <2>4
  <1> HIDE DEF S
  <1>6. Min(S) = n
    <2> HIDE DEF n
    <2>1. QED
      BY <1>5, MinIs
  <1>7. Min(S) - 1 = Len(p)
    BY <1>1, <1>6
  <1>8. Before(r, t) = p
    BY <1>2, <1>7 DEF Before, S
  <1>9. Contains(r, t)
    BY <1>3 DEF Contains
  <1>10. QED
    BY <1>8, <1>9 DEF r

\* The host of a URI.
Authority == <<":", "/", "/", "host">>

\* The three tokens from a place.
LEMMA Triple ==
  ASSUME NEW r \in Texts, NEW i \in 1 .. Len(r) - 2
  PROVE  SubSeq(r, i, i + 2) = <<r[i], r[i + 1], r[i + 2]>>
  <1> DEFINE a == SubSeq(r, i, i + 2)
             b == <<r[i], r[i + 1], r[i + 2]>>
  <1>1. a \in Seq(Token) /\ Len(a) = 3
    BY DEF Texts
  <1>2. a[1] = r[i] /\ a[2] = r[i + 1] /\ a[3] = r[i + 2]
    BY DEF Texts
  <1>3. r[i] \in Token /\ r[i + 1] \in Token /\ r[i + 2] \in Token
    BY DEF Texts
  <1>4. /\ b \in Seq(Token) /\ Len(b) = 3
        /\ b[1] = r[i] /\ b[2] = r[i + 1] /\ b[3] = r[i + 2]
    BY <1>3
  <1> HIDE DEF a, b
  <1>5. \A j \in 1 .. 3 : a[j] = b[j]
    <2>1. \A j \in 1 .. 3 : j = 1 \/ j = 2 \/ j = 3
      OBVIOUS
    <2>2. QED
      BY <1>2, <1>4, <2>1
  <1>6. a = b
    BY <1>1, <1>4, <1>5, SeqEqual
  <1>7. QED
    BY <1>6 DEF a, b

\* The text of a scheme and a host is not part of the path.
LEMMA SchemeDropped ==
  ASSUME NEW s \in Texts, ~Contains(s, ":"),
         NEW p \in Texts, p # <<>>, p[1] = "/"
  PROVE  WithoutScheme(s \o Authority \o p) = Tail(p)
  <1> DEFINE h == s \o Authority
             r == h \o p
             k == Len(s) + 1
  <1>1. /\ Authority \in Texts /\ Len(Authority) = 4
        /\ Authority[1] = ":" /\ Authority[2] = "/" /\ Authority[3] = "/"
        /\ Authority[4] = "host"
    <2>1. ":" \in Token /\ "/" \in Token /\ "host" \in Token
      BY DEF Token
    <2>2. QED
      BY <2>1 DEF Authority, Texts
  <1>2. /\ Len(s) \in Nat /\ Len(p) \in Nat \ {0} /\ 1 \in 1 .. Len(p)
    BY DEF Texts
  <1>3. /\ h \in Texts /\ Len(h) = Len(s) + 4
        /\ \A i \in 1 .. Len(s) : h[i] = s[i]
        /\ \A i \in 1 .. 4 : h[Len(s) + i] = Authority[i]
    <2> HIDE DEF h
    <2>1. /\ h \in Texts /\ Len(h) = Len(s) + Len(Authority)
          /\ \A i \in 1 .. Len(s) : h[i] = s[i]
          /\ \A i \in 1 .. Len(Authority) : h[Len(s) + i] = Authority[i]
      BY <1>1, Joined DEF h
    <2>2. QED
      BY <1>1, <2>1
  <1>4. /\ r \in Texts /\ Len(r) = Len(h) + Len(p)
        /\ \A i \in 1 .. Len(h) : r[i] = h[i]
        /\ \A i \in 1 .. Len(p) : r[Len(h) + i] = p[i]
        /\ SubSeq(r, Len(h) + 1, Len(r)) = p
    <2> HIDE DEF h
    <2>1. h \in Texts
      BY <1>3
    <2>2. QED
      BY <2>1, Joined
  <1>5. DOMAIN r = 1 .. Len(r)
    BY <1>4 DEF Texts
  <1> HIDE DEF r, h
  <1>6. /\ r[k] = ":" /\ r[k+1] = "/" /\ r[k+2] = "/" /\ r[k+3] = "host"
        /\ r[k+4] = "/" /\ Len(h) = k + 3 /\ k \in 1 .. Len(r) - 2
        /\ k + 4 \in 1 .. Len(r)
    BY <1>1, <1>2, <1>3, <1>4
  <1>7. k \in SchemeStarts(r)
    <2>1. SubSeq(r, k, k + 2) = <<":", "/", "/">>
      <3> HIDE DEF k
      <3>1. SubSeq(r, k, k + 2) = <<r[k], r[k + 1], r[k + 2]>>
        BY <1>4, <1>6, Triple
      <3>2. QED
        BY <1>6, <3>1
    <2>2. QED
      BY <1>6, <2>1 DEF SchemeStarts
  <1>8. ASSUME NEW i \in SchemeStarts(r) PROVE i \in Int /\ k <= i
    <2>1. i \in 1 .. Len(r) - 2 /\ SubSeq(r, i, i + 2) = <<":", "/", "/">>
      BY DEF SchemeStarts
    <2>2. r[i] = ":"
      <3>1. <<r[i], r[i + 1], r[i + 2]>> = <<":", "/", "/">>
        BY <1>4, <2>1, Triple
      <3>2. QED
        BY <3>1
    <2>3. SUFFICES ASSUME i < k PROVE FALSE
      BY <2>1, <1>2, <1>4
    <2>4. i \in 1 .. Len(s)
      BY <2>1, <2>3, <1>2
    <2>5. s[i] = ":"
      BY <2>2, <2>4, <1>2, <1>3, <1>4
    <2>6. QED
      BY <2>4, <2>5 DEF Contains
  <1>9. SlashesAfterScheme(r) = {j \in 1 .. Len(r) : r[j] = "/" /\ k + 2 < j}
    <2>1. \A i \in SchemeStarts(r) :
            (\A g \in SchemeStarts(r) : i <= g) <=> i = k
      BY <1>2, <1>7, <1>8
    <2>2. QED
      BY <1>5, <1>7, <2>1 DEF SlashesAfterScheme
  <1> DEFINE S == SlashesAfterScheme(r)
             n == k + 4
  <1>10. n \in S /\ S \in SUBSET Int /\ \A j \in S : n <= j
    <2>1. n \in S /\ S \in SUBSET Int
      BY <1>2, <1>6, <1>9
    <2>2. ASSUME NEW j \in S PROVE n <= j
      <3>1. j \in 1 .. Len(r) /\ r[j] = "/" /\ k + 2 < j
        BY <1>9
      <3>2. j # k + 3
        BY <1>6, <3>1
      <3>3. QED
        BY <1>2, <3>1, <3>2
    <2>3. QED
      BY <2>1, <2>2
  <1>11. Min(S) = n
    <2> HIDE DEF S, n
    <2>1. QED
      BY <1>10, MinIs
  <1>12. WithoutScheme(r) = SubSeq(r, Len(h) + 2, Len(r))
    <2>1. S # {} /\ Min(S) + 1 = Len(h) + 2
      BY <1>2, <1>6, <1>10, <1>11
    <2>2. QED
      BY <2>1 DEF WithoutScheme
  <1>13. WithoutScheme(r) = Tail(p)
    <2>1. Tail(p) = SubSeq(p, 2, Len(p))
      BY TailIsSubSeq DEF Texts
    <2> DEFINE a == SubSeq(r, Len(h) + 2, Len(r))
               b == Tail(p)
    <2>2. b \in Seq(Token) /\ Len(b) = Len(p) - 1
          /\ \A i \in 1 .. Len(b) : b[i] = p[i + 1]
      BY HeadTailProperties DEF Texts
    <2>3. a \in Seq(Token) /\ Len(a) = Len(p) - 1
          /\ \A i \in 1 .. Len(a) : a[i] = r[Len(h) + i + 1]
      BY <1>2, <1>3, <1>4 DEF Texts
    <2> HIDE DEF a, b
    <2>4. ASSUME NEW i \in 1 .. Len(a) PROVE a[i] = b[i]
      <3>1. i + 1 \in 1 .. Len(p) /\ Len(h) + i + 1 = Len(h) + (i + 1)
        BY <1>2, <1>3, <2>3
      <3>2. r[Len(h) + (i + 1)] = p[i + 1]
        BY <1>4, <3>1
      <3>3. QED
        BY <2>2, <2>3, <3>1, <3>2
    <2>5. a = b
      BY <2>2, <2>3, <2>4, SeqEqual
    <2>6. QED
      BY <1>12, <2>5 DEF a, b
  <1>14. QED
    BY <1>13 DEF r, h

\* A path without its first token.
LEMMA TailJoined ==
  ASSUME NEW p \in Texts, NEW q \in Texts, p # <<>>
  PROVE  /\ Tail(p) \in Texts
         /\ Tail(p \o q) = Tail(p) \o q
         /\ p \o q # <<>> /\ (p \o q)[1] = p[1]
         /\ \A t : Contains(Tail(p), t) => Contains(p, t)
  <1> DEFINE r == p \o q
             a == Tail(p)
  <1>1. /\ Len(p) \in Nat \ {0} /\ Len(q) \in Nat
    BY DEF Texts
  <1>2. /\ r \in Seq(Token) /\ Len(r) = Len(p) + Len(q)
        /\ \A i \in 1 .. Len(p) : r[i] = p[i]
        /\ \A i \in 1 .. Len(q) : r[Len(p) + i] = q[i]
    BY Joined DEF Texts
  <1> HIDE DEF r
  <1>3. r # <<>> /\ r[1] = p[1]
    BY <1>1, <1>2
  <1>4. /\ a \in Texts /\ Len(a) = Len(p) - 1
        /\ \A i \in 1 .. Len(a) : a[i] = p[i + 1]
    BY HeadTailProperties DEF Texts
  <1>5. ASSUME NEW t, Contains(a, t) PROVE Contains(p, t)
    <2> HIDE DEF a
    <2>1. PICK i \in 1 .. Len(a) : a[i] = t
      BY <1>5 DEF Contains
    <2>2. i + 1 \in 1 .. Len(p) /\ p[i + 1] = t
      BY <1>1, <1>4, <2>1
    <2>3. QED
      BY <2>2 DEF Contains
  <1> DEFINE b == Tail(r)
             c == a \o q
  <1>6. /\ b \in Seq(Token) /\ Len(b) = Len(r) - 1
        /\ \A i \in 1 .. Len(b) : b[i] = r[i + 1]
    BY <1>2, <1>3, HeadTailProperties
  <1>7. /\ c \in Seq(Token) /\ Len(c) = Len(a) + Len(q)
        /\ \A i \in 1 .. Len(a) : c[i] = a[i]
        /\ \A i \in 1 .. Len(q) : c[Len(a) + i] = q[i]
    <2> HIDE DEF a
    <2>1. a \in Texts
      BY <1>4
    <2>2. QED
      BY <2>1, Joined DEF Texts
  <1> HIDE DEF a, b, c
  <1>8. ASSUME NEW i \in 1 .. Len(b) PROVE b[i] = c[i]
    <2>1. CASE i \in 1 .. Len(a)
      <3>1. i + 1 \in 1 .. Len(p)
        BY <1>1, <1>4, <2>1
      <3>2. r[i + 1] = p[i + 1]
        BY <1>2, <3>1
      <3>3. QED
        BY <1>4, <1>6, <1>7, <2>1, <3>2
    <2>2. CASE i \notin 1 .. Len(a)
      <3>1. /\ i - Len(a) \in 1 .. Len(q) /\ i = Len(a) + (i - Len(a))
            /\ i + 1 = Len(p) + (i - Len(a))
        BY <1>1, <1>2, <1>4, <1>6, <2>2
      <3>2. r[i + 1] = q[i - Len(a)] /\ c[i] = q[i - Len(a)]
        BY <1>2, <1>7, <3>1
      <3>3. QED
        BY <1>6, <3>2
    <2>3. QED
      BY <2>1, <2>2
  <1>9. b = c
    <2>1. Len(b) = Len(c)
      BY <1>1, <1>2, <1>4, <1>6, <1>7
    <2>2. QED
      BY <1>6, <1>7, <1>8, <2>1, SeqEqual
  <1>10. QED
    BY <1>3, <1>4, <1>5, <1>9 DEF a, b, c, r

\* The texts a URI is made of: a scheme has no colon, a path begins with a
\* slash, and a question mark ends it, a number sign it or the query.
IsUri(u) ==
  /\ u.scheme # <<>>
       => u.scheme[1] \in Texts /\ ~Contains(u.scheme[1], ":")
  /\ u.path \in Texts /\ u.path # <<>> /\ u.path[1] = "/"
  /\ ~Contains(u.path, "?") /\ ~Contains(u.path, "#")
  /\ u.query # <<>> => u.query[1] \in Texts /\ ~Contains(u.query[1], "#")
  /\ u.fragment # <<>> => u.fragment[1] \in Texts

\* What is read as the path: of a URI with a host, all but the first slash.
Named(u) == IF u.scheme = <<>> THEN u.path ELSE Tail(u.path)

\* The text of a query and of a fragment.
QueryText(u) ==
  IF u.query = <<>> THEN <<>> ELSE <<"?">> \o u.query[1]
FragmentText(u) ==
  IF u.fragment = <<>> THEN <<>> ELSE <<"#">> \o u.fragment[1]

\* A separator and what follows it.
LEMMA Separated ==
  ASSUME NEW c \in Token, NEW q \in Texts
  PROVE  /\ <<c>> \o q \in Texts /\ <<c>> \o q # <<>> /\ (<<c>> \o q)[1] = c
         /\ \A t : Contains(<<c>> \o q, t) <=> t = c \/ Contains(q, t)
  <1>1. <<c>> \in Texts /\ <<c>> # <<>> /\ <<c>>[1] = c
    BY DEF Texts
  <1>2. \A t : Contains(<<c>>, t) <=> t = c
    BY <1>1 DEF Contains
  <1>3. QED
    BY <1>1, <1>2, TailJoined, JoinedContains, Joined

\* The parts of a URI are what they should be.
LEMMA UriTexts ==
  ASSUME NEW u, IsUri(u)
  PROVE  /\ Named(u) \in Texts
         /\ ~Contains(Named(u), "?") /\ ~Contains(Named(u), "#")
         /\ QueryText(u) \in Texts /\ ~Contains(QueryText(u), "#")
         /\ FragmentText(u) \in Texts
         /\ u.query # <<>> => QueryText(u) # <<>> /\ QueryText(u)[1] = "?"
         /\ u.fragment # <<>>
              => FragmentText(u) # <<>> /\ FragmentText(u)[1] = "#"
  <1>1. "?" \in Token /\ "#" \in Token
    BY DEF Token
  <1>2. <<>> \in Texts /\ \A t : ~Contains(<<>>, t)
    BY DEF Texts, Contains
  <1>3. /\ Named(u) \in Texts
        /\ ~Contains(Named(u), "?") /\ ~Contains(Named(u), "#")
    BY <1>2, TailJoined DEF IsUri, Named
  <1>4. /\ QueryText(u) \in Texts /\ ~Contains(QueryText(u), "#")
        /\ u.query # <<>> => QueryText(u) # <<>> /\ QueryText(u)[1] = "?"
    BY <1>1, <1>2, Separated DEF IsUri, QueryText
  <1>5. /\ FragmentText(u) \in Texts
        /\ u.fragment # <<>>
             => FragmentText(u) # <<>> /\ FragmentText(u)[1] = "#"
    BY <1>1, <1>2, Separated DEF IsUri, FragmentText
  <1>6. QED
    BY <1>3, <1>4, <1>5

\* What is left of a target without its scheme and host.
LEMMA TargetWithoutScheme ==
  ASSUME NEW u, IsUri(u),
         u.scheme = <<>> => SlashesAfterScheme(Target(u)) = {}
  PROVE  WithoutScheme(Target(u))
           = Named(u) \o (QueryText(u) \o FragmentText(u))
  <1> DEFINE rest == QueryText(u) \o FragmentText(u)
  <1>1. rest \in Texts /\ u.path \in Texts
    BY UriTexts, Joined DEF IsUri
  <1>2. \A h \in Texts : ((h \o u.path) \o QueryText(u)) \o FragmentText(u)
                          = h \o (u.path \o rest)
    <2> SUFFICES ASSUME NEW h \in Texts
                 PROVE  ((h \o u.path) \o QueryText(u)) \o FragmentText(u)
                          = h \o (u.path \o rest)
      OBVIOUS
    <2>1. h \o u.path \in Texts
      BY <1>1, Joined
    <2>2. ((h \o u.path) \o QueryText(u)) \o FragmentText(u)
            = (h \o u.path) \o rest
      <3>1. QueryText(u) \in Texts /\ FragmentText(u) \in Texts
        BY UriTexts
      <3>2. QED
        BY <2>1, <3>1, JoinedThrice
    <2> HIDE DEF rest
    <2>3. QED
      BY <1>1, <2>2, JoinedThrice
  <1> HIDE DEF rest
  <1>3. CASE u.scheme = <<>>
    <2>1. Target(u) = <<>> \o (u.path \o rest)
      <3>1. Target(u) = ((<<>> \o u.path) \o QueryText(u)) \o FragmentText(u)
        BY <1>3 DEF Target, QueryText, FragmentText
      <3>2. <<>> \in Texts
        BY DEF Texts
      <3>3. QED
        BY <1>2, <3>1, <3>2
    <2>2. u.path \o rest \in Texts
      BY <1>1, Joined
    <2>3. Target(u) = u.path \o rest
      BY <2>1, <2>2, ConcatEmptySeq DEF Texts
    <2>4. QED
      BY <1>3, <2>3 DEF WithoutScheme, Named, rest
  <1>4. CASE u.scheme # <<>>
    <2> DEFINE s == u.scheme[1]
    <2>1. s \in Texts /\ ~Contains(s, ":") /\ u.path # <<>> /\ u.path[1] = "/"
      BY <1>4 DEF IsUri
    <2>2. Target(u)
            = (((s \o Authority) \o u.path) \o QueryText(u)) \o FragmentText(u)
      BY <1>4 DEF Target, QueryText, FragmentText, Authority
    <2>3. Authority \in Texts
      BY DEF Authority, Texts, Token
    <2> HIDE DEF s
    <2>4. s \o Authority \in Texts
      BY <2>1, <2>3, Joined
    <2>5. Target(u) = (s \o Authority) \o (u.path \o rest)
      BY <1>2, <2>2, <2>4
    <2>6. /\ u.path \o rest \in Texts /\ u.path \o rest # <<>>
          /\ (u.path \o rest)[1] = "/"
          /\ Tail(u.path \o rest) = Tail(u.path) \o rest
      BY <1>1, <2>1, Joined, TailJoined
    <2>7. WithoutScheme(Target(u)) = Tail(u.path \o rest)
      BY <2>1, <2>5, <2>6, SchemeDropped
    <2>8. QED
      BY <1>4, <2>6, <2>7 DEF Named, rest
  <1>5. QED
    BY <1>3, <1>4

\* What normalized_uri takes for the path of a target that names its host, or in
\* which nothing looks as if it did: without a fragment, the path of the URI,
\* whatever its query; with a fragment, the path and the fragment; with both, the
\* path may be read out of a string that was overwritten.  UrlInQueryRead is
\* about the targets this leaves out.
THEOREM PathRead ==
  ASSUME NEW u, IsUri(u),
         u.scheme = <<>> => SlashesAfterScheme(Target(u)) = {}
  PROVE  /\ u.fragment = <<>> => PathsOf(Target(u)) = {Named(u)}
         /\ u.fragment # <<>> /\ u.query = <<>> /\ Named(u) # <<>>
              => PathsOf(Target(u)) = {Named(u) \o (<<"#">> \o u.fragment[1])}
         /\ u.fragment # <<>> /\ u.query # <<>>
              => PathsOf(Target(u)) = {Named(u), Overwritten}
  <1> DEFINE N == Named(u)
             Q == QueryText(u)
             F == FragmentText(u)
             uri == N \o (Q \o F)
  <1>1. WithoutScheme(Target(u)) = uri
    BY TargetWithoutScheme
  <1>2. /\ N \in Texts /\ ~Contains(N, "?") /\ ~Contains(N, "#")
        /\ Q \in Texts /\ ~Contains(Q, "#") /\ F \in Texts
        /\ u.query # <<>> => Q # <<>> /\ Q[1] = "?"
        /\ u.fragment # <<>> => F # <<>> /\ F[1] = "#"
        /\ u.query = <<>> => Q = <<>>
        /\ u.fragment = <<>> => F = <<>>
    BY UriTexts DEF QueryText, FragmentText
  <1>3. u.fragment # <<>> => F = <<"#">> \o u.fragment[1]
    BY DEF FragmentText
  <1> HIDE DEF N, Q, F
  <1>4. /\ N \o Q \in Texts /\ ~Contains(N \o Q, "#")
        /\ uri = (N \o Q) \o F
        /\ N \o <<>> = N /\ (N \o Q) \o <<>> = N \o Q
    <2>1. N \o Q \in Texts /\ ~Contains(N \o Q, "#")
      BY <1>2, Joined, JoinedContains
    <2>2. uri = (N \o Q) \o F
      BY <1>2, JoinedThrice
    <2>3. N \o <<>> = N /\ (N \o Q) \o <<>> = N \o Q
      BY <1>2, <2>1, ConcatEmptySeq DEF Texts
    <2>4. QED
      BY <2>1, <2>2, <2>3
  <1>5. u.query # <<>> => Contains(N \o Q, "?") /\ Before(N \o Q, "?") = N
    BY <1>2, BeforeFirst
  <1> HIDE DEF uri
  <1>6. CASE u.fragment = <<>>
    <2>1. uri = N \o Q /\ ~Contains(uri, "#")
      BY <1>2, <1>4, <1>6
    <2>2. CASE u.query = <<>>
      <3>1. uri = N
        BY <1>2, <1>4, <2>1, <2>2
      <3>2. PathsOf(Target(u)) = {N}
        BY <1>1, <1>2, <2>1, <3>1 DEF PathsOf
      <3>3. QED
        BY <1>6, <3>2 DEF N
    <2>3. CASE u.query # <<>>
      <3>1. PathsOf(Target(u)) = {N}
        BY <1>1, <1>5, <2>1, <2>3 DEF PathsOf
      <3>2. QED
        BY <1>6, <3>1 DEF N
    <2>4. QED
      BY <2>2, <2>3
  <1>7. CASE u.fragment # <<>>
    <2>1. Contains(uri, "#") /\ Before(uri, "#") = N \o Q
      BY <1>2, <1>4, <1>7, BeforeFirst
    <2>2. CASE u.query = <<>>
      <3>1. ASSUME N # <<>>
            PROVE  PathsOf(Target(u)) = {N \o F}
        <4>1. N \o Q = N /\ uri = N \o F
          BY <1>2, <1>4, <2>2
        <4>2. QED
          BY <1>1, <1>2, <2>1, <3>1, <4>1 DEF PathsOf
      <3>2. QED
        BY <1>3, <1>7, <2>2, <3>1 DEF N
    <2>3. CASE u.query # <<>>
      <3>1. N \o Q # <<>>
        BY <1>2, <2>3, ConcatEqualIffEmpty, Joined DEF Texts
      <3>2. PathsOf(Target(u)) = {N, Overwritten}
        BY <1>1, <1>5, <2>1, <2>3, <3>1 DEF PathsOf
      <3>3. QED
        BY <1>7, <2>3, <3>2 DEF N
    <2>4. QED
      BY <2>2, <2>3
  <1>8. QED
    BY <1>6, <1>7

\* And of a target that names no host, but has a URL in its query, normalized_uri
\* takes the path of that URL: the URI's own path is lost.
THEOREM UrlInQueryRead ==
  ASSUME NEW u, IsUri(u), u.scheme = <<>>, u.fragment = <<>>,
         NEW s \in Texts, ~Contains(u.path, ":"), ~Contains(s, ":"),
         NEW p \in Texts, p # <<>>, p[1] = "/",
         u.query = <<(s \o Authority) \o p>>
  PROVE  PathsOf(Target(u)) =
           {IF Contains(Tail(p), "?") THEN Before(Tail(p), "?") ELSE Tail(p)}
  <1> DEFINE q == <<"?">> \o s
             d == u.path \o q
  <1>1. /\ u.path \in Texts /\ u.query[1] = (s \o Authority) \o p
        /\ ~Contains((s \o Authority) \o p, "#")
    BY DEF IsUri
  <1>2. Authority \in Texts /\ s \o Authority \in Texts
    <2>1. Authority \in Texts
      BY DEF Authority, Texts, Token
    <2>2. QED
      BY <2>1, Joined
  <1>3. <<"?">> \in Texts /\ <<>> \in Texts
    BY DEF Texts, Token
  <1>4. q \in Texts /\ ~Contains(q, ":")
    <2>1. "?" \in Token /\ "?" # ":"
      BY DEF Token
    <2>2. QED
      BY <2>1, Separated
  <1>5. d \in Texts /\ ~Contains(d, ":")
    BY <1>1, <1>4, Joined, JoinedContains
  <1>6. Target(u) = (d \o Authority) \o p
    <2>1. Target(u)
            = ((<<>> \o u.path) \o (<<"?">> \o ((s \o Authority) \o p))) \o <<>>
      <3>1. u.query # <<>>
        OBVIOUS
      <3>2. QED
        BY <1>1, <3>1 DEF Target
    <2>2. <<"?">> \o ((s \o Authority) \o p) = (q \o Authority) \o p
      <3> DEFINE mark == <<"?">>
      <3>1. mark \in Texts
        BY <1>3
      <3> HIDE DEF mark
      <3>2. mark \o ((s \o Authority) \o p) = (mark \o (s \o Authority)) \o p
        BY <1>2, <3>1, JoinedThrice
      <3>3. mark \o (s \o Authority) = (mark \o s) \o Authority
        BY <1>2, <3>1, JoinedThrice
      <3>4. QED
        BY <3>2, <3>3 DEF mark
    <2> HIDE DEF q
    <2>3. q \o Authority \in Texts /\ (q \o Authority) \o p \in Texts
      BY <1>2, <1>4, Joined
    <2>4. u.path \o ((q \o Authority) \o p) = (d \o Authority) \o p
      <3>1. u.path \o ((q \o Authority) \o p)
              = (u.path \o (q \o Authority)) \o p
        BY <1>1, <2>3, JoinedThrice
      <3>2. u.path \o (q \o Authority) = d \o Authority
        BY <1>1, <1>2, <1>4, JoinedThrice
      <3>3. QED
        BY <3>1, <3>2
    <2>5. u.path \o ((q \o Authority) \o p) \in Texts
      BY <1>1, <2>3, Joined
    <2>6. <<>> \o u.path = u.path
      BY <1>1, ConcatEmptySeq DEF Texts
    <2>7. (u.path \o ((q \o Authority) \o p)) \o <<>>
            = u.path \o ((q \o Authority) \o p)
      BY <2>5, ConcatEmptySeq DEF Texts
    <2>8. QED
      BY <2>1, <2>2, <2>4, <2>6, <2>7
  <1> HIDE DEF d, q
  <1>7. WithoutScheme(Target(u)) = Tail(p)
    BY <1>5, <1>6, SchemeDropped
  <1>8. ~Contains(Tail(p), "#")
    <2>1. ~Contains(p, "#")
      BY <1>1, <1>2, JoinedContains
    <2>2. p = p \o <<>>
      BY ConcatEmptySeq DEF Texts
    <2>3. \A t : Contains(Tail(p), t) => Contains(p, t)
      BY <1>3, TailJoined
    <2>4. QED
      BY <2>1, <2>3
  <1>9. QED
    BY <1>7, <1>8 DEF PathsOf
=============================================================================
