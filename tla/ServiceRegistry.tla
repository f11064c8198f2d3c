--------------------------- MODULE ServiceRegistry ---------------------------
(***************************************************************************)
(* The services of the demo server and the websocket sessions that call    *)
(* them: websocket_handler, the static `plugins' and `server', and         *)
(* reload_plugins.                                                         *)
(*                                                                         *)
(* A session selects a service with a text message and calls it with       *)
(* binary messages.  It keeps a reference into the plugin that has it, and *)
(* a reload, which any session or a GET of /modules.js can ask for,        *)
(* destroys all plugins and loads them again.  Nothing is synchronised:    *)
(* sessions run on the threads of the io_service.  Using a function that   *)
(* was destroyed is the fate "dangling", two threads in one container at   *)
(* once, one of them changing it, the fate "raced"; calling an empty       *)
(* function throws out of the thread, and the process is "terminated".     *)
(*                                                                         *)
(* The handlers of one session run one at a time, in the order of its      *)
(* messages (NamedServiceIsCalled of module SessionConnection).            *)
(***************************************************************************)
EXTENDS HttpHandler, FiniteSets

CONSTANTS
  Sessions,             \* websocket connections of http_handler
  Pages,                \* HTTP connections that load /modules.js
  Order,                \* the plugins there can be, in the order of a map
  Provides,             \* the services each plugin registers
  ServerServices,       \* the services of the server itself
  Others                \* names that nobody registers

Plugins == {Order[i] : i \in DOMAIN Order}
Reload == "reload_plugins"
Services == ServerServices \cup UNION {Provides[p] : p \in Plugins}

\* What a peer may name.
Names == Services \cup Others

\* The last two keep the model's own words apart from the code's names.
ASSUME RegistryAssumption ==
  /\ Order \in Seq(STRING)
  /\ Provides \in [Plugins -> SUBSET STRING]
  /\ Reload \in ServerServices
  /\ \A p \in Plugins : Reload \notin Provides[p]
  /\ Others \cap Services = {} /\ "none" \notin Names
  /\ Plugins \cap {"null", "server", "gone", "none"} = {}

VARIABLES
  loaded,               \* the keys of `plugins'
  entries,              \* pointer_to_function of each plugin and the server
  scan,                 \* for each thread in reload_plugins, what it has yet
                        \* to come across
  reloading,            \* the threads in reload_plugins
  asked,                \* the last text message of each session
  step,                 \* how far its handler is
  at,                   \* the place in Order its lookup has reached, or 0
  selected,             \* the place websocket_handler::service refers into
  call,                 \* the same, of the function that is running
  outcome,              \* the answer to the last binary message
  lost,                 \* the sessions whose reply could not be written
  fresh,                \* no reload since the text message (history)
  fate

vars == <<loaded, entries, scan, reloading, asked, step, at, selected, call,
          outcome, lost, fresh, fate>>

registry == <<loaded, entries, scan, reloading>>

Reloaders == Sessions \cup Pages

Places == Plugins \cup {"server"}

\* A map of no names, and one whose names all have a function.
NoEntries == [name \in {} |-> "function"]
Filled(names) == [name \in names |-> "function"]

\* Mutant: the name gets an empty function even if it had one.
EnterAnew(map, name) ==
  [n \in DOMAIN map \cup {name} |-> IF n = name THEN "empty" ELSE map[n]]

\* map::operator[]: enters a name it does not have, under an empty function.
Enter(map, name) ==
  [n \in DOMAIN map \cup {name} |->
     IF n \in DOMAIN map THEN map[n] ELSE "empty"]

RegistryInit ==
  /\ loaded = {}
  /\ entries = [p \in Places |-> IF p = "server" THEN Filled(ServerServices)
                                 ELSE NoEntries]
  /\ scan = [r \in Reloaders |-> {}]
  /\ reloading = {}
  /\ asked = [s \in Sessions |-> "none"]
  /\ step = [s \in Sessions |-> "idle"]
  /\ at = [s \in Sessions |-> 0]
  /\ selected = [s \in Sessions |-> "null"]       \* service = null_ref
  /\ call = [s \in Sessions |-> "none"]
  /\ outcome = [s \in Sessions |-> "none"]
  /\ lost = {}
  /\ fresh = [s \in Sessions |-> FALSE]
  /\ fate = "running"

Running == fate = "running"

\* A step of the handler of session s, which is at such a step.
Handler(s, where) == Running /\ step[s] = where
GoesTo(s, where) == step' = [step EXCEPT ![s] = where]

\* pointer_to_function holds a function, and not just the name.
Callable(place, name) ==
  /\ place \in Places /\ name \in DOMAIN entries[place]
  /\ entries[place][name] = "function"

-----------------------------------------------------------------------------
(* reload_plugins.                                                         *)

\* A reference into a plugin does not survive the plugin.
Destroyed(f) == [s \in Sessions |-> IF f[s] \in loaded THEN "gone" ELSE f[s]]

\* plugins.clear(), and the directory iterator is made.
Clear(r) ==
  /\ reloading' = reloading \cup {r}
  /\ scan' = [scan EXCEPT ![r] = Plugins]
  /\ loaded' = {}
  /\ entries' = [p \in Places |-> IF p = "server" THEN entries[p]
                                  ELSE NoEntries]
  /\ selected' = Destroyed(selected)
  /\ fresh' = [s \in Sessions |-> FALSE]

\* http_handler, when the target comes to modules.js: create_modules() reloads
\* before it lists the services.  All other answers leave the registry alone.
GetModules(r) ==
  /\ Running
  /\ ModuleUris # {}
  /\ r \in Pages \ reloading
  /\ Clear(r)
  /\ call' = Destroyed(call)
  /\ UNCHANGED <<asked, step, at, outcome, lost, fate>>

\* The iterator comes across a library: it is loaded, its registry copied.
\* Libraries are installed and removed at any time, so it may not.
LoadPlugin(r) ==
  /\ Running
  /\ \E p \in scan[r] :
       /\ scan' = [scan EXCEPT ![r] = @ \ {p}]
       /\ \/ UNCHANGED <<loaded, entries>>
          \/ /\ p \notin loaded
             /\ loaded' = loaded \cup {p}
             /\ entries' = [entries EXCEPT ![p] = Filled(Provides[p])]
  /\ fresh' = [s \in Sessions |-> FALSE]
  /\ UNCHANGED <<reloading, asked, step, at, selected, call, outcome, lost,
                 fate>>

EndReload(r) ==
  /\ Running
  /\ r \in reloading /\ scan[r] = {}
  /\ reloading' = reloading \ {r}
  /\ UNCHANGED <<loaded, entries, scan, asked, step, at, selected, call,
                 outcome, lost, fresh, fate>>

-----------------------------------------------------------------------------
(* websocket_handler.                                                      *)

\* operator()(string): the loop over `plugins' begins.
Text(s, name) ==
  /\ Handler(s, "idle")
  /\ asked' = [asked EXCEPT ![s] = name]
  /\ GoesTo(s, "look")
  /\ at' = [at EXCEPT ![s] = 1]
  /\ fresh' = [fresh EXCEPT ![s] = reloading = {}]
  /\ UNCHANGED <<registry, selected, call, outcome, lost, fate>>

\* The plugin the loop of s is at.
Here(s) == Order[at[s]]
InLoop(s) == at[s] \in DOMAIN Order

\* The place in the map the loop is over that holds no plugin.
PassOver(s) ==
  /\ Handler(s, "look")
  /\ InLoop(s) /\ Here(s) \notin loaded
  /\ at' = [at EXCEPT ![s] = @ + 1]
  /\ UNCHANGED <<registry, asked, step, selected, call, outcome, lost, fresh,
                 fate>>

\* service = cref(get_function(message)), in the map of this place, into which
\* the name is entered when it is not there.
Assign(s, place) ==
  /\ entries' = [entries EXCEPT ![place] = Enter(@, asked[s])]
  /\ selected' = [selected EXCEPT ![s] = place]

\* service = cref(plugin.second.get_function(message))
LookIn(s) ==
  /\ Handler(s, "look")
  /\ InLoop(s) /\ Here(s) \in loaded
  /\ Assign(s, Here(s))
  /\ GoesTo(s, "test")
  /\ UNCHANGED <<loaded, scan, reloading, asked, at, call, outcome, lost,
                 fresh, fate>>

\* Mutant: the reference is tested, not the function it refers to.
FoundReference(s) ==
  /\ Handler(s, "test")
  /\ selected[s] # "null"
  /\ GoesTo(s, "idle")
  /\ at' = [at EXCEPT ![s] = 0]
  /\ UNCHANGED <<registry, asked, selected, call, outcome, lost, fresh, fate>>

\* if (service.get()) return: the member is read back, whatever it is by now.
Found(s) ==
  /\ Handler(s, "test")
  /\ Callable(selected[s], asked[s])
  /\ GoesTo(s, "idle")
  /\ at' = [at EXCEPT ![s] = 0]
  /\ UNCHANGED <<registry, asked, selected, call, outcome, lost, fresh, fate>>

\* ... else the loop goes on.
NotFound(s) ==
  /\ Handler(s, "test")
  /\ selected[s] # "gone" /\ ~Callable(selected[s], asked[s])
  /\ GoesTo(s, "look")
  /\ at' = [at EXCEPT ![s] = @ + 1]
  /\ UNCHANGED <<registry, asked, selected, call, outcome, lost, fresh, fate>>

\* ... or the plugin was destroyed since.
FindDangling(s) ==
  /\ Handler(s, "test")
  /\ selected[s] = "gone"
  /\ fate' = "dangling"
  /\ UNCHANGED <<registry, asked, step, at, selected, call, outcome, lost,
                 fresh>>

\* service = server.get_function(message)
LookInServer(s) ==
  /\ Handler(s, "look")
  /\ at[s] = Len(Order) + 1
  /\ Assign(s, "server")
  /\ GoesTo(s, "idle")
  /\ at' = [at EXCEPT ![s] = 0]
  /\ UNCHANGED <<loaded, scan, reloading, asked, call, outcome, lost, fresh,
                 fate>>

Return(s, what) == outcome' = [outcome EXCEPT ![s] = what]

\* operator()(vector<uint8_t>) finds no function to call: it returns {}.
BinaryUnanswered(s) ==
  /\ Handler(s, "idle")
  /\ selected[s] # "gone" /\ ~Callable(selected[s], asked[s])
  /\ Return(s, "reply")
  /\ UNCHANGED <<registry, asked, step, at, selected, call, lost, fresh, fate>>

\* Mutant: the function is not tested before it is called.
BinaryUntested(s) ==
  /\ Handler(s, "idle")
  /\ selected[s] # "gone"
  /\ GoesTo(s, "use")
  /\ UNCHANGED <<registry, asked, at, selected, call, outcome, lost, fresh,
                 fate>>

\* ... or finds one,
Binary(s) ==
  /\ Handler(s, "idle")
  /\ Callable(selected[s], asked[s])
  /\ GoesTo(s, "use")
  /\ UNCHANGED <<registry, asked, at, selected, call, outcome, lost, fresh,
                 fate>>

\* ... and calls what the member refers to by then; calling reload_plugins
\* begins a reload.
Use(s) ==
  /\ Handler(s, "use")
  /\ Callable(selected[s], asked[s])
  /\ GoesTo(s, "run")
  /\ IF asked[s] = Reload
     THEN /\ Clear(s)
          /\ call' = [Destroyed(call) EXCEPT ![s] = selected[s]]
     ELSE /\ call' = [call EXCEPT ![s] = selected[s]]
          /\ UNCHANGED <<registry, selected, fresh>>
  /\ UNCHANGED <<asked, at, outcome, lost, fate>>

\* An empty function is called: bad_function_call leaves the coroutine and the
\* thread that is in service.run().
UseEmpty(s) ==
  /\ Handler(s, "use")
  /\ selected[s] # "gone" /\ ~Callable(selected[s], asked[s])
  /\ fate' = "terminated"
  /\ UNCHANGED <<registry, asked, step, at, selected, call, outcome, lost,
                 fresh>>

\* The function is tested or called through a reference into a plugin that was
\* destroyed.
BinaryDangling(s) ==
  /\ Handler(s, "idle") \/ Handler(s, "use")
  /\ selected[s] = "gone"
  /\ Return(s, "undefined")
  /\ fate' = "dangling"
  /\ UNCHANGED <<registry, asked, step, at, selected, call, lost, fresh>>

\* The function returns, if it has not been destroyed under the call.
EndBinary(s) ==
  /\ Handler(s, "run")
  /\ s \notin reloading
  /\ GoesTo(s, "idle")
  /\ call' = [call EXCEPT ![s] = "none"]
  /\ IF call[s] = "gone"
     THEN Return(s, "undefined") /\ fate' = "dangling"
     ELSE Return(s, "reply") /\ UNCHANGED fate
  /\ UNCHANGED <<registry, asked, at, selected, lost, fresh>>

\* A reply cannot be written, which another coroutine finds: write_response
\* replaces the handler by a new one, whatever the handler is doing.
WriteFails(s) ==
  /\ Running
  /\ outcome[s] # "none"
  /\ selected' = [selected EXCEPT ![s] = "null"]
  /\ lost' = lost \cup {s}
  /\ UNCHANGED <<registry, asked, step, at, call, outcome, fresh, fate>>

\* Two sessions look up a name in one map that does not have it.
Collide(s, u, place) ==
  /\ s # u /\ step[s] = "look" /\ step[u] = "look" /\ at[s] = at[u]
  /\ place = IF InLoop(s) THEN Here(s) ELSE "server"
  /\ asked[s] \notin DOMAIN entries[place]

\* Two threads use one container and one of them changes it: `plugins' while it
\* is reloaded, or the map of a plugin or of the server while a name is entered.
\* (The handler that WriteFails replaces is used without a lock as well.  That
\* race is on one pointer, which is read or written whole: its outcomes are the
\* orders of the replacement and of each step above that reads `selected'.)
Conflict ==
  \/ Cardinality(reloading) > 1
  \/ reloading # {} /\ \E s \in Sessions : InLoop(s)
  \/ \E s, u \in Sessions : \E place \in loaded \cup {"server"} :
       Collide(s, u, place)

Race ==
  /\ Running
  /\ Conflict
  /\ fate' = "raced"
  /\ UNCHANGED <<registry, asked, step, at, selected, call, outcome, lost,
                 fresh>>

-----------------------------------------------------------------------------

Registry(r) == GetModules(r) \/ LoadPlugin(r) \/ EndReload(r)

Lookup(s) ==
  \/ PassOver(s) \/ LookIn(s) \/ LookInServer(s)
  \/ Found(s) \/ NotFound(s) \/ FindDangling(s)

Session(s) ==
  \/ \E name \in Names : Text(s, name)
  \/ Lookup(s)
  \/ BinaryUnanswered(s)
  \/ Binary(s)
  \/ Use(s)
  \/ UseEmpty(s)
  \/ BinaryDangling(s)
  \/ EndBinary(s)
  \/ WriteFails(s)

\* Nothing is said of the process after undefined behaviour.
Over == ~Running /\ UNCHANGED vars

Next ==
  \/ \E r \in Reloaders : Registry(r)
  \/ \E s \in Sessions : Session(s)
  \/ Race
  \/ Over

RegistrySpec == RegistryInit /\ [][Next]_vars

-----------------------------------------------------------------------------
(* Properties.                                                             *)

Providers(s) == {i \in DOMAIN Order :
                   Order[i] \in loaded /\ asked[s] \in Provides[Order[i]]}

\* The first plugin that registered what s asked for, else the server.
FirstProvider(s) ==
  IF Providers(s) = {} THEN "server"
  ELSE Order[CHOOSE i \in Providers(s) : \A j \in Providers(s) : i <= j]

LookedUp(s) == step[s] \in {"idle", "use", "run"}

\* As long as no reload comes between, a session that has looked up a name
\* refers to the first plugin that registered it, else to the server, whatever
\* names other lookups entered.  One that can no longer be answered may have
\* passed over providers: it refers to one of them, the server, or nothing.
SelectsFirstProvider ==
  \A s \in Sessions :
    fresh[s] /\ LookedUp(s) =>
      IF s \notin lost THEN selected[s] = FirstProvider(s)
      ELSE \/ selected[s] \in {"null", "server"}
           \/ \E i \in Providers(s) : selected[s] = Order[i]

\* What a session selected is never destroyed but by a reload: lookups of other
\* sessions enter names in the same maps and leave references valid.
DanglesOnlyByReload ==
  \A s \in Sessions :
    step[s] # "look" /\ "gone" \in {selected[s], call[s]} => ~fresh[s]

\* Reloading takes nothing from a session that calls the server's own services,
\* among them reload_plugins, which runs while the plugins are destroyed.
ServerServicesSurvive ==
  \A s \in Sessions :
    asked[s] \in ServerServices /\ LookedUp(s)
      /\ (\A p \in Plugins : asked[s] \notin Provides[p])
    => selected[s] \in {"server", "null"} /\ outcome[s] # "undefined"

\* A peer can end the process by a call of an empty function only if a reply to
\* it fails to be written between the test of the function and its call: not by
\* a name that nobody registered, before any text message, nor by a reload.
TerminatedByLoss ==
  fate = "terminated" =>
    \E s \in lost : step[s] = "use" /\ selected[s] = "null"

\* A session whose service is looked up loses it, and the process its life, for
\* these two causes only: a reload, and a reply that could not be written.
FailsForACause == DanglesOnlyByReload /\ TerminatedByLoss

\* Whoever asks for a file gets it, or is told why not, whatever query the
\* target has and whether or not it names the host: as long as nothing undefined
\* has happened, and but for fragments, URLs in queries, and dots before
\* modules.js, where what is there is not what is served, or nobody knows.
UriNamesFile == Running => UrisNameFiles

\* README: "1. Demo GUI first sends the API function to be called as a string",
\* "2. Then it sends the actual request data": the binary message reaches the
\* function the text message selected.
SelectedServiceIsCalled ==
  \A s \in Sessions : outcome[s] # "undefined"
=============================================================================
