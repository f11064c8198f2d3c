# native-2-web in TLA+

This directory specifies the program in `src/`: a C++ library that turns C++
functions into services a browser can call, the demo server that offers some,
and the JavaScript that calls them. The specifications are checked with TLC,
and what matters most is proved with TLAPS. All line numbers are those of the
files under `src/`; `PROJECT.json` maps every definition to its lines.

## 1. The system

- **Ticketed coroutines** (`native-2-web-connection.hpp` 159-227). State:
  `ticket` and `serving` of each connection. Operations: take a ticket, wait for
  the turn, return it.
- **Server connection** (same, 29-366, 469-476). State: the stream,
  `websocket_stuff`, the handlers, references to itself. Operations: `serve`,
  `ws_serve`, `async`, `write_response`, the destructor.
- **Websocket pusher** (same, 352-366; `native-2-web-server.cpp` 595-617).
  State: the stored pusher, a copy held by a detached thread. Operations: store,
  copy, push, reset on a failed write.
- **Client connection** (`native-2-web-connection.hpp` 394-606). State: the same
  connection class, owned by the caller. Operations: `connect`, `request`,
  `upgrade`, `wsconnect`.
- **Accept loops, processes** (same, 478-515; `native-2-web-server.cpp` 251-287,
  380, 586-675). State: sockets, `stats.connections`, processes of the host.
  Operations: `accept<Handler>`, `spawn_server`, `stop_server`, signals.
- **Service registry, sessions** (`native-2-web-server.cpp` 215-326, 455-500;
  `native-2-web-plugin.hpp`). State: `plugins`, `server`, `service` of each
  session. Operations: text and binary messages, `reload_plugins`,
  `create_modules`.
- **HTTP handler and `normalized_uri`** (`native-2-web-server.cpp` 19-67,
  524-589). No state of its own: a request comes to a file, an error or
  `/modules.js`.
- **Plugin registration** (`native-2-web-plugin.hpp`) and **`execute`**
  (`native-2-web-readwrite.hpp`). State: the maps of a loaded library, filled at
  load time. Operations: register a service, call one with serialized arguments.
- **Service calls of the page** (`native-2-web.js` 1297-1350; `test.html`
  24-33). State: `callback`, message listeners, `ws1`. Operations: call, answer,
  greeting, reconnect.
- **Serializers and deserializers, both sides** (`native-2-web-serialize.hpp`,
  `-deserialize.hpp`, `native-2-web.js` 1-375, `-js.hpp`). No state: a value to
  bytes and back.
- **Comparisons** (`native-2-web-common.hpp`) and **mangled names**
  (`native-2-web-manglespec.hpp`). No state: what `==` and `<` say of two
  values, and what a type and a service are called.
- **Server statistics** (`native-2-web-server.cpp` 95-197, 502-521). State:
  counters, rings of the last times. Operations: `on_accept`, `on_close`, ...,
  printing.
- **Multicast of statistics** (`native-2-web-server.cpp` 383-452). State:
  `known_servers`. Operations: send, receive, `known_servers()`.
- **GUI, HTML generators, fillers, printing** (`native-2-web.js`, `-js.hpp`,
  `-readwrite.hpp`, `-common.hpp`). No state: pure functions.

How they interact. `accept` makes a connection and spawns its `serve`. `serve`
reads requests and, after an upgrade, `ws_serve` reads messages; for each one
`async` spawns a coroutine with a ticket, which runs the handler and writes the
answer in its turn. All coroutines run on the threads of one `io_service`,
without a strand per connection. The handler of the demo's HTTP connections has
a `websocket_handler` for each connection, which looks services up in the shared
`plugins` and `server`; a service may be `reload_plugins`, which replaces
`plugins` under all sessions. The handler of the push port starts a thread of
its own that keeps the connection alive through its pusher. The page's calls
send a text message that names the service and a binary one with the serialized
arguments, and take the next message for the answer.

What is hard here: two counters stand in for a lock between coroutines on
several threads; the lifetime of a connection hangs on which closures hold a
`shared_ptr`; reads, writes and handlers of one connection overlap with failures
of any of them; `plugins`, `known_servers` and the stored pusher are shared
without synchronisation; answers, responses and datagrams carry no number, so
order is all there is; two codecs in two languages must agree byte by byte
without a tag in the data. `hazards` in `PROJECT.json` lists these places by
line.

What makes each component correct:

- tickets: one holder of the turn at a time, in order; none is lost;
- connection: one writer, answers in the order of the messages, nothing lost
  while the peer can be written to, counters that balance, destruction after
  the last coroutine and never before;
- pusher: the thread looks at a connection that exists, and the cycle connection
  → handler → pusher → connection is broken when a write fails;
- client: each response to its own request, every request answered, no request
  in freed memory;
- processes: a port one of those that bind it gets, a count that matches;
- registry: a name selects the first plugin that has it, and what a session
  selected stays what it is until someone reloads or a reply is lost;
- page: each handler the answer to its own call, exactly once;
- HTTP handler: the target names the file that is served;
- codec: what one side writes, the other reads;
- comparisons: `==` tells values apart, `<` is an order; names tell types apart;
- statistics: what is printed is the latest, and what is known of others was
  reported by them, and becomes true.

## 2. Modules

```
Tickets ── Connection ── PushConnection        ResponseQueue  (abstract)
   │           └── SessionConnection                ▲ Connection implements it,
   └── ClientConnection                             ▲ SessionConnection again
HttpHandler ── ServiceRegistry                 ServiceCall
NativeTypes ── Comparison ── NativeCodec ── PageCodec ──┬── Codec
     └── MangledNames ──────────────────────────────────┘
EventRing           KnownServers               Servers
```

`MC<module>` gives a module's constants their values for TLC, together with the
`.cfg` files `MC<module>_<instance>.cfg`. `<module>Proofs` has the theorems about
a module: there is one for Tickets, Connection, ClientConnection,
ServiceRegistry, ServiceCall and Servers. HandlerConnectionProofs is about
SessionConnection and PushConnection, the connections whose handlers keep state,
and uses all of ConnectionProofs; StatisticsProofs is about EventRing and
KnownServers, what a server prints and what it multicasts. The proofs about
Connection and ClientConnection use the lemmas of TicketsProofs.

**Tickets** has the two counters and the phase of the coroutine of every ticket:
`Issue` is `spawn(..., tkt = ticket++)`, `Begin` the first run of the coroutine,
`TakeTurn` the end of `while (!sentinel)`, `Return` the destructor of
`ticket_sentinel`. Connections of both sides build their actions from these.

**Connection** is one accepted connection. `pc` is where `serve`/`ws_serve` is
(`reading`, `accepting` an upgrade, in the `websocket` loop, `finished`). The
traits the class finds out about its handler (`supports_http`,
`websocket_handles_text`, ...) are constants, so one module stands for every
instantiation of the template. `ReadRequest`, `ReadUpgrade` and `ReadMessage`
are the branches after a successful read, `ReadError` every way a read fails.
`wire` records all that is written to the stream. `Release` computes in the step
that drops a reference whether it was the last and runs `~connection` in the
same step, as `shared_ptr` does. A failed write makes the peer `broken`, and
`write_response` resets the websocket handler.

**ResponseQueue** says what a connection promises to whoever hands it work: a
queue, answered in order. `Queue` in Connection maps tickets to it.

**SessionConnection** composes a connection with the state of its
`websocket_handler`: `service`, the one selected last. `Message` reads a text
message with some name or a binary one, `HandleMessage` runs the handler in the
coroutine that starts, before its turn, and `FailReply` replaces the handler,
since `write_response` does so after a failed write. `CallQueue` is
ResponseQueue once more, with the binary messages alone as its work: what a
caller of services may rely on. A name stands here for what it is looked up to.

**PushConnection** adds the thread of `ws_only_handler`, split where another
thread may come between: reading the stored pusher, copying its closure,
calling the copy. `corrupt` is what undefined behaviour leads to.

**ClientConnection** is `connect()`, `request()` and `upgrade()`. `owner` says
which object holds the connection. `sent` and `replies` are the two directions
of the stream. Ticket 0 is the one `connect()` reserves by `++conn->ticket`.

**ServiceRegistry**: a lookup visits plugins one at a time, a reload clears and
refills one library at a time, so that they interleave. The handler's member
`service` is assigned, tested and called in steps of their own, as in the code:
`LookIn` assigns it (line 489) and `Found` or `NotFound` reads it back (490),
`Binary` tests it (496) and `Use` calls it (498). `WriteFails` may come between
any two: another coroutine whose reply cannot be written replaces the handler
(`native-2-web-connection.hpp:211`), so that the member is `null` when it is
read; `lost` records the sessions it happened to. `entries` has the keys that
`get_function`'s `operator[]` leaves behind. A reference that a reload destroyed
is `gone`; using it is the fate `dangling`; two threads in one container are the
fate `raced`; calling an empty function throws out of the thread and is the fate
`terminated`. Nothing is claimed after any of them. `GetModules` is the request
that makes `create_modules` run, which reloads; **HttpHandler** says which
requests do.

**HttpHandler** is a function from targets to answers. A target is a sequence of
tokens. `PathsOf` is what the constructor of `normalized_uri` computes, with
every value it may read out of a string it has assigned to; `Segments` and
`Answer` are what `http_handler` does with it. `Uris` are what is asked for, so
that `UrisNameFiles` can say what should have been answered.

**ServiceCall**: `callback` is one variable of the window, `listeners` and
`asked` belong to a websocket. `Listen` is what `then()` does before it sends
anything; `Call` goes on to send both messages, and `CallThrows` leaves `then()`
by an exception: of `send()` while the websocket connects, or of the writer of
the arguments when the name was sent already (`native-2-web.js:1325`). Either
way the listener stays; `orphans` are the calls it happened to. `Message`
delivers one answer to all listeners, and each of them calls what `callback` is
by then; `Readings` are the selections of listeners that get so far, for the
reader of a wrong answer may throw.

**NativeTypes**, **NativeCodec**, **PageCodec** and **Codec**: a C++ type is a
record, the overloads of `serializer`, `deserializer` and `to_js` are functions
that recurse over it. `Kinds` says which parts the C++ side puts after a header,
`PageKinds` which the generated JavaScript expects; that they are different
operators, each from its own source, is the point. Codec sends a value from
server to page, from page to server, from server to server (there also into a
variable that has a value already), and into the arguments of `execute`. Numbers
are 31 bits wide at most, of any width on the wire; lengths are in full; a
floating point number is a `double` that may be NaN.

**Comparison** has `==` and `<`: those `N2W__EQUALITY_SPEC` gives a class, those
of unordered containers, and what the standard library makes of them.
**MangledNames** has the names of types and the `function_address` a service is
registered and called by.

**EventRing** has the three steps in which a time gets into a ring: it is taken,
the index is taken, the entry is written. **KnownServers** has the two
coroutines of the multicast over a network of sets. `main` only logs what fails
while it sets the socket up and goes on, so `KnownInit` chooses a fate for every
server: `running`, `unopened` (what is sent fails, what is received is garbage),
or, as a receiver, `deaf` (`bind` or `join_group` failed, lines 399-409: nothing
need ever arrive). **Servers** has the processes of a host with their acceptors:
`Open`, `Bind`, `Listen`, the loop of `Accept` and `Serve`, and the ends.

## 3. The environment

What is not under `src/` is modelled from how it is used:

- *Boost.Asio's `spawn`* runs a coroutine on the spot, up to its first
  suspension, when the spawning thread belongs to the `io_service`, and posts it
  otherwise (the pusher's thread). It wraps a coroutine in a fresh strand, and
  Asio draws strand implementations from a fixed pool: two strands that share
  one exclude each other, so a coroutine may be deferred after all.
  `StrandsCollide` chooses.
- *Beast*: a failed `async_accept` of a websocket either wrote an answer that
  declines or could not write; a parser that refuses a response leaves the rest
  of it in the buffer for the next read (`garbled`).
- *The peer*: an HTTP peer answers in order or closes. `UpgradePipelined`
  chooses whether it may send an upgrade behind unanswered requests.
- *The operating system*: with `reuse_address`, a port can be bound twice unless
  someone listens on it, and then only one may listen; accepting fails for want
  of descriptors; the sockets of a process that ended are closed.
- *A browser* queues nothing for a websocket that is connecting (`send` throws)
  and drops what is sent on a closed one. `Object.keys` gives array indices
  first.
- *Undefined behaviour* ends the part of the model it happens in; what is
  checked is when it can be reached.

## 4. What is checked

| Run | Question | States |
|---|---|---|
| `session__http` | the HTTP handler with its websocket, five tickets | 59 912 |
| `session__strands` | late starts, pipelining, no websocket, seven tickets | 9 427 |
| `push__pushing` | the push handler and its thread, three tickets | 973 |
| `client__owned` | a client, three requests or upgrades after the connect | 2 587 |
| `services__sessions` | two sessions, a browser's requests, two plugins | 1 409 707 |
| `services__documented` | violated: the README's two-message call | |
| `calls__overlapping` | four calls, three websockets in turn | 50 797 |
| `codec__types` | 147 values, of every kind of type | 1 459 |
| `codec__options` | violated: the README's optional members | |
| `ring__wrapping` | three threads, ring of 3, index modulo 4, eight events | 404 292 |
| `known__two` | one busy sender, one idle, one receiver | 121 140 |
| `servers__two` | two processes, two acceptors each, three descriptors | 41 286 |

What they show:

- *Connection.* `TicketInv`, `WriteExclusion`, `ResponsesInOrder` and
  `DestroyedLast` hold in whichever order coroutines start. `HandshakeSeparates`
  and `NamedServiceIsCalled` hold only with a peer that waits before it
  upgrades, and without `StrandsCollide`: these are their antecedents, and
  dropping one gives counterexamples. `NoAnswerLost`: until a write fails, what
  is on the wire is what the coroutines past their write have answered.
  `StatsBalance`: tasks, connections and upgrades are given back on every path.
  `RefusalIsLast`: without a websocket the 501 waits for the answers before it.
  `ImplementsResponseQueue`: all of it together is a queue.
- *Sessions on a connection.* `NamedServiceIsCalled`: a text message and the
  binary message after it are two coroutines, and the handler runs before the
  turn; that each call reaches the service named for it, although the next name
  may have come before the answer is written, needs coroutines that start on the
  spot. `ImplementsCallQueue`: then a caller has a queue of calls, each answered
  by the service it named, in order, as long as its peer can be written to.
- *Pusher.* A thread can meet freed memory only after a write has failed
  (`UnsafeOnlyAfterFailure`), for the reset of the handler is not synchronised
  with it; `FailedWriteEndsCycle` shows that the reset is also what lets the
  connection go.
- *Client.* `RightResponse` and `EveryRequestAnswered` once connected;
  `UpgradeKeepsRequests`: the request's coroutines have no reference of their
  own, an upgrade queued behind them has. A client whose owner lets go earlier
  reaches the fate `dangling`. `LeakedOnlyIfUnconnected`: if connecting fails
  the turn of ticket 0 is never returned, and an upgrade that waits polls for
  ever and keeps the connection. `ClientStatsBalance` says what counters come
  to, which for a connection that was never made is one below zero.
- *Services.* `SelectsFirstProvider`, although lookups insert empty functions
  into the plugins they pass. In a session whose reply could not be written it
  says less: the handler may have been replaced between the assignment and the
  test, the loop then passes over a plugin that has the service, and the session
  ends up with a later one, the server or nothing. `ServerServicesSurvive`,
  although `reload_plugins` runs while plugins go. `FailsForACause` has two
  parts: `DanglesOnlyByReload`, what a session selected is destroyed by a reload
  only; and `TerminatedByLoss`, an empty function is called, which ends the
  process, only if a failed write replaced the handler between the test and the
  call, never by a name nobody registered, a call without a name or a reload.
  Both races are reached. The run `services__documented`
  shows that a reload between the two messages of one call, by anyone who opens
  `/modules.js`, leaves a reference to a destroyed function, which the binary
  message calls. `UriNamesFile`: a request is answered with the file its path
  names. It lists what is not: a fragment becomes part of the path (or, with a
  query before it, is read out of an overwritten string); without a host, a URL
  in a query is taken for the whole target; and `/./modules.js` is looked for
  among the files, since the normalized path goes to a local variable of the
  constructor (line 62), not to the member.
- *Calls.* `RightAnswer` holds as long as no call was made before the websocket
  was open, while another was unanswered, or on a websocket that still has the
  listener of a call that threw (`overlapped` records that): the next answer
  would be given to the latest handler twice, once through that listener's
  reader. With overlap only `CalledOncePerCall` remains, which also says that a
  listener of an open websocket has an answer to wait for unless its `then()`
  threw.
- *Codec.* The properties are equivalences: they say exactly which values do not
  survive. `Misread`: 64 bit numbers (no accessor), an `array<char16_t, N>` (the
  serializer writes four bytes an element, the page reads two), code points
  above 0xFFFF in a single character, repeated keys of a multimap, multiarrays
  whose extents do not have their sum for product. `Miswritten`: those, strings
  with a four byte character (the low surrogate is written again), every
  multiarray, and optionals that are 0, false or empty, which arrive as none.
  `NativeRoundTrip` adds two ways a C++ program receives: into a variable used
  before, where `Accumulates` says which containers grow, and as the arguments
  of `execute`, which reads every argument where the first begins.
- *Comparisons and names.* `EqualTellsValues`: `memberwise_equality` returns at
  `native-2-web-common.hpp:159` before it compares members (161-164), so of a
  class only the bases count, and two objects of a class without bases are
  always equal; C arrays are compared by address. `LessIsStrictOrder`: `<` is a
  strict weak order of all values without a NaN, C arrays among them, wherever
  objects lie, although unordered containers are ordered by address (line 41).
  `NamesTellTypes`: names tell types apart but for the bases of classes.
- *Ring.* `PrintsLatest` fails only if a thread is overtaken by a whole round or
  the index has just wrapped (2^32 is no multiple of ten); both cases are
  reached.
- *Known servers.* A report is no snapshot, and reports overtake each other, but
  `KnownConverges`: once nothing happens to a server, those whose socket is in
  the group come to know it as it is, if its own socket was opened and they did
  not copy the map while it was written. `KnownWasReported` holds of all.
- *Processes.* `CountShortByFailedAccepts`: each failed accept leaves the
  counter one too low, since the connection that was never accepted reports its
  close; nothing else does. `GivesUpToListener`: several may bind one port and
  then race to listen, but they do not all give it up to each other; one that
  gives up without being short of a descriptor gives up to one that listened.
  That one may stop listening afterwards, and whoever gave up stays away.

Bounds. Five tickets let one coroutine be done, one write, two wait and one be
still to come, or a connection serve a request, an upgrade, and a call with the
next one's name behind it; the run with strands has seven; what a coroutine does
depends on its ticket only through comparison with `serving`, and the theorems
cover any number. Three client tickets have a request before, at and behind a
failure, and an upgrade last. Two sessions are the least that can meet in one
plugin's map, and `Pages` adds a reload that no session asked for; two plugins
with one service are the least for which there is a first and another to pass
on to, and either may be missing after a reload, so that its name is nobody's
(`Others` adds nothing to that but states); sessions are interchangeable, so
the run uses symmetry, and no liveness is checked there. The
ring's index is two bits wide for 32 and the ring three long for ten, which
keeps what matters: the one is no multiple of the other and eight events wrap
the index twice. The requests for files are every combination of a host or none,
eleven paths, five queries or none and two fragments or none, 396 in all. The
codec runs take one value or more per branch of each overload, first and last
code points of each UTF-8 length, both signs, empty and nested containers.
`MaxUnderWay` bounds what a network holds, not what it was given.
`CHECK_DEADLOCK FALSE` is said for the codec only, whose behaviours are finite;
elsewhere the end of all activity is an action.

Fairness. Weak fairness of a coroutine's next step is the `io_service`'s promise
to run what is ready; a write or a handshake ends, by success or error; a read
ends *after the peer has left*. No fairness is assumed for reads while the peer
is silent, for the peer leaving, for an owner letting go, or for requests to
come. `PeerReplies` in ClientConnection is fair: the code has no time limit, so
`EveryRequestAnswered` is relative to a peer that answers. The multicast has
strong fairness of sending a current report to a receiver and of its arrival: of
datagrams sent for ever some arrive. That is assumed of a network that connects
the two and of receivers whose socket is open, bound and in the group; nothing
is assumed to reach one that is deaf, although it may, or to leave a sender
whose socket is not open.

Every property has a mutant in `PROJECT.json`: a definition with a plausible bug
(`\* Mutant:` in the modules) under which TLC finds the property violated.

## 5. What is proved

The proofs are in the modules named `...Proofs`. They hold for every value of
the constants that the assumptions allow: any number of tickets, sessions,
libraries, threads, processes, calls, servers, any traits of a handler, strands
colliding or not, peers that wait or not.

| Theorem | Statement |
|---|---|
| *ConnectionProofs* | |
| `TicketsCorrect` | `Spec => []TicketInv` |
| `TypeCorrect` | `Spec => []TypeOK` |
| `Exclusion` | `Spec => []WriteExclusion` |
| `Order` | `Spec => []ResponsesInOrder` |
| `Lifetime` | `Spec => []DestroyedLast` |
| `Answers` | `Spec => []NoAnswerLost` |
| `Refusal` | `Spec => []RefusalIsLast` |
| `Handshake` | `Spec => []HandshakeSeparates` |
| `Balance` | `Spec => []StatsBalance` |
| `QueueSimulated` | `Spec => Queue!Init /\ [][Queue!Next]_(Queue!vars)` |
| *HandlerConnectionProofs* | |
| `SessionIsConnection` | `SessionSpec => Spec` |
| `NamedCalled` | `SessionSpec => []NamedServiceIsCalled` |
| `CallQueueSimulated` | `~StrandsCollide => (SessionSpec => CallQueue!Init /\ [][CallQueue!Next]_(CallQueue!vars))` |
| `PushKeepsPromises` | exclusion, order and `NoAnswerLost` of `PushSpec` |
| `UnsafeAfterFailure` | `PushSpec => []UnsafeOnlyAfterFailure` |
| `ThreadKeeps` | `~HandlesBinary => (PushSpec => []ThreadKeepsConnection)` |
| *ClientConnectionProofs* | |
| `UpgradeKeeps` | `ClientSpec => []UpgradeKeepsRequests` |
| `RightAnswered` | `ClientSpec => []RightResponse` |
| `ClientBalance` | `ClientSpec => []ClientStatsBalance` |
| *ServiceRegistryProofs* | |
| `ServerSurvives` | `RegistrySpec => []ServerServicesSurvive` |
| `FailuresHaveCauses` | `RegistrySpec => []FailsForACause` |
| `FirstSelected` | `RegistrySpec => []SelectsFirstProvider` |
| `PathRead` | what `PathsOf(Target(u))` is, for every URI `u` with a host, or without anything that looks like one |
| `UrlInQueryRead` | what it is for a `u` without a host but with a URL in its query |
| *StatisticsProofs* | |
| `CollisionIsLap` | `Spec => []CollideOnlyIfLapped` |
| `LatestPrinted` | `Spec => []PrintsLatest` |
| `KnownFromReports` | `KnownSpec => []KnownWasReported` |
| *ServersProofs* | |
| `PortGoesToOne` | `Spec => []GivesUpToListener` |
| `CountFallsShort` | `Spec => []CountShortByFailedAccepts` |
| *ServiceCallProofs* | |
| `PatientGetsRight` | `PageSpec => []RightAnswer` |
| `OneReadingPerCall` | `PageSpec => []CalledOncePerCall` |

### Assumptions

Each is an `ASSUME` of the module it is about, and TLC evaluates it on the runs.

- `MaxTickets` is positive; the phases in which a coroutine has its turn are
  those each kind of connection names; the traits are Booleans and imply each
  other as the class says (a push handler pushes text).
- Names: "null", the empty reference of a session, is no name of a service; a
  library is not called by one of the model's own words, nor a service; no
  library registers `reload_plugins`, which is the server's.
- The ring has an entry at least. `HeadSizeAssumption` says that two to the
  power of the index's width is a positive number: arithmetic that the provers
  do not know.
- The process the host starts with is one of its processes; each acceptor has a
  port.
- Nobody is a sender and a receiver of reports at once: a server is both, but
  the two coroutines have nothing to do with each other, so it has two names.

### The arguments

*Tickets.* `TicketInv` is inductive: tickets below `serving` are done, those from
there to `ticket` have a coroutine, and only the coroutine of `serving` is in
its turn. One lemma for each operation of Tickets says that it preserves that,
and they serve both kinds of connection. `WriteExclusion` follows at once, since
a writer is in its turn.

*Connection.* `TypeOK` is not inductive, since `serving + 1` needs
`serving < ticket`: `TypeInv` adds `TicketInv` and that issued tickets have a
job. Everything else rests on `TypeInv`.

- `ResponsesInOrder` needs that what is on the wire belongs to coroutines past
  their write (`WireInv`): then a writer's ticket, being `serving`, is above all
  of theirs.
- `DestroyedLast` follows from `ClosedInv`, that a closed connection is not
  referenced: no action makes a reference where there is none, because each that
  could has a coroutine's or `serve`'s as its guard.
- `NoAnswerLost` needs `WireInv` for the one direction and `AnswerInv`, that only
  coroutines with something to write get to writing, for the other.
- `RefusalIsLast` needs `RefusedInv`: the ticket of a 501 is the last one taken,
  and `serve` has returned.
- `HandshakeSeparates` needs `HandInv`, which says for each place of `serve` what
  the tickets and the wire can be: while it reads or accepts all is HTTP, while
  it accepts nothing is unanswered, after a 101 only messages are unanswered,
  after a declined handshake nothing is. What is on the wire already
  (`Separated`) then allows one more record.
- `StatsBalance` compares a counter with the size of the set of running tasks.
  One lemma for each kind of step says what becomes of that set, and the
  library's facts about cardinality do the rest. The step that destroys the
  connection needs `ClosedInv` before it: nothing runs that would still be
  counted.
- `QueueSimulated` is the refinement of ResponseQueue as far as safety goes: work
  is enqueued where a ticket is taken, answered or given up where a coroutine
  passes its write, and every other step leaves the queue alone. `Answered`, the
  first ticket that is not past its write, is `serving` or the next, and this is
  where `TicketInv` comes in.

*Sessions.* Every step of SessionConnection is one of Connection or leaves it
alone, so all of the above is true of it (`SessionIsConnection`).
`NamedServiceIsCalled` needs `SessionInv`: if coroutines start on the spot, at
most the last ticket is still to start, so that the session holds the name said
last, or that text message is the one still to be handled, or a failed write has
replaced the handler.

`CallQueueSimulated` is the refinement of the queue of calls. The mapping lists
what a set of tickets, or of places on the wire, was called with, in the order of
the numbers (`Listed`); two lemmas say all that is needed of such a list: a new
greatest number is listed last (`ListedAppend`), and taking the least away leaves
the tail (`ListedTail`). A binary message that is accepted is the greatest
ticket, and the one whose answer is written is `serving`, so the least that still
waits; by `SessionInv` it was called with the name its session had, until a write
failed. Every other step is shown to leave both lists as they are (`Quietly`).
Where strands collide there is nothing to prove: a binary message may then be
handled before the text message that names its service.

*Pusher.* The thread adds two kinds of steps to those of a connection: it takes
or drops a reference (`Touch`), or takes a ticket (`Send`). The lemmas about
Connection cover its own steps, and these two preserve the same invariants.
`UnsafeOnlyAfterFailure` needs `ThreadInv`: once there is a thread, the stored
pusher is there unless a write failed, and who calls has a copy.
`ThreadKeepsConnection` needs `KeptInv`: when the first message is being written
the thread already has its copy, so that no failed write comes before it. That
is not so if the handler also answers binary messages; `ws_only_handler` does
not, and the theorem says so in its hypothesis.

*Client.* `JobInv` ties what a ticket was taken for to the phases of that
function. `UpgradeKeepsRequests` needs `LifeInv`: an upgrade has the last ticket,
so it is active as long as any request before it, and it holds a reference.
`RightResponse` needs `PipeInv`: at most one request is under way, that of
`serving`, because nobody writes before the response was read or given up.
`ClientStatsBalance` needs `CountsInv`, which is the same equation with the
states after a use of freed memory included, and `OpenInv`, that a websocket is
open only after its upgrade has ended.

*Registry.* A step is one of session `s`, or leaves it as it is, or reloads;
this lemma (`SessionStep`) reduces the interleaving to three cases. What a place
can be called for is what was registered with it, whatever names lookups entered
(`EntriesInv`). A lookup that no reload disturbs and that lost no reply has
passed over no library that has the name, and one that lost a reply has at least
found no function but a registered one (`SelectInv`); it has nothing that is
gone (`FreshInv`); and one for a service that only the server has never ends in
a library (`SurviveInv`). A session between test and call refers to a function,
unless it was destroyed or a reply was lost (`UseInv`); the last two give
`FailsForACause`.

*Paths.* `PathRead` is about the operators of HttpHandler, not about states: the
path that `normalized_uri` takes out of the target of any URI, its texts of any
length. `SchemeDropped` says that the first `://` and the first slash after it
are those of the scheme and the host, `BeforeFirst` that what is cut off before
a separator is all that precedes it. The three conclusions are the three ways
of the code: without a fragment the path is the URI's; with one it keeps the
fragment, for what is before a fragment becomes the query; with both it may be
read out of a string that was overwritten. Its hypothesis is that the target
names a host or has no `://` and slash behind it; of `http://host/` with a
fragment, where nothing is before it, it is silent. `UrlInQueryRead` is about the
targets the hypothesis leaves out, which `Misparsed` names too: the path is that
of the URL in the query.

*Ring.* Two threads that have claimed an entry have different numbers, and the
index is the number of claims modulo its width (`RingInv`). If their entries are
the same, the numbers differ by a multiple of the ring's length or lie on
different sides of a wrap. `PrintsLatest` needs `StoredInv`: unless a thread was
overtaken, an entry has the time of the latest claim that leads to it, or that
claim's thread has yet to write, and an entry no claim leads to is blank. The
lemmas about `%` and `\div` under them are proved from the provers' arithmetic.

*Known servers.* `KnownInv` says of every datagram under way what
`KnownWasReported` says of every entry, that a server with that address and port
reported it. A report is made of counters read one after the other, so that it
is one at all needs `CounterInv`, by which they stay in range through accepts,
upgrades and the two halves of a close.

*Processes.* `GivesUpToListener` needs `ListenInv`: who listens has listened,
and a process that was never started has no acceptor that ran. Whoever finds a
port taken does not listen itself, so the one it gives up to is another.
`CountShortByFailedAccepts` compares the counter with the size of the set of the
connections that report (`Each` counts a function of numbers as a set of pairs):
`EachStep` says what one more of one kind does to that set, and the acceptors
whose connections do not report leave it alone. `CountInv` adds that the
equation holds, with nothing on either side, of a process that was never
started.

*Calls.* `CalledOncePerCall` needs `ListenerInv`: a call adds one listener, to
one websocket, and an answer removes from a websocket all the listeners it
calls, so none is in two places or called and still there; and `WaitInv`, that a
listener is asked for until its websocket closes, unless its `then()` threw.
`RightAnswer` needs `PatientInv`: as long as no two calls overlapped, an open
websocket waits for nothing, for the answer to the greeting with no listener to
hear it, or for that to the latest call with that call's listener alone, and
`callback` is that call's; or its listeners include one of a call that threw,
and then no further call on it counts as patient. `SocketInv` is why a websocket
opened later starts with neither.

### Only model-checked

- Liveness: `EveryTicketServed`, `EventuallyDestroyed`, `FailedWriteEndsCycle`,
  `EveryRequestAnswered`, `LeakedOnlyIfUnconnected`, `KnownConverges`, and the
  liveness in `ImplementsResponseQueue` and `ImplementsCallQueue`; fairness and
  ENABLED are beyond the prover.
- The codec, the comparisons and the names: their functions recurse over data.
- `UriNamesFile`, as far as it compares answers: a path is cut into segments by
  a fold. What the path is, `PathRead` and `UrlInQueryRead` say.

## 6. What is not modelled

- `..` in a path, whose normalization goes to the same local variable as that of
  `.`, and the text `create_modules` makes;
- `websocket_handler::decorate`, which walks `plugins` during a handshake and
  races a reload just as a lookup does;
- the state of a Beast stream, which one coroutine reads while another writes it
  (`native-2-web-connection.hpp:322`), the one hazard listed without a property;
- how `reload_plugins` walks directories, and `dlopen`: one step reads a library
  whose services are known. By reading: `it.disable_recursion_pending()` at line
  227 of the server is said to a copy of the iterator;
- in the codec wide strings and `wchar_t`; there and in the names `chrono`,
  `complex`, `bitset` and paths, which are made of the types that are modelled;
- the comparisons other than `==` and `<`, which are made of these two;
- the GUI, the generators of HTML, debug printing and fillers, which make text
  or sample values and are called by nothing that has state; the file system
  services, each of which is one call of the library; the build; the old tests.

Also seen while reading and not expressed as properties: `server_statistics`'
assignment leaves out `webroot`, `current_directory`, `user` and `modules`; the
`wchar_t` deserializer names an undeclared `utflen` (`deserialize.hpp:116`); the
generator for tuples assigns through a disengaged `optional`
(`js.hpp:179-195`); `main` destroys threads it has not joined.

## 7. Plan

Done, in this order: tickets and connection with its first proofs; pusher;
client; registry and sessions; calls; codec; statistics; processes; then
sessions on a connection and their queue of calls, the HTTP handler,
comparisons, mangled names, `execute`, and lists, sets, tuples, classes with
bases and floating point in the codec.

Proved, in this order: tickets, types, exclusion, order and lifetime of a
connection; its other invariants and the simulation of ResponseQueue; sessions
on a connection; the pusher; the client; registry, ring and processes; calls of
the page; known servers and the count of connections; the simulation of the
queue of calls; the paths of targets.

To model, should there be need: `decorate` and the handshake of a session in
ServiceRegistry; a composition of ServiceCall with Connection, where the answers
a page waits for come from `wire` and not from a queue of its own; the GUI's
gathering of arguments.
