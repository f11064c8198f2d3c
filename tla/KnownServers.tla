----------------------------- MODULE KnownServers -----------------------------
(***************************************************************************)
(* How servers know of each other: once a second a server sends its port   *)
(* and its server_statistics to a multicast group, and whoever receives    *)
(* them enters them in known_servers under the sender's address and port.  *)
(* Datagrams are lost, repeated and reordered.                             *)
(*                                                                         *)
(* A server both sends and receives; here Senders send and Receivers       *)
(* receive, which is the same, for neither does anything to the other in   *)
(* the one process (a server that hears itself is in both roles at once).  *)
(* Each role has a fate: main only logs what fails while it sets the socket *)
(* up, and the server goes on with a socket that is not open, or not bound *)
(* or not in the group.                                                    *)
(*                                                                         *)
(* Of the statistics there are two counters, which connections move while  *)
(* they are read one after the other.  A connection is plain, upgraded, or *)
(* closing: no longer counted in connections, still counted in upgrades.   *)
(***************************************************************************)
EXTENDS Naturals, FiniteSets

CONSTANTS
  Senders,
  Receivers,
  Keys,                 \* addresses and ports
  Key,                  \* of each sender
  MaxAccepts,           \* bound: connections each sender accepts
  MaxUnderWay           \* bound: datagrams on the way to a receiver

ASSUME KnownAssumption ==
  /\ Senders \cap Receivers = {}
  /\ Key \in [Senders -> Keys]
  /\ MaxAccepts \in [Senders -> Nat]
  /\ MaxUnderWay \in Nat \ {0}

VARIABLES
  accepts,              \* how many connections each sender accepted
  plain,                \* its connections that are not upgraded,
  upgraded,             \* that are, and
  closing,              \* that ~connection has half reported
  partial,              \* the counter of the next report that was read, or none
  net,                  \* the datagrams on the way to each receiver
  known,                \* known_servers: address and port -> a report, or none
  query,                \* the service known_servers is copying the map
  fate,                 \* of each sender and receiver
  reported              \* what each sender ever reported (history)

served == <<accepts, plain, upgraded, closing>>
knownVars == <<served, partial, net, known, query, fate, reported>>

Counts == UNION {0 .. MaxAccepts[s] : s \in Senders}
Reports == [connections : Counts, upgrades : Counts]
Datagrams == [key : Keys, report : Reports]

\* server_statistics::connections and upgrades
Connections(s) == plain[s] + upgraded[s]
Upgrades(s) == upgraded[s] + closing[s]
Current(s) == [connections |-> Connections(s), upgrades |-> Upgrades(s)]

\* How main set up the socket of each, for it only logs what fails.  A sender's
\* is open, or all it sends fails.  A receiver's is open, bound and in the
\* group; or open, but deaf, since one of the two failed: it may hear what
\* others on its host joined; or not open.
Fates ==
  {f \in [Senders \cup Receivers -> {"running", "deaf", "unopened"}] :
     \A s \in Senders : f[s] # "deaf"}

KnownInit ==
  /\ accepts = [s \in Senders |-> 0]
  /\ plain = [s \in Senders |-> 0]
  /\ upgraded = [s \in Senders |-> 0]
  /\ closing = [s \in Senders |-> 0]
  /\ partial = [s \in Senders |-> {}]
  /\ net = [r \in Receivers |-> {}]
  /\ known = [r \in Receivers |-> [k \in Keys |-> {}]]
  /\ query = [r \in Receivers |-> FALSE]
  /\ fate \in Fates
  /\ reported = [s \in Senders |-> {}]

-----------------------------------------------------------------------------
(* A sender.                                                               *)

\* on_accept
Accept(s) ==
  /\ accepts[s] < MaxAccepts[s]
  /\ accepts' = [accepts EXCEPT ![s] = @ + 1]
  /\ plain' = [plain EXCEPT ![s] = @ + 1]
  /\ UNCHANGED <<upgraded, closing, partial, net, known, query, fate, reported>>

\* on_upgrade
Upgrade(s) ==
  /\ plain[s] > 0
  /\ plain' = [plain EXCEPT ![s] = @ - 1]
  /\ upgraded' = [upgraded EXCEPT ![s] = @ + 1]
  /\ UNCHANGED <<accepts, closing, partial, net, known, query, fate, reported>>

\* on_close: --connections, then --upgrades if the connection was upgraded.
Close(s) ==
  /\ \/ /\ plain[s] > 0
        /\ plain' = [plain EXCEPT ![s] = @ - 1]
        /\ UNCHANGED <<upgraded, closing>>
     \/ /\ upgraded[s] > 0
        /\ upgraded' = [upgraded EXCEPT ![s] = @ - 1]
        /\ closing' = [closing EXCEPT ![s] = @ + 1]
        /\ UNCHANGED plain
  /\ UNCHANGED <<accepts, partial, net, known, query, fate, reported>>

CloseUpgrade(s) ==
  /\ closing[s] > 0
  /\ closing' = [closing EXCEPT ![s] = @ - 1]
  /\ UNCHANGED <<accepts, plain, upgraded, partial, net, known, query, fate,
                 reported>>

\* The timer expires and serialize(stats, buf) reads the first counter.
BeginReport(s) ==
  /\ partial[s] = {}
  /\ partial' = [partial EXCEPT ![s] = {Connections(s)}]
  /\ UNCHANGED <<served, net, known, query, fate, reported>>

Multicast(s, report) ==
  /\ reported' = [reported EXCEPT ![s] = @ \cup {report}]
  /\ \E reached \in IF fate[s] = "running" THEN SUBSET Receivers ELSE {{}} :
       net' = [r \in Receivers |->
                 IF r \in reached
                 THEN net[r] \cup {[key |-> Key[s], report |-> report]}
                 ELSE net[r]]
  /\ \A r \in Receivers : Cardinality(net'[r]) <= MaxUnderWay

\* ... then the second, and the datagram is sent.  It reaches the receivers
\* that it does, and none if the send fails, which is ignored.
SendReport(s) ==
  /\ partial' = [partial EXCEPT ![s] = {}]
  /\ \E c \in partial[s] :
       Multicast(s, [connections |-> c, upgrades |-> Upgrades(s)])
  /\ UNCHANGED <<served, known, query, fate>>

-----------------------------------------------------------------------------
(* The network and a receiver.                                             *)

Hears(r) == fate[r] \in {"running", "deaf"}

Lose(r, d) ==
  /\ d \in net[r]
  /\ net' = [net EXCEPT ![r] = @ \ {d}]
  /\ UNCHANGED <<served, partial, known, query, fate, reported>>

\* Mutant: the first entry is the only one that is ever written.
ReceiveFirst(r, d) ==
  /\ Hears(r)
  /\ d \in net[r]
  /\ net' \in {net, [net EXCEPT ![r] = @ \ {d}]}
  /\ IF query[r]
     THEN fate' = [fate EXCEPT ![r] = "raced"] /\ UNCHANGED known
     ELSE /\ known' = IF known[r][d.key] = {}
                      THEN [known EXCEPT ![r][d.key] = {d.report}] ELSE known
          /\ UNCHANGED fate
  /\ UNCHANGED <<served, partial, query, reported>>

\* Mutant: the entry is that of any sender so far.
ReceiveElsewhere(r, d) ==
  /\ Hears(r)
  /\ d \in net[r]
  /\ net' \in {net, [net EXCEPT ![r] = @ \ {d}]}
  /\ IF query[r]
     THEN fate' = [fate EXCEPT ![r] = "raced"] /\ UNCHANGED known
     ELSE /\ \E k \in Keys : known' = [known EXCEPT ![r][k] = {d.report}]
          /\ UNCHANGED fate
  /\ UNCHANGED <<served, partial, query, reported>>

\* A datagram arrives, and perhaps will again: known_servers[...] = other_stat,
\* which nothing keeps from the thread that copies the map.
Receive(r, d) ==
  /\ Hears(r)
  /\ d \in net[r]
  /\ net' \in {net, [net EXCEPT ![r] = @ \ {d}]}
  /\ IF query[r]
     THEN fate' = [fate EXCEPT ![r] = "raced"] /\ UNCHANGED known
     ELSE /\ known' = [known EXCEPT ![r][d.key] = {d.report}]
          /\ UNCHANGED fate
  /\ UNCHANGED <<served, partial, query, reported>>

\* The socket could not be opened, which was logged: the receive fails, which
\* is ignored, and a buffer and a port that were never written are read.
ReceiveUnopened(r) ==
  /\ fate[r] = "unopened"
  /\ fate' = [fate EXCEPT ![r] = "garbage"]
  /\ UNCHANGED <<served, partial, net, known, query, reported>>

\* The service known_servers: the map is copied.
BeginQuery(r) ==
  /\ Hears(r)
  /\ ~query[r]
  /\ query' = [query EXCEPT ![r] = TRUE]
  /\ UNCHANGED <<served, partial, net, known, fate, reported>>

EndQuery(r) ==
  /\ Hears(r)
  /\ query[r]
  /\ query' = [query EXCEPT ![r] = FALSE]
  /\ UNCHANGED <<served, partial, net, known, fate, reported>>

-----------------------------------------------------------------------------

Sender(s) ==
  Accept(s) \/ Upgrade(s) \/ Close(s) \/ CloseUpgrade(s)
    \/ BeginReport(s) \/ SendReport(s)

Receiver(r) ==
  \/ \E d \in net[r] : Receive(r, d) \/ Lose(r, d)
  \/ ReceiveUnopened(r)
  \/ BeginQuery(r) \/ EndQuery(r)

KnownNext ==
  (\E s \in Senders : Sender(s)) \/ (\E r \in Receivers : Receiver(r))

\* A report of s as it is, is sent to r and not lost; and arrives.
Reaches(r, s) ==
  /\ fate[r] = "running"
  /\ SendReport(s)
  /\ [key |-> Key[s], report |-> Current(s)] \in net'[r]

Arrives(r, s) ==
  /\ fate[r] = "running"
  /\ \E d \in net[r] : d.key = Key[s] /\ d.report = Current(s) /\ Receive(r, d)

Leaves(r, d) == (Receive(r, d) \/ Lose(r, d)) /\ d \notin net'[r]

\* A server goes on to report, destructors end and copies too; a datagram is
\* gone in the end, and of those sent again and again some arrive, where the
\* receiver's socket is in the group; nothing is assumed of one that is not.
Fairness ==
  /\ \A s \in Senders :
       /\ WF_knownVars(BeginReport(s) \/ SendReport(s))
       /\ WF_knownVars(CloseUpgrade(s))
  /\ \A r \in Receivers :
       /\ WF_knownVars(EndQuery(r))
       /\ \A d \in Datagrams : WF_knownVars(Leaves(r, d))
       /\ \A s \in Senders :
            SF_knownVars(Reaches(r, s)) /\ SF_knownVars(Arrives(r, s))

KnownSpec == KnownInit /\ [][KnownNext]_knownVars /\ Fairness

-----------------------------------------------------------------------------
(* Properties.                                                             *)

\* What a server knows under an address and port was reported by a server
\* there, whatever was lost, repeated or overtaken.
KnownWasReported ==
  \A r \in Receivers, k \in Keys :
    \A report \in known[r][k] :
      \E s \in Senders : Key[s] = k /\ report \in reported[s]

\* Reports are no snapshots: one may count an upgrade and no longer its
\* connection, and be overtaken by older ones.  Still, once nothing happens
\* to a server the others come to know its counters as they are, unless the
\* socket of either was not set up, or the map was copied as it was written.
KnownConverges ==
  \A r \in Receivers, s \in Senders :
    <>[]( \/ fate[r] # "running" \/ fate[s] # "running"
          \/ \E q \in Senders :
               Key[q] = Key[s] /\ known[r][Key[s]] = {Current(q)})
=============================================================================
