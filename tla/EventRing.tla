------------------------------ MODULE EventRing ------------------------------
(***************************************************************************)
(* The times of the last events of a kind (accept, connect, upgrade,       *)
(* close, error) that server_statistics keeps: an array written at         *)
(* `idx++ % ring_size' by whichever thread reports an event, and printed   *)
(* from the oldest entry on.  The index is atomic, the array is not, and   *)
(* the time is taken before either: a thread may be held up between the    *)
(* three.                                                                  *)
(*                                                                         *)
(* `claims' is history: the times in the order in which their threads took *)
(* an index.  A time is a number, 0 that of an entry never written.        *)
(***************************************************************************)
EXTENDS Naturals, Sequences, FiniteSets

CONSTANTS
  Threads,              \* the threads of the io_service
  RingSize,             \* ring_size
  HeadBits,             \* the width of an atomic_uint
  MaxEvents             \* bound: how many events happen

ASSUME RingAssumption ==
  /\ IsFiniteSet(Threads)
  /\ RingSize \in Nat \ {0}
  /\ HeadBits \in Nat
  /\ MaxEvents \in Nat

\* An index counts modulo this.
HeadSize == 2 ^ HeadBits

\* Arithmetic: no prover that checks proofs about this module knows of powers.
ASSUME HeadSizeAssumption == HeadSize \in Nat \ {0}

VARIABLES
  clock,                \* the time of the latest event
  head,                 \* accept_head, connect_head, ...
  ring,                 \* accept, connect, ...
  at,                   \* where each thread is
  time,                 \* the time it reports
  slot,                 \* the entry it is about to write
  number,               \* how many indices were taken before its own
  claims,
  lapped                \* a thread wrote an entry another had claimed since

vars == <<clock, head, ring, at, time, slot, number, claims, lapped>>

Slots == 0 .. RingSize - 1

Init ==
  /\ clock = 0
  /\ head = 0
  /\ ring = [i \in Slots |-> 0]
  /\ at = [w \in Threads |-> "idle"]
  /\ time = [w \in Threads |-> 0]
  /\ slot = [w \in Threads |-> 0]
  /\ number = [w \in Threads |-> 0]
  /\ claims = <<>>
  /\ lapped = FALSE

\* report_accept(now()) and the like: the time is taken.
Report(w) ==
  /\ at[w] = "idle"
  /\ clock < MaxEvents
  /\ clock' = clock + 1
  /\ time' = [time EXCEPT ![w] = clock + 1]
  /\ at' = [at EXCEPT ![w] = "timed"]
  /\ UNCHANGED <<head, ring, slot, number, claims, lapped>>

\* Mutant: the index is no atomic, and an increment can be lost.
ClaimLost(w) ==
  /\ at[w] = "timed"
  /\ slot' = [slot EXCEPT ![w] = head % RingSize]
  /\ number' = [number EXCEPT ![w] = Len(claims)]
  /\ head' \in {head, (head + 1) % HeadSize}
  /\ claims' = Append(claims, time[w])
  /\ at' = [at EXCEPT ![w] = "claimed"]
  /\ UNCHANGED <<clock, ring, time, lapped>>

\* idx++ % ring_size
Claim(w) ==
  /\ at[w] = "timed"
  /\ slot' = [slot EXCEPT ![w] = head % RingSize]
  /\ number' = [number EXCEPT ![w] = Len(claims)]
  /\ head' = (head + 1) % HeadSize
  /\ claims' = Append(claims, time[w])
  /\ at' = [at EXCEPT ![w] = "claimed"]
  /\ UNCHANGED <<clock, ring, time, lapped>>

\* The entry of the index that was taken as the k-th, from 0.
Entry(k) == (k % HeadSize) % RingSize

\* An index taken after that of w leads to the same entry.
Overtaken(w) ==
  \E k \in number[w] + 1 .. Len(claims) - 1 : Entry(k) = Entry(number[w])

\* var[...] = rep
Store(w) ==
  /\ at[w] = "claimed"
  /\ ring' = [ring EXCEPT ![slot[w]] = time[w]]
  /\ at' = [at EXCEPT ![w] = "idle"]
  /\ lapped' = (lapped \/ Overtaken(w))
  /\ UNCHANGED <<clock, head, time, slot, number, claims>>

\* No more events.
Quiet ==
  /\ clock = MaxEvents
  /\ \A w \in Threads : at[w] = "idle"
  /\ UNCHANGED vars

Next ==
  \/ \E w \in Threads : Report(w) \/ Claim(w) \/ Store(w)
  \/ Quiet

Spec == Init /\ [][Next]_vars

\* Mutant: the newest entry first.
PrintedFromNewest ==
  [i \in 1 .. RingSize |-> ring[((head % RingSize) + RingSize - i) % RingSize]]

\* print_array: from index % ring_size to the end, then from the beginning.
Printed ==
  [i \in 1 .. RingSize |-> ring[((head % RingSize) + i - 1) % RingSize]]

-----------------------------------------------------------------------------
(* Properties.                                                             *)

\* The index has wrapped within the last RingSize events, where it goes on at
\* 0, and 2^32 is no multiple of ring_size = 10.
Wrapping ==
  /\ HeadSize % RingSize # 0
  /\ Len(claims) >= HeadSize
  /\ Len(claims) % HeadSize < RingSize

Latest ==
  [i \in 1 .. RingSize |->
     LET k == Len(claims) - RingSize + i IN IF k > 0 THEN claims[k] ELSE 0]

\* At rest the array holds the latest events, and they are printed in the
\* order of their indices: unless a thread was held up while the others went
\* once around, or shortly after the index has wrapped.
PrintsLatest ==
  (\A w \in Threads : at[w] # "claimed") /\ ~lapped /\ ~Wrapping =>
    Printed = Latest

\* Two threads write one entry at a time only when one of them is behind by a
\* whole round, or the index wrapped between them.
CollideOnlyIfLapped ==
  \A v, w \in Threads :
    /\ v # w
    /\ at[v] = "claimed" /\ at[w] = "claimed" /\ slot[v] = slot[w]
    /\ number[v] <= number[w]
    => \/ number[w] - number[v] >= RingSize
       \/ number[v] \div HeadSize # number[w] \div HeadSize
=============================================================================
