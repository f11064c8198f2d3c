--------------------------- MODULE StatisticsProofs ---------------------------
(***************************************************************************)
(* Proofs about EventRing, for any number of threads and events, any size  *)
(* of the array and any width of the index: which threads can write one    *)
(* entry at a time, and what is printed.  And about KnownServers, for any  *)
(* servers: whose statistics a server enters, and where.                   *)
(***************************************************************************)
EXTENDS EventRing, KnownServers, Integers, TLAPS

(* Division.                                                               *)

\* What a quotient and a remainder are.
LEMMA Division ==
  ASSUME NEW n \in Nat \ {0}, NEW a \in Nat
  PROVE  /\ a % n \in 0 .. n - 1
         /\ a \div n \in Nat
         /\ a = n * (a \div n) + (a % n)
  OBVIOUS

\* They are the only ones.
LEMMA DivisionUnique ==
  ASSUME NEW n \in Nat \ {0}, NEW q \in Nat, NEW r \in 0 .. n - 1
  PROVE  (n * q + r) % n = r /\ (n * q + r) \div n = q
  OBVIOUS

\* A multiple does not change a remainder.
LEMMA ModShift ==
  ASSUME NEW n \in Nat \ {0}, NEW a \in Nat, NEW b \in Nat, NEW q \in Int,
         a = b + n * q
  PROVE  a % n = b % n
  <1> DEFINE r == b % n
             d == b \div n
             p == d + q
  <1>1. r \in 0 .. n - 1 /\ d \in Nat /\ b = n * d + r
    BY Division
  <1> HIDE DEF r, d
  <1>2. p \in Int /\ n * p = n * d + n * q
    BY <1>1
  <1>3. /\ n * d \in Int /\ n * q \in Int /\ r \in Int
    BY <1>1
  <1> HIDE DEF p
  <1>4. a = n * p + r
    BY <1>1, <1>2, <1>3
  <1>5. p \in Nat
    <2>1. n * p > -n
      BY <1>1, <1>2, <1>4
    <2>2. p >= 0
      BY <1>2, <2>1
    <2>3. QED
      BY <1>2, <2>2
  <1>6. QED
    BY <1>1, <1>4, <1>5, DivisionUnique DEF r

\* Numbers with one remainder are a divisor apart.
LEMMA ModApart ==
  ASSUME NEW n \in Nat \ {0}, NEW a \in Nat, NEW b \in Nat, a < b,
         a % n = b % n
  PROVE  b - a >= n
  <1> DEFINE p == a \div n
             q == b \div n
  <1>1. /\ a % n \in 0 .. n - 1 /\ p \in Nat /\ q \in Nat
        /\ a = n * p + (a % n) /\ b = n * q + (b % n)
    BY Division
  <1>2. n * q - n * p = b - a
    BY <1>1
  <1> HIDE DEF p, q
  <1>3. n * (q - p) = b - a
    BY <1>1, <1>2
  <1>4. q - p >= 1
    BY <1>1, <1>3
  <1>5. n * (q - p) >= n
    BY <1>1, <1>4
  <1>6. QED
    BY <1>3, <1>5

\* The remainder of the next number.
LEMMA ModNext ==
  ASSUME NEW n \in Nat \ {0}, NEW a \in Nat
  PROVE  ((a % n) + 1) % n = (a + 1) % n
  <1>1. /\ a % n \in 0 .. n - 1 /\ a \div n \in Nat
        /\ a = n * (a \div n) + (a % n)
    BY Division
  <1>2. a + 1 = ((a % n) + 1) + n * (a \div n)
    BY <1>1
  <1>3. (a % n) + 1 \in Nat /\ a + 1 \in Nat /\ a \div n \in Int
    BY <1>1
  <1>4. QED
    BY <1>2, <1>3, ModShift

-----------------------------------------------------------------------------

\* The entry of every index is one of the array.
LEMMA EntryFacts ==
  ASSUME NEW k \in Nat
  PROVE  k % HeadSize \in Nat /\ Entry(k) \in Slots
  <1>1. k % HeadSize \in 0 .. HeadSize - 1
    BY HeadSizeAssumption, Division
  <1>2. k % HeadSize \in Nat
    BY <1>1, HeadSizeAssumption
  <1>3. QED
    BY <1>2, RingAssumption, Division DEF Entry, Slots

RingTypes ==
  /\ clock \in Nat
  /\ claims \in Seq(Nat)
  /\ ring \in [Slots -> Nat]
  /\ at \in [Threads -> {"idle", "timed", "claimed"}]
  /\ time \in [Threads -> Nat]
  /\ slot \in [Threads -> Slots]
  /\ number \in [Threads -> Nat]
  /\ lapped \in BOOLEAN

\* The index counts the claims, as far as it is wide.
HeadCounts == head = Len(claims) % HeadSize

\* What a thread has claimed: an index of its own, and the entry it leads to.
ClaimsApart ==
  /\ \A w \in Threads : at[w] = "claimed" =>
       /\ number[w] \in 0 .. Len(claims) - 1
       /\ slot[w] = Entry(number[w])
       /\ time[w] = claims[number[w] + 1]
  /\ \A v, w \in Threads :
       at[v] = "claimed" /\ at[w] = "claimed" /\ v # w => number[v] # number[w]

RingInv == RingTypes /\ HeadCounts /\ ClaimsApart

\* What taking an index does.
LEMMA ClaimFacts ==
  ASSUME RingInv, NEW w \in Threads, Claim(w)
  PROVE  /\ claims' \in Seq(Nat) /\ Len(claims') = Len(claims) + 1
         /\ Len(claims) \in Nat
         /\ claims'[Len(claims) + 1] = time[w]
         /\ \A k \in 1 .. Len(claims) : claims'[k] = claims[k]
         /\ head' = Len(claims') % HeadSize
         /\ slot' = [slot EXCEPT ![w] = Entry(Len(claims))]
         /\ number' = [number EXCEPT ![w] = Len(claims)]
         /\ at[w] = "timed" /\ at' = [at EXCEPT ![w] = "claimed"]
         /\ UNCHANGED <<clock, ring, time, lapped>>
  <1>1. claims \in Seq(Nat) /\ time[w] \in Nat /\ Len(claims) \in Nat
    BY DEF RingInv, RingTypes
  <1>2. claims' = Append(claims, time[w])
    BY DEF Claim
  <1>3. /\ claims' \in Seq(Nat) /\ Len(claims') = Len(claims) + 1
        /\ claims'[Len(claims) + 1] = time[w]
        /\ \A k \in 1 .. Len(claims) : claims'[k] = claims[k]
    BY <1>1, <1>2
  <1>4. head' = Len(claims') % HeadSize
    BY <1>1, <1>3, HeadSizeAssumption, ModNext DEF Claim, RingInv, HeadCounts
  <1>5. QED
    BY <1>1, <1>3, <1>4 DEF Claim, RingInv, HeadCounts, Entry

\* Every step keeps the claims apart.
LEMMA NextRingInv == RingInv /\ [Next]_vars => RingInv'
  <1> SUFFICES ASSUME RingInv, [Next]_vars PROVE RingInv'
    OBVIOUS
  <1>1. RingTypes /\ HeadCounts /\ ClaimsApart
    BY DEF RingInv
  <1>2. ASSUME NEW w \in Threads, Report(w) PROVE RingInv'
    <2>1. RingTypes'
      BY <1>1, <1>2 DEF Report, RingTypes
    <2>2. \A v \in Threads : at'[v] = "claimed" =>
            v # w /\ at[v] = "claimed" /\ time'[v] = time[v]
      BY <1>1, <1>2 DEF Report, RingTypes
    <2>3. ClaimsApart' /\ HeadCounts'
      BY <1>1, <1>2, <2>2 DEF Report, ClaimsApart, HeadCounts
    <2>4. QED
      BY <2>1, <2>3 DEF RingInv
  <1>3. ASSUME NEW w \in Threads, Claim(w) PROVE RingInv'
    <2>1. /\ claims' \in Seq(Nat) /\ Len(claims') = Len(claims) + 1
          /\ Len(claims) \in Nat
          /\ claims'[Len(claims) + 1] = time[w]
          /\ \A k \in 1 .. Len(claims) : claims'[k] = claims[k]
          /\ head' = Len(claims') % HeadSize
          /\ slot' = [slot EXCEPT ![w] = Entry(Len(claims))]
          /\ number' = [number EXCEPT ![w] = Len(claims)]
          /\ at[w] = "timed" /\ at' = [at EXCEPT ![w] = "claimed"]
          /\ UNCHANGED <<clock, ring, time, lapped>>
      BY <1>3, ClaimFacts
    <2>2. RingTypes'
      BY <1>1, <2>1, EntryFacts DEF RingTypes
    <2>3. /\ number'[w] = Len(claims) /\ slot'[w] = Entry(Len(claims))
          /\ \A v \in Threads : v # w => /\ at'[v] = at[v]
                                         /\ number'[v] = number[v]
                                         /\ slot'[v] = slot[v]
      BY <1>1, <2>1 DEF RingTypes
    <2>4. ASSUME NEW v \in Threads, at'[v] = "claimed"
          PROVE  /\ number'[v] \in 0 .. Len(claims') - 1
                 /\ slot'[v] = Entry(number'[v])
                 /\ time'[v] = claims'[number'[v] + 1]
      <3>1. CASE v = w
        BY <2>1, <2>3, <3>1
      <3>2. CASE v # w
        <4>1. /\ number[v] \in 0 .. Len(claims) - 1
              /\ slot[v] = Entry(number[v])
              /\ time[v] = claims[number[v] + 1]
          BY <1>1, <2>3, <2>4, <3>2 DEF ClaimsApart
        <4>2. number[v] + 1 \in 1 .. Len(claims)
          BY <2>1, <4>1
        <4>3. QED
          BY <2>1, <2>3, <3>2, <4>1, <4>2
      <3>3. QED
        BY <3>1, <3>2
    <2>5. ASSUME NEW u \in Threads, NEW v \in Threads, u # v,
                 at'[u] = "claimed", at'[v] = "claimed"
          PROVE  number'[u] # number'[v]
      <3>1. \A x \in Threads : x # w /\ at'[x] = "claimed" =>
              number'[x] < Len(claims)
        BY <1>1, <2>1, <2>3 DEF ClaimsApart
      <3>2. QED
        BY <1>1, <2>1, <2>3, <2>5, <3>1 DEF ClaimsApart
    <2>6. ClaimsApart'
      BY <2>4, <2>5 DEF ClaimsApart
    <2>7. QED
      BY <2>1, <2>2, <2>6 DEF RingInv, HeadCounts
  <1>4. ASSUME NEW w \in Threads, Store(w) PROVE RingInv'
    <2>1. RingTypes'
      BY <1>1, <1>4 DEF Store, RingTypes
    <2>2. \A v \in Threads : at'[v] = "claimed" => at[v] = "claimed"
      BY <1>1, <1>4 DEF Store, RingTypes
    <2>3. ClaimsApart' /\ HeadCounts'
      BY <1>1, <1>4, <2>2 DEF Store, ClaimsApart, HeadCounts
    <2>4. QED
      BY <2>1, <2>3 DEF RingInv
  <1>5. CASE UNCHANGED vars
    BY <1>1, <1>5 DEF vars, RingInv, RingTypes, HeadCounts, ClaimsApart
  <1>6. QED
    BY <1>2, <1>3, <1>4, <1>5 DEF Next, Quiet

\* The index, and the claims of the threads, are in order throughout.
LEMMA RingInvCorrect == Spec => []RingInv
  <1>1. Init => RingInv
    <2> SUFFICES ASSUME Init PROVE RingInv
      OBVIOUS
    <2>1. 0 \in Slots
      BY RingAssumption DEF Slots
    <2>2. RingTypes /\ ClaimsApart
      BY <2>1 DEF Init, RingTypes, ClaimsApart
    <2>3. claims = <<>> /\ head = 0
      BY DEF Init
    <2>4. HeadCounts
      <3>1. HeadSize * 0 + 0 = 0 /\ 0 \in 0 .. HeadSize - 1
        BY HeadSizeAssumption
      <3>2. 0 % HeadSize = 0
        BY <3>1, HeadSizeAssumption, DivisionUnique
      <3>3. QED
        BY <2>3, <3>2 DEF HeadCounts
    <2>5. QED
      BY <2>2, <2>4 DEF RingInv
  <1>2. QED
    BY <1>1, NextRingInv, PTL DEF Spec

\* Indices of one round of the counter that lead to one entry are at least a
\* round of the array apart.
LEMMA EntryApart ==
  ASSUME NEW a \in Nat, NEW b \in Nat, a < b, Entry(a) = Entry(b),
         a \div HeadSize = b \div HeadSize
  PROVE  b - a >= RingSize
  <1> DEFINE x == a % HeadSize
             y == b % HeadSize
             d == a \div HeadSize
  <1>1. /\ x \in 0 .. HeadSize - 1 /\ y \in 0 .. HeadSize - 1 /\ d \in Nat
        /\ a = HeadSize * d + x /\ b = HeadSize * d + y
    BY HeadSizeAssumption, Division
  <1>2. x \in Nat /\ y \in Nat /\ HeadSize * d \in Nat
    BY <1>1, HeadSizeAssumption
  <1>3. x % RingSize = y % RingSize
    BY DEF Entry
  <1> HIDE DEF x, y, d
  <1>4. b - a = y - x /\ x < y
    BY <1>1, <1>2
  <1>5. y - x >= RingSize
    BY <1>2, <1>3, <1>4, RingAssumption, ModApart
  <1>6. QED
    BY <1>4, <1>5

\* Two threads write one entry at a time only when one of them is a whole round
\* behind, or the index wrapped between them.
THEOREM CollisionIsLap == Spec => []CollideOnlyIfLapped
  <1>1. ASSUME RingInv PROVE CollideOnlyIfLapped
    <2> SUFFICES ASSUME NEW v \in Threads, NEW w \in Threads, v # w,
                        at[v] = "claimed", at[w] = "claimed",
                        slot[v] = slot[w], number[v] <= number[w],
                        number[v] \div HeadSize = number[w] \div HeadSize
                 PROVE  number[w] - number[v] >= RingSize
      BY DEF CollideOnlyIfLapped
    <2>1. /\ number[v] \in Nat /\ number[w] \in Nat /\ number[v] # number[w]
          /\ Entry(number[v]) = Entry(number[w])
      BY <1>1 DEF RingInv, RingTypes, ClaimsApart
    <2>2. number[v] < number[w]
      BY <2>1
    <2>3. QED
      BY <2>1, <2>2, EntryApart
  <1>2. QED
    BY <1>1, RingInvCorrect, PTL

-----------------------------------------------------------------------------

\* No index taken after k, among the first n, leads to the entry of k.
LatestOfEntry(k, n) == \A j \in k + 1 .. n - 1 : Entry(j) # Entry(k)

\* An entry has the time of the latest index that leads to it, or the thread
\* that took that index has yet to store it.
Kept ==
  \A k \in 0 .. Len(claims) - 1 :
    LatestOfEntry(k, Len(claims)) =>
      \/ ring[Entry(k)] = claims[k + 1]
      \/ \E w \in Threads : at[w] = "claimed" /\ number[w] = k

\* An entry to which no index led was never written.
Blank ==
  \A i \in Slots :
    (\A k \in 0 .. Len(claims) - 1 : Entry(k) # i) => ring[i] = 0

\* Unless a thread was overtaken.
StoredInv == ~lapped => Kept /\ Blank

\* Every step keeps it.
LEMMA NextStoredInv == RingInv /\ StoredInv /\ [Next]_vars => StoredInv'
  <1> SUFFICES ASSUME RingInv, StoredInv, [Next]_vars, ~lapped'
               PROVE  Kept' /\ Blank'
    BY DEF StoredInv
  <1>1. RingTypes /\ HeadCounts /\ ClaimsApart
    BY DEF RingInv
  <1>2. ~lapped
    BY DEF Next, Report, Claim, Store, Quiet, vars
  <1>3. Kept /\ Blank
    BY <1>2 DEF StoredInv
  <1>4. CASE UNCHANGED vars
    BY <1>3, <1>4 DEF vars, Kept, Blank, LatestOfEntry, Entry
  <1>5. ASSUME NEW w \in Threads, Report(w) PROVE Kept' /\ Blank'
    <2>1. /\ UNCHANGED <<ring, claims, number>>
          /\ \A v \in Threads : at[v] = "claimed" => at'[v] = "claimed"
      BY <1>1, <1>5 DEF Report, RingTypes
    <2>2. QED
      BY <1>3, <2>1 DEF Kept, Blank, LatestOfEntry, Entry
  <1>6. ASSUME NEW w \in Threads, Claim(w) PROVE Kept' /\ Blank'
    <2> DEFINE n == Len(claims)
    <2>1. /\ claims' \in Seq(Nat) /\ Len(claims') = n + 1 /\ n \in Nat
          /\ \A k \in 1 .. n : claims'[k] = claims[k]
          /\ ring' = ring
      BY <1>6, ClaimFacts
    <2>2. /\ at'[w] = "claimed" /\ number'[w] = n /\ at[w] = "timed"
          /\ \A v \in Threads : v # w => at'[v] = at[v] /\ number'[v] = number[v]
      BY <1>1, <1>6, ClaimFacts DEF RingTypes
    <2> HIDE DEF n
    <2>3. ASSUME NEW k \in 0 .. n,
                 \A j \in k + 1 .. n : Entry(j) # Entry(k)
          PROVE  \/ ring'[Entry(k)] = claims'[k + 1]
                 \/ \E v \in Threads : at'[v] = "claimed" /\ number'[v] = k
      <3>1. CASE k = n
        BY <2>2, <3>1
      <3>2. CASE k # n
        <4>1. k \in 0 .. n - 1 /\ k + 1 \in 1 .. n
          BY <2>1, <3>2
        <4>2. \A j \in k + 1 .. n - 1 : Entry(j) # Entry(k)
          BY <2>1, <2>3
        <4>3. \/ ring[Entry(k)] = claims[k + 1]
              \/ \E v \in Threads : at[v] = "claimed" /\ number[v] = k
          BY <1>3, <4>1, <4>2 DEF Kept, LatestOfEntry, n
        <4>4. \A v \in Threads : at[v] = "claimed" =>
                at'[v] = "claimed" /\ number'[v] = number[v]
          BY <2>2
        <4>5. claims'[k + 1] = claims[k + 1]
          BY <2>1, <4>1
        <4>6. QED
          BY <2>1, <4>3, <4>4, <4>5
      <3>3. QED
        BY <3>1, <3>2
    <2>4. Kept'
      <3> SUFFICES ASSUME NEW k \in 0 .. Len(claims') - 1,
                          LatestOfEntry(k, Len(claims'))
                   PROVE  \/ ring'[Entry(k)] = claims'[k + 1]
                          \/ \E v \in Threads :
                               at'[v] = "claimed" /\ number'[v] = k
        BY DEF Kept, LatestOfEntry, Entry
      <3>1. k \in 0 .. n /\ \A j \in k + 1 .. n : Entry(j) # Entry(k)
        BY <2>1 DEF LatestOfEntry
      <3>2. QED
        BY <2>3, <3>1
    <2>5. Blank'
      <3> SUFFICES ASSUME NEW i \in Slots,
                          \A k \in 0 .. Len(claims') - 1 : Entry(k) # i
                   PROVE  ring'[i] = 0
        BY DEF Blank, Entry, Slots
      <3>1. \A k \in 0 .. n - 1 : Entry(k) # i
        BY <2>1
      <3>2. QED
        BY <1>3, <2>1, <3>1 DEF Blank, n
    <2>6. QED
      BY <2>4, <2>5
  <1>7. ASSUME NEW w \in Threads, Store(w) PROVE Kept' /\ Blank'
    <2> DEFINE n == Len(claims)
               m == number[w]
    <2>1. /\ at[w] = "claimed" /\ n \in Nat /\ m \in 0 .. n - 1
          /\ slot[w] = Entry(m) /\ time[w] = claims[m + 1]
          /\ Entry(m) \in Slots
      BY <1>1, <1>7, EntryFacts DEF Store, RingTypes, ClaimsApart
    <2>2. /\ ring' = [ring EXCEPT ![Entry(m)] = claims[m + 1]]
          /\ at' = [at EXCEPT ![w] = "idle"]
          /\ UNCHANGED <<claims, number>>
      BY <1>7, <2>1 DEF Store
    <2>3. \A j \in m + 1 .. n - 1 : Entry(j) # Entry(m)
      BY <1>7 DEF Store, Overtaken
    <2>4. /\ ring'[Entry(m)] = claims[m + 1]
          /\ \A i \in Slots : i # Entry(m) => ring'[i] = ring[i]
      BY <1>1, <2>1, <2>2 DEF RingTypes
    <2>5. \A v \in Threads : v # w => at'[v] = at[v]
      BY <1>1, <2>2 DEF RingTypes
    <2> HIDE DEF n
    <2>6. ASSUME NEW k \in 0 .. n - 1,
                 \A j \in k + 1 .. n - 1 : Entry(j) # Entry(k)
          PROVE  \/ ring'[Entry(k)] = claims[k + 1]
                 \/ \E v \in Threads : at'[v] = "claimed" /\ number[v] = k
      <3>1. CASE Entry(k) = Entry(m)
        <4>1. k = m
          <5> HIDE DEF m
          <5>1. ~(k < m) /\ ~(m < k)
            BY <2>1, <2>3, <2>6, <3>1
          <5>2. QED
            BY <2>1, <5>1
        <4>2. QED
          BY <2>4, <4>1
      <3>2. CASE Entry(k) # Entry(m)
        <4>1. \/ ring[Entry(k)] = claims[k + 1]
              \/ \E v \in Threads : at[v] = "claimed" /\ number[v] = k
          BY <1>3, <2>6 DEF Kept, LatestOfEntry, n
        <4>2. k \in Nat /\ Entry(k) \in Slots
          BY <2>1, EntryFacts
        <4>3. ring'[Entry(k)] = ring[Entry(k)]
          BY <2>4, <3>2, <4>2
        <4>4. ASSUME NEW v \in Threads, at[v] = "claimed", number[v] = k
              PROVE  at'[v] = "claimed"
          BY <2>5, <3>2, <4>4
        <4>5. QED
          BY <4>1, <4>3, <4>4
      <3>3. QED
        BY <3>1, <3>2
    <2>7. Kept'
      <3> SUFFICES ASSUME NEW k \in 0 .. Len(claims') - 1,
                          LatestOfEntry(k, Len(claims'))
                   PROVE  \/ ring'[Entry(k)] = claims'[k + 1]
                          \/ \E v \in Threads :
                               at'[v] = "claimed" /\ number'[v] = k
        BY DEF Kept, LatestOfEntry, Entry
      <3>1. k \in 0 .. n - 1 /\ \A j \in k + 1 .. n - 1 : Entry(j) # Entry(k)
        BY <2>2 DEF LatestOfEntry, n
      <3>2. QED
        BY <2>2, <2>6, <3>1
    <2>8. Blank'
      <3> SUFFICES ASSUME NEW i \in Slots,
                          \A k \in 0 .. Len(claims') - 1 : Entry(k) # i
                   PROVE  ring'[i] = 0
        BY DEF Blank, Entry, Slots
      <3>1. \A k \in 0 .. n - 1 : Entry(k) # i
        BY <2>2 DEF n
      <3>2. QED
        BY <1>3, <2>1, <2>4, <3>1 DEF Blank, n
    <2>9. QED
      BY <2>7, <2>8
  <1>8. QED
    BY <1>4, <1>5, <1>6, <1>7 DEF Next, Quiet

-----------------------------------------------------------------------------

\* The index of the k-th event, of the last RingSize of n, is as far behind that
\* of the next as k is behind n, give or take rounds of the array: unless the
\* index wrapped in between, and the array is not whole rounds long.
LEMMA IndexBehind ==
  ASSUME NEW n \in Nat, NEW k \in 0 .. n - 1, n - k <= RingSize,
         \/ HeadSize % RingSize = 0
         \/ n < HeadSize
         \/ n % HeadSize >= RingSize
  PROVE  \E x \in Int :
           k % HeadSize = ((n % HeadSize) - (n - k)) + RingSize * x
  <1> DEFINE H == HeadSize
             R == RingSize
             kh == k % H
             nh == n % H
             p == n \div H
             q == k \div H
  <1>1. H \in Nat \ {0} /\ R \in Nat \ {0} /\ k \in Nat
    BY HeadSizeAssumption, RingAssumption
  <1>2. /\ nh \in 0 .. H - 1 /\ p \in Nat /\ n = H * p + nh
        /\ kh \in 0 .. H - 1 /\ q \in Nat /\ k = H * q + kh
    BY <1>1, Division
  <1> HIDE DEF H, R
  <1>3. CASE n < H
    <2>1. n = H * 0 + n /\ k = H * 0 + k /\ n \in 0 .. H - 1 /\ k \in 0 .. H - 1
      BY <1>1, <1>3
    <2>2. nh = n /\ kh = k
      BY <1>1, <2>1, DivisionUnique
    <2>3. kh = (nh - (n - k)) + R * 0
      BY <1>1, <2>2
    <2>4. QED
      BY <2>3 DEF H, R
  <1>4. CASE nh >= R
    <2> DEFINE r == nh - (n - k)
    <2> HIDE DEF kh, nh, p, q
    <2>1. n - k \in Nat /\ n - k <= R /\ n - k >= 1
      BY <1>1 DEF R
    <2>2. r \in 0 .. H - 1
      BY <1>1, <1>2, <1>4, <2>1
    <2>3. k = H * p + r
      BY <1>1, <1>2
    <2>4. kh = r
      <3> HIDE DEF r
      <3>1. (H * p + r) % H = r
        BY <1>1, <1>2, <2>2, DivisionUnique
      <3>2. QED
        BY <2>3, <3>1 DEF kh
    <2>5. kh = (nh - (n - k)) + R * 0
      BY <1>1, <1>2, <2>1, <2>4
    <2>6. QED
      BY <2>5 DEF H, R, kh, nh
  <1>5. CASE H % R = 0
    <2> DEFINE h == H \div R
               x == h * (p - q)
    <2> HIDE DEF kh, nh, p, q
    <2>1. h \in Nat /\ H = R * h
      <3>1. h \in Nat /\ H = R * h + (H % R)
        BY <1>1, Division
      <3>2. R * h \in Nat
        BY <1>1, <3>1
      <3>3. QED
        BY <1>5, <3>1, <3>2
    <2> HIDE DEF h
    <2>2. x \in Int /\ R * x = H * p - H * q
      BY <1>1, <1>2, <2>1
    <2> HIDE DEF x
    <2>3. kh = (nh - (n - k)) + R * x
      BY <1>1, <1>2, <2>2
    <2>4. QED
      BY <2>2, <2>3 DEF H, R, kh, nh
  <1>6. QED
    BY <1>3, <1>4, <1>5 DEF H, R

\* Where the k-th event is, as seen from the next entry.
LEMMA EntryBehind ==
  ASSUME NEW n \in Nat, NEW k \in 0 .. n - 1, n - k <= RingSize,
         \/ HeadSize % RingSize = 0
         \/ n < HeadSize
         \/ n % HeadSize >= RingSize
  PROVE  Entry(k) = (Entry(n) + (RingSize - (n - k))) % RingSize
  <1> DEFINE R == RingSize
             kh == k % HeadSize
             nh == n % HeadSize
             e == Entry(n)
             y == nh \div R
             a == e + (R - (n - k))
  <1>1. R \in Nat \ {0} /\ kh \in Nat /\ nh \in Nat /\ Entry(k) = kh % R
    BY RingAssumption, EntryFacts DEF Entry
  <1>2. e \in Nat /\ y \in Nat /\ nh = R * y + e
    <2>1. e = nh % R
      BY DEF Entry
    <2> HIDE DEF e, nh, R
    <2>2. nh % R \in 0 .. R - 1 /\ nh \div R \in Nat
          /\ nh = R * (nh \div R) + (nh % R)
      BY <1>1, Division
    <2>3. QED
      BY <1>1, <2>1, <2>2
  <1>3. PICK x \in Int : kh = (nh - (n - k)) + R * x
    BY IndexBehind
  <1>4. a \in Nat
    BY <1>1, <1>2
  <1> HIDE DEF R, kh, nh, e, y
  <1>5. R * ((1 - y) - x) = R - R * y - R * x
    BY <1>1, <1>2
  <1>6. a = kh + R * ((1 - y) - x)
    BY <1>1, <1>2, <1>3, <1>5
  <1>7. (1 - y) - x \in Int
    BY <1>2
  <1>8. a % R = kh % R
    <2> HIDE DEF a
    <2>1. QED
      BY <1>1, <1>4, <1>6, <1>7, ModShift
  <1>9. QED
    BY <1>1, <1>8 DEF R, e

\* The last RingSize events are in different entries, and in none of those that
\* are printed for events there were not.
LEMMA EntriesBehindDiffer ==
  ASSUME NEW n \in Nat, NEW k \in 0 .. n - 1, n - k <= RingSize,
         \/ HeadSize % RingSize = 0
         \/ n < HeadSize
         \/ n % HeadSize >= RingSize,
         NEW i \in 0 .. RingSize - 1, i # RingSize - (n - k)
  PROVE  Entry(k) # (Entry(n) + i) % RingSize
  <1> DEFINE R == RingSize
             e == Entry(n)
             j == R - (n - k)
  <1>1. /\ R \in Nat \ {0} /\ e \in Nat /\ j \in 0 .. R - 1
        /\ Entry(k) = (e + j) % R
    <2>1. R \in Nat \ {0} /\ e \in Nat
      BY RingAssumption, EntryFacts DEF Slots
    <2>2. j \in 0 .. R - 1
      BY <2>1
    <2>3. Entry(k) = (e + j) % R
      BY EntryBehind
    <2>4. QED
      BY <2>1, <2>2, <2>3
  <1>2. i \in 0 .. R - 1 /\ i # j
    OBVIOUS
  <1> HIDE DEF R, e, j
  <1> DEFINE x == e + i
             y == e + j
  <1>3. /\ x \in Nat /\ y \in Nat /\ x # y
        /\ x < y => y - x < R
        /\ y < x => x - y < R
    BY <1>1, <1>2
  <1> HIDE DEF x, y
  <1>4. ASSUME x % R = y % R PROVE FALSE
    <2>1. CASE x < y
      <3>1. y - x >= R
        BY <1>1, <1>3, <1>4, <2>1, ModApart
      <3>2. QED
        BY <1>1, <1>3, <2>1, <3>1
    <2>2. CASE y < x
      <3>1. x - y >= R
        BY <1>1, <1>3, <1>4, <2>2, ModApart
      <3>2. QED
        BY <1>1, <1>3, <2>2, <3>1
    <2>3. QED
      BY <1>3, <2>1, <2>2
  <1>5. QED
    BY <1>1, <1>4 DEF R, e, x, y

\* What is printed i-th, when no thread has an index that it did not store.
LEMMA PrintedEntry ==
  ASSUME RingInv, Kept, Blank, ~Wrapping,
         \A w \in Threads : at[w] # "claimed",
         NEW i \in 1 .. RingSize
  PROVE  Printed[i] = Latest[i]
  <1> DEFINE n == Len(claims)
             k == n - RingSize + i - 1
             s == (Entry(n) + (i - 1)) % RingSize
  <1>1. /\ n \in Nat /\ RingSize \in Nat \ {0} /\ i \in Nat
        /\ Entry(n) \in Nat /\ s \in Slots
        /\ \/ HeadSize % RingSize = 0
           \/ n < HeadSize
           \/ n % HeadSize >= RingSize
    <2>1. n \in Nat
      BY DEF RingInv, RingTypes
    <2>2. Entry(n) \in Nat
      BY <2>1, EntryFacts DEF Slots
    <2>3. Entry(n) + (i - 1) \in Nat
      BY <2>2
    <2>4. s \in 0 .. RingSize - 1
      BY <2>3, RingAssumption, Division
    <2>5. n % HeadSize \in Nat /\ HeadSize \in Nat
      BY <2>1, EntryFacts, HeadSizeAssumption
    <2>6. QED
      BY <2>1, <2>2, <2>4, <2>5, RingAssumption DEF Slots, Wrapping
  <1>2. Printed[i] = ring[s]
    <2>1. head % RingSize = Entry(n)
      BY DEF RingInv, HeadCounts, Entry
    <2>2. (head % RingSize) + i - 1 = Entry(n) + (i - 1)
      BY <1>1, <2>1
    <2>3. Printed[i] = ring[((head % RingSize) + i - 1) % RingSize]
      BY DEF Printed
    <2>4. QED
      BY <2>2, <2>3
  <1>3. Latest[i] = IF n - RingSize + i > 0 THEN claims[n - RingSize + i] ELSE 0
    BY DEF Latest
  <1> HIDE DEF n, s
  <1>4. CASE n - RingSize + i > 0
    <2>1. /\ k \in 0 .. n - 1 /\ n - k <= RingSize
          /\ RingSize - (n - k) = i - 1 /\ k + 1 = n - RingSize + i
      BY <1>1, <1>4
    <2> HIDE DEF k
    <2>2. Entry(k) = s
      BY <1>1, <2>1, EntryBehind DEF s
    <2>3. ASSUME NEW j \in k + 1 .. n - 1 PROVE Entry(j) # Entry(k)
      <3>1. /\ j \in 0 .. n - 1 /\ n - j <= RingSize
            /\ i - 1 \in 0 .. RingSize - 1 /\ i - 1 # RingSize - (n - j)
        BY <1>1, <2>1
      <3>2. Entry(j) # (Entry(n) + (i - 1)) % RingSize
        BY <1>1, <3>1, EntriesBehindDiffer
      <3>3. QED
        BY <2>2, <3>2 DEF s
    <2>4. ring[Entry(k)] = claims[k + 1]
      BY <2>1, <2>3 DEF Kept, LatestOfEntry, n
    <2>5. QED
      BY <1>2, <1>3, <1>4, <2>1, <2>2, <2>4
  <1>5. CASE ~(n - RingSize + i > 0)
    <2>1. ASSUME NEW j \in 0 .. n - 1 PROVE Entry(j) # s
      <3>1. /\ n - j <= RingSize
            /\ i - 1 \in 0 .. RingSize - 1 /\ i - 1 # RingSize - (n - j)
        BY <1>1, <1>5
      <3>2. Entry(j) # (Entry(n) + (i - 1)) % RingSize
        BY <1>1, <3>1, EntriesBehindDiffer
      <3>3. QED
        BY <3>2 DEF s
    <2>2. ring[s] = 0
      BY <1>1, <2>1 DEF Blank, n
    <2>3. QED
      BY <1>2, <1>3, <1>5, <2>2
  <1>6. QED
    BY <1>4, <1>5

\* At rest the latest events are printed, in the order of their indices, unless
\* a thread was overtaken or the index has just wrapped.
THEOREM LatestPrinted == Spec => []PrintsLatest
  <1>1. Init => StoredInv
    BY DEF Init, StoredInv, Kept, Blank
  <1>2. RingInv /\ StoredInv => PrintsLatest
    <2> SUFFICES ASSUME RingInv, StoredInv, ~lapped, ~Wrapping,
                        \A w \in Threads : at[w] # "claimed"
                 PROVE  Printed = Latest
      BY DEF PrintsLatest
    <2>1. \A i \in 1 .. RingSize : Printed[i] = Latest[i]
      BY PrintedEntry DEF StoredInv
    <2>2. QED
      BY <2>1 DEF Printed, Latest
  <1>3. QED
    BY <1>1, <1>2, NextStoredInv, RingInvCorrect, PTL DEF Spec

-----------------------------------------------------------------------------
(* What servers know of each other.                                        *)

\* The counters of a sender are bounded by what it accepted.
CounterInv ==
  \A s \in Senders :
    /\ plain[s] + upgraded[s] + closing[s] <= accepts[s]
    /\ accepts[s] <= MaxAccepts[s]
    /\ partial[s] \subseteq 0 .. MaxAccepts[s]

KnownTypes ==
  /\ accepts \in [Senders -> Nat] /\ plain \in [Senders -> Nat]
  /\ upgraded \in [Senders -> Nat] /\ closing \in [Senders -> Nat]
  /\ partial \in [Senders -> SUBSET Nat]
  /\ net \in [Receivers -> SUBSET Datagrams]
  /\ known \in [Receivers -> [Keys -> SUBSET Reports]]
  /\ reported \in [Senders -> SUBSET Reports]

\* Somebody with that address and port sent it.
SentFrom(k, report) == \E s \in Senders : Key[s] = k /\ report \in reported[s]

KnownInv ==
  /\ KnownTypes /\ CounterInv
  /\ \A r \in Receivers : \A d \in net[r] : SentFrom(d.key, d.report)
  /\ KnownWasReported

\* A sender's counters move within what it accepts.
LEMMA NextCounters ==
  ASSUME KnownTypes, CounterInv, [KnownNext]_knownVars
  PROVE  /\ accepts' \in [Senders -> Nat] /\ plain' \in [Senders -> Nat]
         /\ upgraded' \in [Senders -> Nat] /\ closing' \in [Senders -> Nat]
         /\ partial' \in [Senders -> SUBSET Nat]
         /\ CounterInv'
  <1>1. MaxAccepts \in [Senders -> Nat]
    BY KnownAssumption
  <1> DEFINE Goal == /\ accepts' \in [Senders -> Nat]
                     /\ plain' \in [Senders -> Nat]
                     /\ upgraded' \in [Senders -> Nat]
                     /\ closing' \in [Senders -> Nat]
                     /\ partial' \in [Senders -> SUBSET Nat]
                     /\ CounterInv'
  <1>2. ASSUME NEW s \in Senders, Accept(s) PROVE Goal
    BY <1>1, <1>2 DEF Accept, KnownTypes, CounterInv
  <1>3. ASSUME NEW s \in Senders, Upgrade(s) PROVE Goal
    BY <1>1, <1>3 DEF Upgrade, KnownTypes, CounterInv
  <1>4. ASSUME NEW s \in Senders, Close(s) PROVE Goal
    <2>1. /\ UNCHANGED <<accepts, partial>>
          /\ \/ /\ plain[s] > 0
                /\ plain' = [plain EXCEPT ![s] = plain[s] - 1]
                /\ UNCHANGED <<upgraded, closing>>
             \/ /\ upgraded[s] > 0
                /\ upgraded' = [upgraded EXCEPT ![s] = upgraded[s] - 1]
                /\ closing' = [closing EXCEPT ![s] = closing[s] + 1]
                /\ UNCHANGED plain
      BY <1>4 DEF Close
    <2>2. /\ plain' \in [Senders -> Nat] /\ upgraded' \in [Senders -> Nat]
          /\ closing' \in [Senders -> Nat]
      BY <2>1 DEF KnownTypes
    <2>3. \A t \in Senders : plain'[t] + upgraded'[t] + closing'[t]
                               <= plain[t] + upgraded[t] + closing[t]
      <3> SUFFICES ASSUME NEW t \in Senders
                   PROVE  plain'[t] + upgraded'[t] + closing'[t]
                            <= plain[t] + upgraded[t] + closing[t]
        OBVIOUS
      <3>1. plain[t] \in Nat /\ upgraded[t] \in Nat /\ closing[t] \in Nat
        BY DEF KnownTypes
      <3>2. CASE t = s
        <4>1. \/ /\ plain'[t] = plain[t] - 1 /\ upgraded'[t] = upgraded[t]
                 /\ closing'[t] = closing[t]
              \/ /\ plain'[t] = plain[t] /\ upgraded'[t] = upgraded[t] - 1
                 /\ closing'[t] = closing[t] + 1
          BY <2>1, <3>2 DEF KnownTypes
        <4>2. QED
          BY <3>1, <4>1
      <3>3. CASE t # s
        <4>1. /\ plain'[t] = plain[t] /\ upgraded'[t] = upgraded[t]
              /\ closing'[t] = closing[t]
          BY <2>1, <3>3 DEF KnownTypes
        <4>2. QED
          BY <3>1, <4>1
      <3>4. QED
        BY <3>2, <3>3
    <2>4. QED
      BY <1>1, <2>1, <2>2, <2>3 DEF KnownTypes, CounterInv
  <1>5. ASSUME NEW s \in Senders, CloseUpgrade(s) PROVE Goal
    BY <1>1, <1>5 DEF CloseUpgrade, KnownTypes, CounterInv
  <1>6. ASSUME NEW s \in Senders, BeginReport(s) PROVE Goal
    <2>1. Connections(s) \in 0 .. MaxAccepts[s]
      BY <1>1 DEF Connections, KnownTypes, CounterInv
    <2>2. QED
      BY <1>1, <1>6, <2>1 DEF BeginReport, served, KnownTypes, CounterInv
  <1>7. ASSUME NEW s \in Senders, SendReport(s) PROVE Goal
    BY <1>1, <1>7 DEF SendReport, served, KnownTypes, CounterInv
  <1>8. ASSUME UNCHANGED <<served, partial>> PROVE Goal
    BY <1>8 DEF served, KnownTypes, CounterInv
  <1>9. QED
    BY <1>2, <1>3, <1>4, <1>5, <1>6, <1>7, <1>8
    DEF KnownNext, Sender, Receiver, Receive, Lose, ReceiveUnopened, BeginQuery,
        EndQuery, knownVars

\* What is sent is a datagram, and reported.
LEMMA SentDatagram ==
  ASSUME KnownTypes, CounterInv, NEW s \in Senders, SendReport(s)
  PROVE  \E report \in Reports :
           /\ [key |-> Key[s], report |-> report] \in Datagrams
           /\ reported' = [reported EXCEPT ![s] = @ \cup {report}]
           /\ net' = [r \in Receivers |-> net'[r]]
           /\ \A r \in Receivers :
                net'[r] \subseteq net[r] \cup {[key |-> Key[s], report |-> report]}
           /\ known' = known
  <1>1. MaxAccepts \in [Senders -> Nat] /\ Key \in [Senders -> Keys]
    BY KnownAssumption
  <1>2. PICK c \in partial[s] :
          Multicast(s, [connections |-> c, upgrades |-> Upgrades(s)])
    BY DEF SendReport
  <1> DEFINE report == [connections |-> c, upgrades |-> Upgrades(s)]
  <1>3. c \in 0 .. MaxAccepts[s] /\ Upgrades(s) \in 0 .. MaxAccepts[s]
    BY <1>1, <1>2 DEF Upgrades, KnownTypes, CounterInv
  <1>4. report \in Reports
    BY <1>3 DEF Reports, Counts
  <1>5. [key |-> Key[s], report |-> report] \in Datagrams
    BY <1>1, <1>4 DEF Datagrams
  <1>6. known' = known
    BY DEF SendReport
  <1> HIDE DEF report
  <1>7. /\ reported' = [reported EXCEPT ![s] = @ \cup {report}]
        /\ net' = [r \in Receivers |-> net'[r]]
        /\ \A r \in Receivers :
             net'[r] \subseteq net[r] \cup {[key |-> Key[s], report |-> report]}
    BY <1>2 DEF Multicast, report
  <1>8. QED
    BY <1>4, <1>5, <1>6, <1>7

\* Every step keeps it: what was reported stays so.
LEMMA NextKnownInv == KnownInv /\ [KnownNext]_knownVars => KnownInv'
  <1> SUFFICES ASSUME KnownInv, [KnownNext]_knownVars PROVE KnownInv'
    OBVIOUS
  <1>1. /\ accepts' \in [Senders -> Nat] /\ plain' \in [Senders -> Nat]
        /\ upgraded' \in [Senders -> Nat] /\ closing' \in [Senders -> Nat]
        /\ partial' \in [Senders -> SUBSET Nat]
        /\ CounterInv'
    BY NextCounters DEF KnownInv
  <1>2. /\ KnownTypes
        /\ \A r \in Receivers : \A d \in net[r] : SentFrom(d.key, d.report)
        /\ \A r \in Receivers, k \in Keys :
             \A report \in known[r][k] : SentFrom(k, report)
    BY DEF KnownInv, KnownWasReported, SentFrom
  <1>3. ASSUME NEW s \in Senders, SendReport(s) PROVE KnownInv'
    <2>1. PICK report \in Reports :
            /\ [key |-> Key[s], report |-> report] \in Datagrams
            /\ reported' = [reported EXCEPT ![s] = @ \cup {report}]
            /\ net' = [r \in Receivers |-> net'[r]]
            /\ \A r \in Receivers :
                 net'[r] \subseteq
                   net[r] \cup {[key |-> Key[s], report |-> report]}
            /\ known' = known
      BY <1>2, <1>3, SentDatagram DEF KnownInv
    <2>2. KnownTypes'
      BY <1>1, <1>2, <2>1 DEF KnownTypes
    <2>3. \A k \in Keys, x \in Reports : SentFrom(k, x) => SentFrom(k, x)'
      BY <1>2, <2>1 DEF SentFrom, KnownTypes
    <2>4. SentFrom(Key[s], report)'
      BY <1>2, <2>1 DEF SentFrom, KnownTypes
    <2>5. \A r \in Receivers : \A d \in net'[r] : SentFrom(d.key, d.report)'
      <3> SUFFICES ASSUME NEW r \in Receivers, NEW d \in net'[r]
                   PROVE  SentFrom(d.key, d.report)'
        OBVIOUS
      <3>1. CASE d \in net[r]
        <4>1. d.key \in Keys /\ d.report \in Reports
          BY <1>2, <3>1 DEF KnownTypes, Datagrams
        <4>2. QED
          BY <1>2, <2>3, <3>1, <4>1
      <3>2. CASE d = [key |-> Key[s], report |-> report]
        BY <2>4, <3>2
      <3>3. QED
        BY <2>1, <3>1, <3>2
    <2>6. KnownWasReported'
      <3> SUFFICES ASSUME NEW r \in Receivers, NEW k \in Keys,
                          NEW x \in known'[r][k]
                   PROVE  SentFrom(k, x)'
        BY DEF KnownWasReported, SentFrom
      <3>1. x \in known[r][k] /\ x \in Reports
        BY <1>2, <2>1 DEF KnownTypes
      <3>2. QED
        BY <1>2, <2>3, <3>1
    <2>7. QED
      BY <1>1, <2>2, <2>5, <2>6 DEF KnownInv
  <1>4. ASSUME reported' = reported, net' \in [Receivers -> SUBSET Datagrams],
               known' \in [Receivers -> [Keys -> SUBSET Reports]],
               \A r \in Receivers : net'[r] \subseteq net[r],
               \A r \in Receivers, k \in Keys : \A x \in known'[r][k] :
                 \/ x \in known[r][k]
                 \/ \E d \in net[r] : d.key = k /\ d.report = x
        PROVE  KnownInv'
    <2>1. KnownTypes'
      BY <1>1, <1>2, <1>4 DEF KnownTypes
    <2>2. \A k, x : SentFrom(k, x)' <=> SentFrom(k, x)
      BY <1>4 DEF SentFrom
    <2>3. \A r \in Receivers : \A d \in net'[r] : SentFrom(d.key, d.report)'
      BY <1>2, <1>4, <2>2
    <2>4. \A r \in Receivers, k \in Keys : \A x \in known'[r][k] : SentFrom(k, x)'
      BY <1>2, <1>4, <2>2
    <2>5. KnownWasReported'
      BY <2>4 DEF KnownWasReported, SentFrom
    <2>6. QED
      BY <1>1, <2>1, <2>3, <2>5 DEF KnownInv
  <1>5. ASSUME NEW r \in Receivers, NEW d \in net[r], Receive(r, d)
        PROVE  KnownInv'
    <2>1. d.key \in Keys /\ d.report \in Reports
      BY <1>2 DEF KnownTypes, Datagrams
    <2>2. /\ net' \in [Receivers -> SUBSET Datagrams] /\ reported' = reported
          /\ \A q \in Receivers : net'[q] \subseteq net[q]
      BY <1>2, <1>5 DEF Receive, KnownTypes
    <2>3. known' \in {known, [known EXCEPT ![r][d.key] = {d.report}]}
      BY <1>5 DEF Receive
    <2>4. /\ known' \in [Receivers -> [Keys -> SUBSET Reports]]
          /\ \A q \in Receivers, k \in Keys : \A x \in known'[q][k] :
               x \in known[q][k] \/ (q = r /\ d.key = k /\ d.report = x)
      <3>1. known \in [Receivers -> [Keys -> SUBSET Reports]]
        BY <1>2 DEF KnownTypes
      <3>2. CASE known' = known
        BY <3>1, <3>2
      <3>3. CASE known' = [known EXCEPT ![r][d.key] = {d.report}]
        <4> DEFINE entries == [known[r] EXCEPT ![d.key] = {d.report}]
        <4>1. /\ entries \in [Keys -> SUBSET Reports]
              /\ entries[d.key] = {d.report}
              /\ \A k \in Keys : k # d.key => entries[k] = known[r][k]
          BY <2>1, <3>1
        <4>2. known' = [known EXCEPT ![r] = entries]
          BY <3>3
        <4> HIDE DEF entries
        <4>3. QED
          BY <3>1, <4>1, <4>2
      <3>4. QED
        BY <2>3, <3>2, <3>3
    <2>5. QED
      BY <1>4, <2>2, <2>4
  <1>6. ASSUME NEW r \in Receivers, NEW d \in net[r], Lose(r, d)
        PROVE  KnownInv'
    BY <1>2, <1>4, <1>6 DEF Lose, KnownTypes
  <1>7. ASSUME UNCHANGED <<net, known, reported>> PROVE KnownInv'
    BY <1>2, <1>4, <1>7 DEF KnownTypes
  <1>8. QED
    BY <1>3, <1>5, <1>6, <1>7
    DEF KnownNext, Sender, Receiver, Accept, Upgrade, Close, CloseUpgrade,
        BeginReport, ReceiveUnopened, BeginQuery, EndQuery, knownVars, served

\* What a server enters under an address and port was sent by a server there,
\* for any servers, whatever is lost, repeated and overtaken on the way.
THEOREM KnownFromReports == KnownSpec => []KnownWasReported
  <1>1. KnownInit => KnownInv
    <2> SUFFICES ASSUME KnownInit PROVE KnownInv
      OBVIOUS
    <2>1. KnownTypes
      BY DEF KnownInit, KnownTypes
    <2>2. CounterInv
      BY KnownAssumption DEF KnownInit, CounterInv
    <2>3. QED
      BY <2>1, <2>2 DEF KnownInit, KnownInv, KnownWasReported
  <1>2. KnownInv => KnownWasReported
    BY DEF KnownInv
  <1>3. QED
    BY <1>1, <1>2, NextKnownInv, PTL DEF KnownSpec
=============================================================================
