SPECIFICATION KnownSpec
CONSTANTS
  s1 = s1
  s2 = s2
  k1 = k1
  k2 = k2
  Senders = {s1, s2}
  Receivers = {r1}
  Keys = {k1, k2}
  Key <- MCKey
  MaxAccepts <- MCAccepts
  MaxUnderWay = 2
INVARIANTS
  KnownWasReported
PROPERTIES
  KnownConverges
