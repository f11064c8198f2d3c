SPECIFICATION Spec
CONSTANTS
  Threads = {w1, w2, w3}
  RingSize = 3
  HeadBits = 2
  MaxEvents = 8
SYMMETRY Symmetry
INVARIANTS
  PrintsLatest
  CollideOnlyIfLapped
