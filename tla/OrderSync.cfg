CONSTANTS
  Shop = {s1, s2}
  Shein = {s1}
  Order = {1, 2}
  Blank = {0, 2}
  Overlap = 1
  Lateness = 1
  NoTime = NoTime
  NoBatch = NoBatch
  MaxTime = 2
  MaxVersion = 2
  MaxWrites = 3
  MaxMoves = 1
SPECIFICATION Spec
INVARIANTS
  NothingIsForgotten
