CONSTANTS
  SKU = {s1, s2}
  Key = {p1, p2}
  NULL = NULL
  MaxTime = 5
SPECIFICATION Spec
INVARIANTS
  Disjoint
PROPERTIES
  HistoryIsFinal
  ImplementsPriceCurve
\* Capture times are bounded by MaxTime: the last one has no successor.
CHECK_DEADLOCK FALSE
