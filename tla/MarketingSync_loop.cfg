CONSTANTS
  e1 = e1
  e2 = e2
  k1 = k1
  s1 = s1
  s2 = s2
  cny = cny
  usd = usd
  NoCurrency = NoCurrency
  Currency = {cny, usd}
  NoEnroll = NoEnroll
  Never = Never
  NoState = NoState
  NULL = NULL
  NoSnapshot = NoSnapshot
  Enroll = {e1, e2}
  SKC = {k1}
  SKU = {s1, s2}
  MaxPulls = 4
  Snapshots <- FewSnapshots
SPECIFICATION SyncSpec
INVARIANTS
  ObserverMatchesSnapshot
  TableMatchesMemory
  RecordedCapturesAreExact
PROPERTIES
  ConfirmedAnswersAreFinal
  ImplementsIntervals
\* Pulls are bounded by MaxPulls: the last one has no successor.
CHECK_DEADLOCK FALSE
