CONSTANTS
  e1 = e1
  e2 = e2
  e3 = e3
  k1 = k1
  k2 = k2
  s1 = s1
  s2 = s2
  cny = cny
  usd = usd
  NoCurrency = NoCurrency
  Currency = {cny, usd}
  NoEnroll = NoEnroll
  Never = Never
  NoState = NoState
  Enroll = {e1, e2, e3}
  SKC = {k1, k2}
  SKU = {s1}
  MaxPulls = 4
  Snapshots <- AllSnapshots
SPECIFICATION Spec
INVARIANTS
  ConfirmedIsCurrent
  ConfirmedHasEvidence
  PullOrderDecidesNoPrice
PROPERTIES
  SwitchHasEvidence
  ConflictIsSticky
\* Captures are bounded by MaxPulls: the last one has no successor.
CHECK_DEADLOCK FALSE
