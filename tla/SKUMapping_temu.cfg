CONSTANTS
  SKU = {s1}
  WarehouseSKU = {w1}
  Factor = {2, 3, 4}
  Unit = 2
  Order = {o1}
  LineKey = {k1}
  Quantity = {0, 1}
  Account <- TwoAccounts
  a1 = a1
  a2 = a2
  Editor = {e1, e2}
  Temu = TRUE
  RemoteEdits = TRUE
  Failures = TRUE
  None = None
SPECIFICATION Spec
INVARIANTS
  WarehouseQuantityFits
  ClaimsWereAccepted
  ManualReachesEveryLine
PROPERTIES
  SteadySyncAgrees
