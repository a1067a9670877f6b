CONSTANTS
  SKU = {s1}
  WarehouseSKU = {w1, w2}
  Factor = {2}
  Unit = 2
  Order = {o1}
  LineKey = {k1}
  Quantity = {0, 1}
  Account <- OneAccount
  a1 = a1
  a2 = a2
  Editor = {e1}
  Temu = TRUE
  RemoteEdits = FALSE
  Failures = FALSE
  None = None
SPECIFICATION Spec
PROPERTIES
  NextSyncAgrees
