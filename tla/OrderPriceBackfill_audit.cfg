CONSTANTS
  s1 = s1
  l1 = l1
  SKU = {s1}
  Line = {l1}
  SKUOf <- OneSKU
  Price <- Prices
  Request = {q1}
  NULL = NULL
  MaxTime = 4
SPECIFICATION Spec
INVARIANT
  PricesAreAudited
\* The clock is bounded by MaxTime.
CHECK_DEADLOCK FALSE
