CONSTANTS
  Shop = {"a", "b", "c"}
  Fee = {1, 2}
SPECIFICATION Spec
INVARIANT
  FeesAreShown
\* A summary is returned once every shop has been visited.
CHECK_DEADLOCK FALSE
