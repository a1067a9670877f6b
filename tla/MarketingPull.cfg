CONSTANTS
  e1 = e1
  e2 = e2
  e3 = e3
  Enroll = {e1, e2, e3}
  Deck <- ThreeEnrollments
  Goods <- ThreeSKCs
  EnrollmentPage = 1
  GoodsPage = 1
  GoodsBatch = 2
  MaxAttempts = 2
  Interval = 1
  RequestTimeout = 1
  Deadline = 6
  MaxChanges = 1
  NoSnapshot = NoSnapshot
SPECIFICATION Spec
INVARIANTS
  SlotsAreSpaced
  PagesAgree
PROPERTIES
  PullMissesNothing
  CompleteSnapshotStays
  PullsEnd
