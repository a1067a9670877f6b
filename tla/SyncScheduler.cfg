CONSTANTS
  Scheduler = scheduler
  Manual = {m1, m2}
  Interval = 1
  EmptyRetry = 3
  FullInterval = 4
  MaxBackoff = 3
  NoFull = NoFull
  FailureCap = 2
  MaxRestarts = 2
SPECIFICATION Spec
INVARIANTS
  OneRunAtATime
  StatusIsHonest
PROPERTIES
  FullSyncsAreSpaced
  FlagIsReleased
  SchedulerNeverStops
  FullSyncsRecur
