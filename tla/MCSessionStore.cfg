\* Both modes, two devices and room for one: the cap and its eviction or admission limit, approvals, reissues,
\* hydrations and a stream lease.
SPECIFICATION Spec
CONSTANTS
  Ids = {d1, d2}
  MaxSessions = 1
  MaxAge = 2
  Idle = 1
  Modes = {TRUE, FALSE}
  NotifyEvery = 2
  MaxTime = 3
  MaxSecrets = 3
  MaxHydrations = 2
  MaxLeases = 1
SYMMETRY IdSymmetry
INVARIANTS
  TypeOK
  Capacity
  CleanMeansSaved
  ActivityLagBounded
PROPERTIES
  LeaseFinality
  ExpiryIsFinal
  ImplementsRegistry
CHECK_DEADLOCK FALSE
