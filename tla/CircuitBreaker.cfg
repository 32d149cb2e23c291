\* A breaker that trips on 2 failures and lets 2 probes through.
SPECIFICATION LiveSpec
CONSTANTS
  Calls = {c1, c2, c3}
  FailureThreshold = 2
  ResetTimeout = 2
  HalfOpenProbes = 2
INVARIANTS
  TypeOK
  FailFast
  ClosedBelowThreshold
  NoPhantomSlots
PROPERTIES
  TripIsEarned
  KeepsServingUnlessLeaked
