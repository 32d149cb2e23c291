\* An outbox of two, batches of two, two background tasks and two stops.
SPECIFICATION LiveSpec
CONSTANTS
  NRecords = 4
  MaxOutbox = 2
  BatchSize = 2
  Workers = {w1, w2}
  Stoppers = {s1, s2}
  NoTask = NoTask
INVARIANTS
  OnePlace
  OneTaskUnlessRaced
PROPERTIES
  OutboxDrains
  StopReturns
