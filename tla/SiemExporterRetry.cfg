\* A transport that may fail, and nobody who stops the exporter.
SPECIFICATION Spec
CONSTANTS
  NRecords = 2
  MaxOutbox = 2
  BatchSize = 1
  Workers = {w1}
  Stoppers = {}
  NoTask = NoTask
INVARIANTS
  OnlyOverflowLoses
CHECK_DEADLOCK FALSE
