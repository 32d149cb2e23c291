\* Two processes on one cache directory, two versions, two crashes.
SPECIFICATION LiveSpec
CONSTANTS
  Processes = {p1, p2}
  MaxVersion = 2
  MaxCrashes = 2
INVARIANTS
  RunsPublishedBundle
  CacheLoadsUnlessInterrupted
PROPERTIES
  StartsFromCache
