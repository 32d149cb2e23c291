\* One process restarted once, with a cache directory that refuses a write.
SPECIFICATION Spec
CONSTANTS
  Processes = {p1}
  MaxVersion = 2
  MaxCrashes = 1
INVARIANTS
  CacheOnlyOnOutage
