\* Two concurrent evaluations, two bundles, a store that may fail.
SPECIFICATION LiveSpec
CONSTANTS
  Requests = {r1, r2}
  Actions <- MCActions
  Dids <- MCDids
  Identities <- OneIdentity
  Bundles <- MCBundles
  Reports <- NothingFound
  NClassifiers = 2
  StoreMayFail = TRUE
  FailureThreshold = 2
  ResetTimeout = 1
  HalfOpenProbes = 1
INVARIANTS
  AllowedAgentWasActive
  FailsClosed
  ClassifierErrorBlocks
  AllowedBySomeBundle
PROPERTIES
  BreakerSpec
  EveryActionAnswered
