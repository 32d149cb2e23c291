\* A store that never fails, asked for agents it does not know.
SPECIFICATION Spec
CONSTANTS
  Requests = {r1, r2}
  Actions <- MCActions
  Dids <- MCDids
  Identities <- OneIdentity
  Bundles <- PermissiveOnly
  Reports <- NothingFound
  NClassifiers = 1
  StoreMayFail = FALSE
  FailureThreshold = 2
  ResetTimeout = 1
  HalfOpenProbes = 1
INVARIANTS
  DegradedOnlyOnOutage
