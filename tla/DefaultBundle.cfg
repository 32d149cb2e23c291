\* The shipped bundle and an agent in good standing.
SPECIFICATION Spec
CONSTANTS
  Actions <- MCActions
  Identities <- MCIdentities
  BaseBundle <- DefaultBundle
  Rules = {}
  Factors <- MCFactors
  MaxFactors = 1
INVARIANTS
  CleanActionNotDenied
CHECK_DEADLOCK FALSE
