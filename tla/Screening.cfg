\* Two concurrent evaluations of one agent.
SPECIFICATION Spec
CONSTANTS
  Requests = {r1, r2}
  Actions <- MCActions
  Dids = {"agent"}
  Tools = {"transfer"}
  Identities <- MCIdentities
  Specs <- MCSpecs
  Bundle <- MCBundle
  ModelScores <- MCModelScores
  Related = {}
  Limits <- MCLimits
  Horizon = 1
  MaxWindow = 2
SYMMETRY RequestSymmetry
INVARIANTS
  TypeOK
  OnlyEntitledRun
  NothingSensitiveRuns
  WindowIsRecent
PROPERTIES
  UnusualReported
