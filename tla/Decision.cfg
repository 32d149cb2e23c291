\* Every input built from the small sets of MCDecision.
SPECIFICATION Spec
CONSTANTS
  Actions <- MCActions
  Identities <- MCIdentities
  BaseBundle = {}
  Rules <- MCRules
  Factors <- MCFactors
  MaxFactors = 3
INVARIANTS
  MostRestrictiveRuleWins
  RiskDecidesWithoutRules
PROPERTIES
  NeverLoosens
CHECK_DEADLOCK FALSE
