\* A signed action whose NaN argument becomes null.
SPECIFICATION ToolingSpec
CONSTANTS
  Keys = {"k1"}
  Subjects = {"agent"}
  Values = {"null", "nan"}
  Formats = {}
  MaxSignings = 1
  MaxDepth = 0
  MaxCalls = 0
  MaxFiles = 0
  MaxScenarios = 0
INVARIANT MutationRejected
