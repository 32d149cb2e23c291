\* A guarded function whose header calls something sensitive.
SPECIFICATION ToolingSpec
CONSTANTS
  Keys = {}
  Subjects = {}
  Values = {}
  Formats = {}
  MaxSignings = 0
  MaxDepth = 1
  MaxCalls = 1
  MaxFiles = 1
  MaxScenarios = 0
INVARIANT UnguardedCallsReported
