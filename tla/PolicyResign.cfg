\* A policy file that is signed, and signed again.
SPECIFICATION ToolingSpec
CONSTANTS
  Keys = {"k1", "k2"}
  Subjects = {"agent"}
  Values = {"text"}
  Formats = {"yaml"}
  MaxSignings = 2
  MaxDepth = 0
  MaxCalls = 0
  MaxFiles = 0
  MaxScenarios = 0
INVARIANT SignedBundleVerifies
