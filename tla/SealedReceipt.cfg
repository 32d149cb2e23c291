\* A memory receipt whose issued_at or version is changed.
SPECIFICATION ToolingSpec
CONSTANTS
  Keys = {"k1"}
  Subjects = {"agent"}
  Values = {"null"}
  Formats = {}
  MaxSignings = 1
  MaxDepth = 0
  MaxCalls = 0
  MaxFiles = 0
  MaxScenarios = 0
INVARIANT ReceiptTamperingDetected
