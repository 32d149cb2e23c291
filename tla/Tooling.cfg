\* Two keys, all JSON values that canonical_bytes treats specially; scans of
\* two files, runs of three scenarios.
SPECIFICATION ToolingSpec
CONSTANTS
  Keys = {"k1", "k2"}
  Subjects = {"agent", "peer"}
  Values = {"null", "nan", "huge"}
  Formats = {"yaml", "json"}
  MaxSignings = 2
  MaxDepth = 3
  MaxCalls = 3
  MaxFiles = 2
  MaxScenarios = 3
INVARIANTS
  VerifiesIffIntact
  GuardReportTrue
  RedTeamReportTrue
