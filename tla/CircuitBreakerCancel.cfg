\* The docstring's promise that probes are let through after reset_timeout,
\* where a caller may be cancelled while it waits for its probe.
SPECIFICATION LiveSpec
CONSTANTS
  Calls = {c1, c2}
  FailureThreshold = 1
  ResetTimeout = 1
  HalfOpenProbes = 1
PROPERTIES
  KeepsServing
