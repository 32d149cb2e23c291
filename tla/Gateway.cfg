\* Two calls, both Python runtimes, with and without the native engine.
SPECIFICATION LiveSpec
CONSTANTS
  Calls = {c1, c2}
  Runtimes = {"task", "inline"}
  Engines = {"python", "native"}
INVARIANTS
  OnlyAllowedReach
  NothingOutlivesItsAnswer
  ResultIsTrue
PROPERTIES
  SandboxedEnd
