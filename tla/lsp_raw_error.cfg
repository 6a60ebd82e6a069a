CONSTANTS
  Reads = {g1}
  Posts = {}
  Resolves = {}
  MaxRetries = 1
SPECIFICATION Spec
CHECK_DEADLOCK FALSE
INVARIANT FailuresAreLspErrors
