SPECIFICATION Spec
CONSTANTS
  MaxRuns = 2
INVARIANTS DefaultClientIsThere
CHECK_DEADLOCK FALSE
