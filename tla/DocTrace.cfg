SPECIFICATION Spec
CONSTANTS
  r1 = r1
  r2 = r2
  Calls = {r1, r2}
  Blocks = {1, 2}
  Permits = 1
CHECK_DEADLOCK FALSE
INVARIANT MissingMeansNotBatched
