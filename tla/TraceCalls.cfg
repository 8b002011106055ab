SPECIFICATION FairSpec
CONSTANTS
  r1 = r1
  r2 = r2
  Calls = {r1, r2}
  Blocks = {1, 2}
  Permits = 1
INVARIANT TraceTypeOK
INVARIANT CountsWithinBatches
INVARIANT PooledIsTraced
INVARIANT WaitersAreKnown
INVARIANT PatientCallsShare
PROPERTY CallsEnd
PROPERTY CacheDrains
CHECK_DEADLOCK FALSE
