SPECIFICATION Spec
CONSTANTS
  Object = {k1}
  Day = 2
  Lookback = 2
  Streams = FALSE
  None = None
  MaxLag = 1
  MaxRecords = 1
  MaxTime = 3
  MaxRestarts = 0
INVARIANT ListErrorCommitsNothing
CHECK_DEADLOCK FALSE
