SPECIFICATION Spec
CONSTANTS
  Object = {k1}
  Day = 2
  Lookback = 2
  Streams = TRUE
  None = None
  MaxLag = 1
  MaxRecords = 1
  MaxTime = 3
  MaxRestarts = 0
INVARIANT VisitedIsRead
CHECK_DEADLOCK FALSE
