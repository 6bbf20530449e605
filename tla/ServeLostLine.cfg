SPECIFICATION Spec
CONSTANTS
  Object = {k1}
  Day = 2
  Lookback = 2
  Streams = FALSE
  None = None
  MaxLag = 2
  MaxRecords = 1
  MaxTime = 3
  MaxRestarts = 0
INVARIANT LinesNeverLost
CHECK_DEADLOCK FALSE
