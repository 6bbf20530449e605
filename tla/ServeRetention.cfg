SPECIFICATION FairSpec
CONSTANTS
  Object = {k1}
  Day = 2
  Lookback = 2
  Streams = FALSE
  None = None
  MaxLag = 2
  MaxRecords = 1
  MaxTime = 6
  MaxRestarts = 0
INVARIANTS ObjectsCountedOnce RecordsCountedOnce ReportComplete CaughtUp
CHECK_DEADLOCK FALSE
PROPERTY RetriedUntilSeen
