SPECIFICATION Spec
CONSTANTS
  Object = {k1, k2}
  Day = 2
  Lookback = 2
  Streams = FALSE
  None = None
  MaxLag = 1
  MaxRecords = 1
  MaxTime = 3
  MaxRestarts = 1
SYMMETRY Symmetry
INVARIANT IInv
PROPERTY ImplementsLedger
CHECK_DEADLOCK FALSE
