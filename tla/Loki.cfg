SPECIFICATION FairSpec
CONSTANTS
  Line <- MCLine
  Writers = 2
  CfgSenders = 2
  BatchLines = 2
  Attempts = 2
  MaxLines = 4
INVARIANTS TypeOK OldestFirst
PROPERTIES FailedStops CloseReturns ImplementsDelivery
