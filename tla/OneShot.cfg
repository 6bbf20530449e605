SPECIFICATION Spec
CONSTANTS
  Line <- MCLine
  Record <- MCRecord
  FindingLine <- MCFindingLine
  Severity = {1, 2}
  MaxFindings = 1
  Worker = {"w1", "w2"}
  Main = "main"
  JWriter <- MCJWriter
  FlushLines = 2
INVARIANTS CompleteUnlessFailed SuccessIsComplete ClosedOnce
PROPERTY MultiDelivers
