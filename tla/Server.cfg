SPECIFICATION FairSpec
CONSTANTS
  Record <- MCRecord
  Subcommand = {"s3"}
  Request = {r1}
  MaxEvents = 1
  MaxTicks = 3
INVARIANTS KeptUnchanged ReportExact CountersExact ExitIsClean
PROPERTIES Exits
