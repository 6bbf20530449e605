SPECIFICATION Spec
CONSTANTS
  Flow <- MCFlow
  Public <- MCPublic
  Private <- MCPrivate
  Sensitive = {22}
  Workers = 2
  MaxEvents = 1
  MaxKeys = 2
  MaxSources = 2
  ScanPorts = 2
  MaxFlows = 4
INVARIANTS TypeOK TotalsExact PortScansExact EarliestKept
