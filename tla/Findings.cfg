SPECIFICATION DetectorSpec
CONSTANTS
  Workers = 2
  Max = 2
  MaxEvents = 2
  MaxVisits = 4
  MaxHits = 6
INVARIANTS DetectorTypeOK HitsAccounted TopRetained FailOnSeesAll CountsExact
