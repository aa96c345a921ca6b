SPECIFICATION FairSpec
CONSTANTS
  Width <- MCWidth
  Fates <- MCFates
  Hosts <- MCHosts
  FirstHost <- Home
  Credits = 1
  Costs = {1, 2}
  Budgets = {100, 250}
  Tolerance = 1
  MaxCrashes = 2
  MaxMoves = 1
  MaxMeasures = 1
INVARIANTS
  ScoredAfterSealed
  RetainedUntilSettled
  LockIsOfSelection
PROPERTIES
  ImplementsMatrix
  EventuallySettles
