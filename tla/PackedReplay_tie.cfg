SPECIFICATION Spec
CONSTANTS
  NumClicks = 7
  Hour = 2
  HoursPerDay = 2
  Attribution = 2
  WaitDays = 1
  EvaluationDay = 4
  LastDay = 4
  MonitorDays = 2
  Methods = {"oracle_reference"}
  Fixtures <- MCFixtures
  MaxCrashes = 1
INVARIANTS
  ResumesFromEveryCheckpoint
CHECK_DEADLOCK FALSE
