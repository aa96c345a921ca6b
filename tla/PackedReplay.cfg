SPECIFICATION FairSpec
CONSTANTS
  NumClicks = 7
  Hour = 2
  HoursPerDay = 2
  Attribution = 2
  WaitDays = 1
  EvaluationDay = 4
  LastDay = 4
  MonitorDays = 2
  Methods = {"complete_wait", "immediate_fake_negative", "fixed_wait", "dfm", "fnw", "es_dfm", "oracle_reference"}
  Fixtures <- MCFixtures
  MaxCrashes = 1
INVARIANTS
  LearnsOnSchedule
  NothingRefused
PROPERTIES
  ImplementsStream
  EventuallySettles
CHECK_DEADLOCK FALSE
