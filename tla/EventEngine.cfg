SPECIFICATION FairSpec
CONSTANTS
  NumClicks = 3
  ClickTimes = {0, 1, 2, 4, 5, 8}
  TruthDelays = {0, 2, 3, 6}
  Hour = 2
  Interval = 4
  MaxRestarts = 2
INVARIANTS
  NoLeakage
  LearnsOnSchedule
  PersistedBeforeDelivered
PROPERTIES
  EventuallyDone
CHECK_DEADLOCK FALSE
