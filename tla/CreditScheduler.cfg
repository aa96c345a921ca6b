SPECIFICATION FairSpec
CONSTANTS
  StartDay = 31
  EndDay = 36
  WindowDays = 3
  Policies = {"early", "midpoint", "deadline", "calibration_drift", "fixed_daily"}
  MaxCrashes = 1
  MaxCorruptions = 1
INVARIANTS
  OneCreditPerWindow
  EveryCreditSpent
  LoadsWhatItSaves
PROPERTIES
  EventuallyComplete
CHECK_DEADLOCK FALSE
