\* Violation: a negative matures as another click converts at the end of its wait.
SPECIFICATION Spec
CONSTANTS
  NumClicks = 2
  ClickTimes = {0, 2}
  Wait = 2
  Window = 4
  FirstDecision = 5
  Day = 2
  Credits = 2
  Methods = {"fixed_wait"}
  AllowTies = TRUE
INVARIANT EarlyHasNoProvisional
CHECK_DEADLOCK FALSE
