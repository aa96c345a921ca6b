SPECIFICATION Spec
CONSTANTS
  NumClicks = 3
  ClickTimes = {0, 2, 3, 6, 7}
  Wait = 2
  Window = 4
  FirstDecision = 5
  Day = 2
  Credits = 3
  Methods = {"complete_wait", "immediate_fake_negative", "fixed_wait", "dfm", "es_dfm", "oracle_reference"}
  AllowTies = FALSE
INVARIANTS
  NeverRefused
  NoLookAhead
  ObservationLegal
PROPERTIES
  ImplementsStream
CHECK_DEADLOCK FALSE
