\* Violation: after a fallback the recorded position is ahead of the run.
SPECIFICATION Spec
CONSTANTS
  Kinds = {"exposures", "primary"}
  Turns = 4
  RowsBy <- MCRowsBy
  MaxCrashes = 3
  MaxDamage = 1
  MaxDrift = 0
INVARIANT FallbackKeepsLedger
CHECK_DEADLOCK FALSE
