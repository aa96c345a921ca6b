SPECIFICATION FairSpec
CONSTANTS
  Kinds = {"exposures", "primary", "intermediate"}
  Turns = 4
  RowsBy <- MCRowsBy
  MaxCrashes = 3
  MaxDamage = 1
  MaxDrift = 1
INVARIANTS
  SealedIsComplete
  DurableBeforeCheckpoint
  RowsInOrder
  RefusedForReason
PROPERTIES
  ImplementsLedger
  EventuallySettles
CHECK_DEADLOCK FALSE
