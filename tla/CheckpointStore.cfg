SPECIFICATION Spec
CONSTANTS
  MaxGeneration = 6
  MaxCrashes = 3
  MaxDamage = 2
  DamageKinds = {"damaged", "garbled", "pointer", "undecodable"}
INVARIANTS
  PointerNamesWholeGenerations
  RetainsTwoVerified
  FallsBackToVerified
PROPERTIES
  LossBoundedByDamage
  ImplementsRegister
CHECK_DEADLOCK FALSE
