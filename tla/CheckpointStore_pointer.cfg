\* Violation: a crash inside the pointer write leaves latest.json's temporary.
SPECIFICATION Spec
CONSTANTS
  MaxGeneration = 3
  MaxCrashes = 1
  MaxDamage = 0
  DamageKinds = {}
INVARIANT CrashAloneIsResumable
CHECK_DEADLOCK FALSE
