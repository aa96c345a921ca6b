SPECIFICATION FairSpec
CONSTANTS
  Contents = {"a", "b"}
  Configurations <- MCConfigurations
  Approved = {"a"}
  Policies = {"compact", "wide"}
  Parts = 2
  Rot = "rot"
  MaxChanges = 2
  MaxCrashes = 2
  MaxFailures = 1
  MaxDamage = 1
INVARIANTS
  EvidenceChain
  ManifestsLast
PROPERTIES
  EventuallyReady
CHECK_DEADLOCK FALSE
