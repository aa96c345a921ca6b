SPECIFICATION FairSpec
CONSTANTS
  Schedule <- MCSchedule
  Days = 3
  Fractions = 2
  Hosts = {"a", "b", "other"}
  Locked = {"a", "b"}
  Offline = 1
  MaxCrashes = 2
  MaxMoves = 1
INVARIANTS
  EvidenceChain
  SnapshotsAreTheRun
  ReportIsOfTheMatrix
PROPERTIES
  ImplementsMatrix
  EventuallySettles
