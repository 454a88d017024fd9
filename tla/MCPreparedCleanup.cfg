\* A cleanup killed before its last check, then recovered.
SPECIFICATION Spec
CONSTANTS
  p1 = p1
  p2 = p2
  rollout = rollout
  snapshot = snapshot
  Procs <- TwoProcs
  SessionFiles <- OneFile
  ShellSnapshots <- OneSnapshot
  Kinds = {"cleanup-index"}
  InitialEntries = 0
  MaxOps = 1
  MaxWrites = 0
  MaxFaults = 0
  MaxCrashes = 1
  EarlyFaults = {}
  LateFaults = {}
  ExternalSurfaces = {}
  SupervisedRecovery = TRUE
  TornRemoval = FALSE
PROPERTIES
  PreparedPerformsNothing
CHECK_DEADLOCK FALSE
