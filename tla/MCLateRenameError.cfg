\* An index write that reaches the disk and then reports an error.
SPECIFICATION Spec
CONSTANTS
  p1 = p1
  p2 = p2
  rollout = rollout
  snapshot = snapshot
  Procs <- TwoProcs
  SessionFiles <- OneFile
  ShellSnapshots <- OneSnapshot
  Kinds = {"delete"}
  InitialEntries = 0
  MaxOps = 1
  MaxWrites = 0
  MaxFaults = 1
  MaxCrashes = 0
  EarlyFaults = {}
  LateFaults = {"surface"}
  ExternalSurfaces = {}
  SupervisedRecovery = TRUE
  TornRemoval = FALSE
INVARIANTS
  RolledBackIsWhole
CHECK_DEADLOCK FALSE
