\* A rollback killed half way through removing the trash entry.
SPECIFICATION Spec
CONSTANTS
  p1 = p1
  p2 = p2
  rollout = rollout
  snapshot = snapshot
  Procs <- TwoProcs
  SessionFiles <- OneFile
  ShellSnapshots <- OneSnapshot
  Kinds = {"trash"}
  InitialEntries = 0
  MaxOps = 1
  MaxWrites = 0
  MaxFaults = 1
  MaxCrashes = 1
  EarlyFaults = {"surface"}
  LateFaults = {}
  ExternalSurfaces = {}
  SupervisedRecovery = TRUE
  TornRemoval = TRUE
INVARIANTS
  RecoveryWillSucceed
CHECK_DEADLOCK FALSE
