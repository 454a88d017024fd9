\* A process killed between creating the lock file and writing it.
SPECIFICATION FairSpec
CONSTANTS
  p1 = p1
  p2 = p2
  rollout = rollout
  snapshot = snapshot
  Procs <- TwoProcs
  SessionFiles <- OneFile
  ShellSnapshots <- OneSnapshot
  Kinds = {"delete"}
  InitialEntries = 0
  MaxOps = 1
  MaxWrites = 0
  MaxFaults = 0
  MaxCrashes = 1
  EarlyFaults = {}
  LateFaults = {}
  ExternalSurfaces = {}
  SupervisedRecovery = TRUE
  TornRemoval = FALSE
PROPERTIES
  EveryLockIsReleased
CHECK_DEADLOCK FALSE
