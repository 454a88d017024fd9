\* One operation of any kind with a failing system call and a kill, under fairness.
SPECIFICATION FairSpec
CONSTANTS
  p1 = p1
  p2 = p2
  rollout = rollout
  snapshot = snapshot
  Procs <- TwoProcs
  SessionFiles <- OneFile
  ShellSnapshots = {}
  Kinds = {"delete", "trash", "cleanup-index", "restore", "purge"}
  InitialEntries = 1
  MaxOps = 2
  MaxWrites = 0
  MaxFaults = 1
  MaxCrashes = 1
  EarlyFaults = {"lock", "journal", "payload", "surface", "undo", "trash", "recover"}
  LateFaults = {}
  ExternalSurfaces = {}
  SupervisedRecovery = TRUE
  TornRemoval = FALSE
PROPERTIES
  LockIsReleased
CHECK_DEADLOCK FALSE
