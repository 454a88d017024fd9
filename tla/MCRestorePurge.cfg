\* Restores and purges of one of two trash entries by two processes, killed twice at any step and recovered.
SPECIFICATION Spec
CONSTANTS
  p1 = p1
  p2 = p2
  rollout = rollout
  snapshot = snapshot
  Procs <- TwoProcs
  SessionFiles <- OneFile
  ShellSnapshots = {}
  Kinds = {"restore", "purge"}
  InitialEntries = 2
  MaxOps = 4
  MaxWrites = 0
  MaxFaults = 0
  MaxCrashes = 2
  EarlyFaults = {}
  LateFaults = {}
  ExternalSurfaces = {}
  SupervisedRecovery = TRUE
  TornRemoval = FALSE
SYMMETRY Symmetry
INVARIANTS
  RecoveryWillSucceed
  TrashMatchesJournal
PROPERTIES
  PurgeSparesLogs
  Atomic
CHECK_DEADLOCK FALSE
