\* A delete, a move to the trash, a restore or a purge with two failing system calls and a kill, and its recovery.
SPECIFICATION Spec
CONSTANTS
  p1 = p1
  p2 = p2
  rollout = rollout
  snapshot = snapshot
  Procs <- TwoProcs
  SessionFiles <- OneFile
  ShellSnapshots = {}
  Kinds = {"delete", "trash", "restore", "purge"}
  InitialEntries = 1
  MaxOps = 2
  MaxWrites = 0
  MaxFaults = 2
  MaxCrashes = 1
  EarlyFaults = {"lock", "journal", "payload", "surface", "undo", "trash", "recover"}
  LateFaults = {"journal", "payload"}
  ExternalSurfaces = {}
  SupervisedRecovery = TRUE
  TornRemoval = TRUE
SYMMETRY Symmetry
INVARIANTS
  RolledBackIsWhole
PROPERTIES
  RestoreIsWhole
  Atomic
CHECK_DEADLOCK FALSE
