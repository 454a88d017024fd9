\* A delete, a move to the trash or a restore while Codex writes the lists and the logs, and while a step of the release fails.
SPECIFICATION Spec
CONSTANTS
  p1 = p1
  p2 = p2
  rollout = rollout
  snapshot = snapshot
  Procs <- OneProc
  SessionFiles <- OneFile
  ShellSnapshots <- OneSnapshot
  Kinds = {"delete", "trash", "restore"}
  InitialEntries = 1
  MaxOps = 2
  MaxWrites = 2
  MaxFaults = 1
  MaxCrashes = 1
  EarlyFaults = {"release"}
  LateFaults = {"release"}
  ExternalSurfaces = {"session-index", "history", "global-state", "logs"}
  SupervisedRecovery = TRUE
  TornRemoval = FALSE
PROPERTIES
  ForeignDataKept
  BeforeImageDurable
CHECK_DEADLOCK FALSE
