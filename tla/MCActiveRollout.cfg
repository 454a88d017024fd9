\* Codex appends to the rollout of a session that is being deleted.
SPECIFICATION Spec
CONSTANTS
  p1 = p1
  p2 = p2
  rollout = rollout
  snapshot = snapshot
  Procs <- TwoProcs
  SessionFiles <- OneFile
  ShellSnapshots <- OneSnapshot
  Kinds = {"delete"}
  InitialEntries = 0
  MaxOps = 1
  MaxWrites = 1
  MaxFaults = 0
  MaxCrashes = 0
  EarlyFaults = {}
  LateFaults = {}
  ExternalSurfaces <- OneFile
  SupervisedRecovery = TRUE
  TornRemoval = FALSE
PROPERTIES
  BeforeImageDurable
CHECK_DEADLOCK FALSE
