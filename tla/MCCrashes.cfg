\* Deletes, moves to the trash and index cleanups by two processes, killed twice at any step and recovered.
SPECIFICATION Spec
CONSTANTS
  p1 = p1
  p2 = p2
  rollout = rollout
  snapshot = snapshot
  Procs <- TwoProcs
  SessionFiles <- OneFile
  ShellSnapshots = {}
  Kinds = {"delete", "trash", "cleanup-index"}
  InitialEntries = 0
  MaxOps = 2
  MaxWrites = 0
  MaxFaults = 0
  MaxCrashes = 2
  EarlyFaults = {}
  LateFaults = {}
  ExternalSurfaces = {}
  SupervisedRecovery = TRUE
  TornRemoval = FALSE
SYMMETRY Symmetry
INVARIANTS
  TypeOK
  ExclusiveOwner
  AlwaysRecoverable
  RecoveryWillSucceed
  WriteAhead
  IndexesAgree
  TrashMatchesJournal
PROPERTIES
  OutcomeIsFinal
  NothingElseIsLost
  Atomic
CHECK_DEADLOCK FALSE
