SPECIFICATION Spec
CONSTANTS
  Sessions <- Ids3
  WalkGraphs <- AllGraphs
  Subagents <- OnlyThree
  RootStates <- SomeRoots
  Requests <- SomeRequests
  MaxRootWrites = 2
  RefIds <- TwoIds
  Documents <- SomeDocuments
  MaxDocWrites = 2
  RowSessions <- TwoIds
  JobItems = {"j"}
  RowStates <- SomeDatabases
  MaxRowWrites = 2
  Exporters = {"a", "b"}
  MaxDeaths = 1
  Line <- SomeLines
  Contents <- SomeContents
  MaxVersion = 2
  Inodes = {1, 2}
  MaxFileWrites = 3
INVARIANTS
  TypesOK
  WalkIsClosure
  TopIsRoot
  RelativesAreNamed
  ActiveIsSpared
  PreviewMatchesPlan
  RowsComeBack
  RecoveredIsWhole
  ExportIsWhole
PROPERTIES
  RemovedIsKept
  RefsComeBack
  NewerRowsKept
  ReplacesWhatItRead
  SurvivesPowerLoss
CHECK_DEADLOCK FALSE
