SPECIFICATION FairSpec
CONSTANTS
  Line <- AllLines
  Contents <- AllContents
  MaxVersion = 1
  Limits <- BothLimits
  PageBytes = 7
  MaxKey = 1
  MaxLost = 1
INVARIANTS
  TypeOK
  PagesAreOneVersion
  PageWithinBounds
  EveryPageAdvances
  CursorAtBoundary
PROPERTY PassEnds
CHECK_DEADLOCK FALSE
