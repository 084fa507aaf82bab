SPECIFICATION TestSpec
CONSTANTS
  c1 = c1
  c2 = c2
  Builds <- MCBuilds
  Cr3Values <- MCCr3Values
  Segments = 2
  Frames = 3
  MaxChanges = 2
  NoMap = NoMap
INVARIANTS
  PagesAreAccountedFor
  ReportsAreTruthful
  HandoffIsComplete
  VerdictIsRight
  FinalMapIsCurrent
  GivesUpOnlyWhenRefused
PROPERTIES
  NothingFreedAfterBoundary
  ImplementsBoundary
  KeyIsFresh
  BootEnds
