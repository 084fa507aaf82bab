SPECIFICATION FairSpec
CONSTANTS
  a1 = a1
  a2 = a2
  a3 = a3
  bad = bad
  NoFrame = NoFrame
  Addr <- MCAddr
  ValidAddr <- MCValidAddr
  CAPACITY = 3
  MaxTables = 4
INVARIANTS
  FramesAreAccountedFor
  OwnerIsComplete
PROPERTIES
  RootFreedLast
  DropFinishes
  ImplementsOwnership
