SPECIFICATION FairSpec
CONSTANTS
  c1 = c1
  c2 = c2
  Builds <- MCBuilds
  Cr3Values <- MCCr3Values
  Segments = 2
  Frames = 3
  MaxChanges = 2
  NoMap = NoMap
PROPERTY
  BootInfoReleasedFirst
