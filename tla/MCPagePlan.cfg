SPECIFICATION Spec
CONSTANTS
  Callers <- MCCallers
  Region <- MCRegion
  COUNT = 3
  HIGH_CANONICAL_START = 27
  SUPPORTED_PHYSICAL_END = 8
  BOOTSTRAP_PHYSICAL_START = 2
  BOOTSTRAP_PHYSICAL_END = 7
  TRANSITION_IDENTITY_END = 8
  BOOTSTRAP_STACK_PAGES = 2
  CAPACITY = 3
  TABLES = 8
  ENTRIES = 12
  REMOVALS = 1
INVARIANTS
  WalkMatchesMappings
  ProtectionsHold
  RemovalsClearTheLowHalf
  RefusedForAReason
