SPECIFICATION TablesSpec
CONSTANTS
  Callers <- MCPlacements
  Disturbed <- MCDisturbed
  Region <- MCRegion
  FrameLists <- MCFrameLists
  Words <- MCWords
  MaxFaults = 2
  COUNT = 3
  HIGH_CANONICAL_START = 27
  SUPPORTED_PHYSICAL_END = 36
  BOOTSTRAP_PHYSICAL_START = 2
  BOOTSTRAP_PHYSICAL_END = 7
  TRANSITION_IDENTITY_END = 27
  BOOTSTRAP_STACK_PAGES = 2
  CAPACITY = 2
  TABLES = 8
  ENTRIES = 10
  REMOVALS = 1
INVARIANTS
  VerifiedTablesTranslateThePlan
  EveryPlacementIsUsable
