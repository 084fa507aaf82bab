SPECIFICATION Spec
CONSTANTS
  Commands = 1
  HEADLESS_TIMEOUT = 3
  Logs <- MCLogs
INVARIANTS
  NoQemuLeftBehind
PROPERTIES
  EveryCommandEnds
