SPECIFICATION Spec
CONSTANTS
  Images <- MCImages
  PageSize = 2
  MaxAddress = 31
  BOOTSTRAP_WINDOW_START = 4
  BOOTSTRAP_WINDOW_END = 14
  BOOTSTRAP_WINDOW_BYTES = 10
  MAX_LOAD_ITEMS = 2
  MaxFaults = 1
INVARIANTS
  LoadsExactlyTheLoadable
  LoadedKernelIsExact
