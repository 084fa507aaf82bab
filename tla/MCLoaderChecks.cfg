SPECIFICATION Spec
CONSTANTS
  UEFI_PAGE_SIZE = 4
  MAX_KERNEL_BYTES = 6
  MaxLength = 7
  PAGE_SIZE = 4
  SUPPORTED_PHYSICAL_END = 12
  MIN_PHYSICAL_ADDRESS_BITS = 3
  MAX_PHYSICAL_ADDRESS_BITS = 4
  Cpus <- MCCpus
  Hierarchies <- MCHierarchies
  Areas <- MCAreas
  Headers <- MCHeaders
  Ownerships <- MCOwnerships
  FrameLists <- MCFrameLists
  MemoryMaps <- MCMemoryMaps
  U64 = 64
  ALIGNMENT = 2
  BOOT_INFO_SIZE = 16
  EXTENSION_HEADER_SIZE = 4
  PAGE_TABLE_OWNERSHIP_SIZE = 8
  OWNED_PAGE_TABLE_FRAME_SIZE = 4
  MEMORY_PAGE_SIZE = 4
  PAGE_TABLE_PHYSICAL_CAP = 32
  U64_END = 32
  PAGE = 4
  PhysicalEnd = 28
  BytesPerPixel = 2
  MEMORY_DESCRIPTOR_SIZE = 2
  CONVERTED_MAP_PAGES = 2
  BOOTSTRAP_STACK_PAGES = 2
  BOOTSTRAP_IDENTITY_LIMIT = 20
  STACK_BYTES = 8
  SIZE_OF_BOOT_INFO = 3
  Gops <- MCGops
INVARIANTS
  ReadImageIsTheFile
  ReadinessIsEarned
  AcceptedClaimsAreTrue
  LaterChecksAgree
  EveryPixelIsReserved
PROPERTIES
  ReadEnds
  WalkAdvances
