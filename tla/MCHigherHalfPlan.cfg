SPECIFICATION Spec
CONSTANTS
  Files <- MCFiles
  MaxAddress = 127
  LOW_CANONICAL_END = 31
  HIGH_CANONICAL_START = 96
  ELF_HEADER_SIZE = 5
  PROGRAM_HEADER_SIZE = 1
  SECTION_HEADER_SIZE = 1
  ELF64_SYMBOL_SIZE = 2
  MAX_PROGRAM_HEADERS = 4
  BOOTSTRAP_LINK_ADDRESS = 8
  BOOTSTRAP_PAGE_SIZE = 4
  BOOTSTRAP_PHYSICAL_END = 24
  HIGHER_HALF_VIRTUAL_OFFSET = 100
  HIGHER_HALF_LINK_ADDRESS = 108
  KERNEL_IMAGE_VIRTUAL_START = 100
  KERNEL_IMAGE_VIRTUAL_END = 124
  SourceStarts = {0, 20, 40}
  MAX_LOAD_ITEMS = 3
  SUPPORTED_PHYSICAL_PAGES = 8
INVARIANTS
  
  LaterStagesAgree
