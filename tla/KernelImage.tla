----------------------------- MODULE KernelImage -----------------------------
(***************************************************************************)
(* The contract of the kernel file (crates/kernel-image/src/lib.rs):        *)
(* ValidatedImage::parse walks header, section table and program table, and *)
(* validate_bootstrap_image or validate_higher_half_image then walks the    *)
(* load segments it found.                                                  *)
(*                                                                         *)
(* A file is its decoded fields.  Addresses, offsets and sizes are scaled   *)
(* bytes, MaxAddress stands for u64::MAX, and an addition the code checks   *)
(* overflows where its sum passes MaxAddress.  What the decoder would read  *)
(* outside the file has no value: the checks of the tables come first.      *)
(***************************************************************************)
EXTENDS Integers, Sequences, FiniteSets

CONSTANTS
  Files,                      \* files the loader may be given
  MaxAddress,                 \* u64::MAX
  LOW_CANONICAL_END,          \* last address of the low half
  HIGH_CANONICAL_START,
  ELF_HEADER_SIZE, PROGRAM_HEADER_SIZE, SECTION_HEADER_SIZE, ELF64_SYMBOL_SIZE,
  MAX_PROGRAM_HEADERS,
  BOOTSTRAP_LINK_ADDRESS,
  BOOTSTRAP_PAGE_SIZE,
  BOOTSTRAP_PHYSICAL_END,
  HIGHER_HALF_VIRTUAL_OFFSET,
  HIGHER_HALF_LINK_ADDRESS,
  KERNEL_IMAGE_VIRTUAL_START,
  KERNEL_IMAGE_VIRTUAL_END

Addresses == 0..MaxAddress
Contracts == {"bootstrap", "higher_half"}

RawHeader ==
  [class: Nat, endianness: Nat, ident_version: Nat, os_abi: Nat, object_type: Nat,
   machine: Nat, elf_version: Nat, header_size: Nat, program_header_size: Nat,
   section_header_size: Nat, entry: Addresses,
   program_header_offset: Addresses, section_header_offset: Addresses]

RawProgramHeader ==
  [segment_type: Nat, flags: 0..7, file_offset: Addresses, virtual_address: Addresses,
   physical_address: Addresses, file_size: Addresses, memory_size: Addresses,
   alignment: Addresses]

\* A section header; symbols holds the section index of each symbol of a table.
SectionHeader ==
  [type: Nat, size: Addresses, file_offset: Addresses, entry_size: Nat, symbols: Seq(Nat)]

ASSUME KernelImageAssumption ==
  /\ MaxAddress \in Nat /\ BOOTSTRAP_PAGE_SIZE \in Nat \ {0}
  /\ LOW_CANONICAL_END \in Addresses /\ HIGH_CANONICAL_START \in Addresses
  /\ LOW_CANONICAL_END < HIGH_CANONICAL_START
  /\ BOOTSTRAP_LINK_ADDRESS + HIGHER_HALF_VIRTUAL_OFFSET = HIGHER_HALF_LINK_ADDRESS
  /\ BOOTSTRAP_LINK_ADDRESS < BOOTSTRAP_PHYSICAL_END
  /\ HIGH_CANONICAL_START <= KERNEL_IMAGE_VIRTUAL_START
  /\ BOOTSTRAP_PHYSICAL_END + HIGHER_HALF_VIRTUAL_OFFSET <= KERNEL_IMAGE_VIRTUAL_END
  /\ KERNEL_IMAGE_VIRTUAL_END <= MaxAddress
  /\ \A f \in Files :
       /\ f.length \in Addresses /\ f.magic \in BOOLEAN /\ f.header \in RawHeader
       /\ f.programs \in Seq(RawProgramHeader) /\ f.sections \in Seq(SectionHeader)

PT_LOAD == 1
PT_DYNAMIC == 2
PT_INTERP == 3
PT_TLS == 7
SHT_SYMTAB == 2
SHT_RELA == 4
SHT_REL == 9
SHT_DYNSYM == 11

VARIABLES
  contract,  \* the contract the file is held to
  file,      \* its decoded fields
  stage,     \* the loop at work, or how the validation ended
  cursor,    \* entries that loop has dealt with
  span,      \* ValidatedImage: the count and the two ranges of the load segments
  seen,      \* what the loops have come across
  error      \* why the file was turned away

-----------------------------------------------------------------------------
(* The tables.                                                               *)

\* Error of the first check that fails, in the order of the code.
FirstFailing(checks) ==
  LET failing == SelectSeq(checks, LAMBDA c : c.fails)
  IN IF failing = <<>> THEN "none" ELSE Head(failing).error

Check(fails, name) == [fails |-> fails, error |-> name]

is_canonical(address) == address <= LOW_CANONICAL_END \/ address >= HIGH_CANONICAL_START

ranges_overlap(a_start, a_end, b_start, b_end) == a_start < b_end /\ b_start < a_end

\* Every divisor but one is even.
is_power_of_two(n) == \A d \in 2..n : n % d = 0 => d % 2 = 0

is_readable(s) == (s.flags \div 4) % 2 = 1
is_writable(s) == (s.flags \div 2) % 2 = 1
is_executable(s) == s.flags % 2 = 1

validate_magic ==
  <<Check(file.length < 4, "HeaderTooSmall"), Check(~file.magic, "BadMagic"),
    Check(file.length < ELF_HEADER_SIZE, "HeaderTooSmall")>>

validate_header ==
  LET h == file.header
  IN <<Check(h.class # 2, "UnsupportedClass"),
       Check(h.endianness # 1, "UnsupportedEndianness"),
       Check(h.ident_version # 1, "UnsupportedIdentVersion"),
       Check(h.os_abi # 0, "UnsupportedOsAbi"),
       Check(h.object_type # 2, "UnsupportedObjectType"),
       Check(h.machine # 62, "UnsupportedMachine"),
       Check(h.elf_version # 1, "UnsupportedElfVersion"),
       Check(h.header_size # ELF_HEADER_SIZE, "InvalidHeaderSize"),
       Check(h.program_header_size # PROGRAM_HEADER_SIZE, "InvalidProgramHeaderSize"),
       Check(Len(file.programs) > MAX_PROGRAM_HEADERS, "TooManyProgramHeaders")>>

validate_program_table ==
  LET end == file.header.program_header_offset
               + file.header.program_header_size * Len(file.programs)
  IN <<Check(end > MaxAddress, "ProgramHeaderTableOverflow"),
       Check(end > file.length, "ProgramHeaderTableOutsideFile")>>

\* A file without sections is not asked for a section table.
validate_section_table ==
  LET end == file.header.section_header_offset
               + file.header.section_header_size * Len(file.sections)
      present == file.sections # <<>>
  IN <<Check(present /\ file.header.section_header_size # SECTION_HEADER_SIZE,
             "InvalidSectionHeaderSize"),
       Check(present /\ end > MaxAddress, "SectionHeaderTableOverflow"),
       Check(present /\ end > file.length, "SectionHeaderTableOutsideFile")>>

\* The first symbol of a table is the null symbol.
validate_symbol_table(s) ==
  <<Check(s.entry_size # ELF64_SYMBOL_SIZE \/ s.size % ELF64_SYMBOL_SIZE # 0,
          "InvalidSymbolTable"),
    Check(s.file_offset + s.size > MaxAddress, "SectionHeaderTableOverflow"),
    Check(s.file_offset + s.size > file.length, "SectionHeaderTableOutsideFile"),
    Check(\E i \in 2..Len(s.symbols) : s.symbols[i] = 0, "UndefinedRuntimeSymbol")>>

SectionChecks(s) ==
  <<Check(s.type \in {SHT_REL, SHT_RELA} /\ s.size # 0, "RuntimeRelocations")>>
    \o IF s.type \in {SHT_SYMTAB, SHT_DYNSYM} THEN validate_symbol_table(s) ELSE <<>>

-----------------------------------------------------------------------------
(* The load segments.                                                        *)

physical_end(s) == s.physical_address + s.memory_size
virtual_end(s) == s.virtual_address + s.memory_size

validate_load_segment(s) ==
  <<Check(s.memory_size = 0, "ZeroLengthLoadSegment"),
    Check(s.file_size > s.memory_size, "FileSizeExceedsMemorySize"),
    Check(s.file_offset + s.file_size > MaxAddress, "SegmentFileRangeOverflow"),
    Check(s.file_offset + s.file_size > file.length, "SegmentOutsideFile"),
    Check(physical_end(s) > MaxAddress, "SegmentMemoryRangeOverflow"),
    Check(virtual_end(s) > MaxAddress, "SegmentMemoryRangeOverflow"),
    Check(~is_canonical(s.virtual_address) \/ ~is_canonical(virtual_end(s) - 1),
          "NonCanonicalAddress"),
    Check(s.alignment > 1 /\ ~is_power_of_two(s.alignment), "InvalidAlignment"),
    Check(s.alignment > 1
            /\ s.file_offset % s.alignment # s.virtual_address % s.alignment,
          "InvalidOffsetAddressCongruence"),
    Check(is_writable(s) /\ is_executable(s), "WritableExecutableSegment")>>


Previous == {j \in 1..cursor : file.programs[j].segment_type = PT_LOAD}

OverlapChecks(s) ==
  LET physical(j) ==
        ranges_overlap(file.programs[j].physical_address, physical_end(file.programs[j]),
                       s.physical_address, physical_end(s))
      virtual(j) ==
        ranges_overlap(file.programs[j].virtual_address, virtual_end(file.programs[j]),
                       s.virtual_address, virtual_end(s))
      hits == {j \in Previous : physical(j) \/ virtual(j)}
      first == CHOOSE j \in hits : \A k \in hits : j <= k
  IN <<Check(hits # {} /\ physical(first), "OverlappingLoadSegments"),
       Check(hits # {}, "OverlappingVirtualLoadSegments")>>

ProgramChecks(s) ==
  <<Check(s.segment_type = PT_INTERP, "InterpreterSegment"),
    Check(s.segment_type = PT_DYNAMIC, "DynamicSegment"),
    Check(s.segment_type = PT_TLS, "TlsSegment")>>
    \o IF s.segment_type = PT_LOAD THEN validate_load_segment(s) \o OverlapChecks(s)
       ELSE <<>>

Lower(a, b) == IF a < b THEN a ELSE b
Upper(a, b) == IF a > b THEN a ELSE b

Widen(s) ==
  [load_count |-> span.load_count + 1,
   load_start |-> Lower(span.load_start, s.physical_address),
   load_end |-> Upper(span.load_end, physical_end(s)),
   virtual_load_start |-> Lower(span.virtual_load_start, s.virtual_address),
   virtual_load_end |-> Upper(span.virtual_load_end, virtual_end(s))]

entry == file.header.entry

HoldsEntry(s) ==
  is_executable(s) /\ entry >= s.virtual_address /\ entry < virtual_end(s)

\* LoadSegments: the load segments in the order of the program table.
load_segments == SelectSeq(file.programs, LAMBDA s : s.segment_type = PT_LOAD)

-----------------------------------------------------------------------------
(* The two contracts.                                                        *)

StartChecks ==
  IF contract = "bootstrap"
    THEN <<Check(entry # BOOTSTRAP_LINK_ADDRESS, "UnexpectedEntry"),
           Check(span.load_start # BOOTSTRAP_LINK_ADDRESS, "UnexpectedLoadStart")>>
    ELSE <<Check(entry # HIGHER_HALF_LINK_ADDRESS, "UnexpectedEntry"),
           Check(span.load_start # BOOTSTRAP_LINK_ADDRESS, "UnexpectedPhysicalStart"),
           Check(span.virtual_load_start # HIGHER_HALF_LINK_ADDRESS,
                 "UnexpectedVirtualStart")>>

Unaligned(value) == value % BOOTSTRAP_PAGE_SIZE # 0

bootstrap_segment(s) ==
  <<Check(s.physical_address # s.virtual_address, "PhysicalVirtualAddressMismatch"),
    Check(s.alignment # BOOTSTRAP_PAGE_SIZE \/ Unaligned(s.physical_address)
            \/ Unaligned(s.file_offset), "MisalignedLoadSegment")>>

higher_half_segment(s) ==
  <<Check(s.alignment # BOOTSTRAP_PAGE_SIZE \/ Unaligned(s.physical_address)
            \/ Unaligned(s.virtual_address) \/ Unaligned(s.file_offset),
          "MisalignedLoadSegment"),
    Check(s.physical_address < BOOTSTRAP_LINK_ADDRESS
            \/ physical_end(s) > BOOTSTRAP_PHYSICAL_END, "PhysicalOutsideBootstrapWindow"),
    Check(s.virtual_address < KERNEL_IMAGE_VIRTUAL_START
            \/ virtual_end(s) > KERNEL_IMAGE_VIRTUAL_END, "VirtualOutsideKernelRegion"),
    Check(s.virtual_address - s.physical_address # HIGHER_HALF_VIRTUAL_OFFSET,
          "InconsistentTranslationOffset"),
    Check(s.flags \notin {4, 5, 6}, "InvalidSegmentPermissions")>>

SegmentChecks(s) ==
  IF contract = "bootstrap" THEN bootstrap_segment(s) ELSE higher_half_segment(s)

\* has_execute, has_read_only, has_writable and has_bss.
Sorts(s) ==
  {k \in {"execute", "read_only", "writable", "bss"} :
     \/ k = "execute" /\ is_executable(s)
     \/ k = "read_only" /\ is_readable(s) /\ ~is_writable(s) /\ ~is_executable(s)
     \/ k = "writable" /\ is_writable(s) /\ ~is_executable(s)
     \/ k = "bss" /\ s.memory_size > s.file_size}

physical_entry ==
  IF contract = "bootstrap" THEN entry ELSE entry - HIGHER_HALF_VIRTUAL_OFFSET

EndChecks ==
  <<Check("execute" \notin seen, "MissingExecuteSegment"),
    Check("read_only" \notin seen, "MissingReadOnlySegment"),
    Check("writable" \notin seen, "MissingWritableSegment"),
    Check("bss" \notin seen, "MissingBss"),
    Check(physical_entry < 0, "EntryTranslationOverflow"),
    Check(contract = "higher_half"
            /\ ~\E i \in 1..Len(load_segments) :
                  /\ is_executable(load_segments[i])
                  /\ physical_entry >= load_segments[i].physical_address
                  /\ physical_entry < physical_end(load_segments[i]),
          "EntryWithoutPhysicalBacking")>>

-----------------------------------------------------------------------------
(* Actions.                                                                  *)

EmptySpan ==
  [load_count |-> 0, load_start |-> MaxAddress, load_end |-> 0,
   virtual_load_start |-> MaxAddress, virtual_load_end |-> 0]

ImageInit ==
  /\ contract \in Contracts
  /\ file \in Files
  /\ stage = "header"
  /\ cursor = 0
  /\ span = EmptySpan
  /\ seen = {}
  /\ error = "none"

Reject(name) ==
  /\ stage' = "rejected"
  /\ error' = name
  /\ UNCHANGED <<contract, file, cursor, span, seen>>

Enter(next) ==
  /\ stage' = next
  /\ cursor' = 0
  /\ UNCHANGED <<contract, file, span, error>>

\* The checks in order; the step is taken when none of them fails.
Passing(checks, step) ==
  LET failed == FirstFailing(checks)
  IN IF failed = "none" THEN step ELSE Reject(failed)

Advance == cursor' = cursor + 1 /\ UNCHANGED <<contract, file, stage, error>>

ParseTables ==
  /\ stage = "header"
  /\ Passing(validate_magic \o validate_header \o validate_program_table
               \o validate_section_table,
             Enter("sections") /\ UNCHANGED seen)

ParseSection ==
  /\ stage = "sections"
  /\ cursor < Len(file.sections)
  /\ Passing(SectionChecks(file.sections[cursor + 1]), Advance /\ UNCHANGED <<span, seen>>)

SectionsDone ==
  /\ stage = "sections"
  /\ cursor = Len(file.sections)
  /\ Enter("programs") /\ UNCHANGED seen

ParseProgram ==
  /\ stage = "programs"
  /\ cursor < Len(file.programs)
  /\ LET s == file.programs[cursor + 1]
         load == s.segment_type = PT_LOAD
     IN Passing(ProgramChecks(s),
                /\ Advance
                /\ span' = IF load THEN Widen(s) ELSE span
                /\ seen' = IF load /\ HoldsEntry(s) THEN seen \cup {"entry"} ELSE seen)

ProgramsDone ==
  /\ stage = "programs"
  /\ cursor = Len(file.programs)
  /\ Passing(<<Check(span.load_count = 0, "NoLoadSegments"),
               Check(~is_canonical(entry) \/ "entry" \notin seen,
                     "EntryOutsideExecutableSegment")>> \o StartChecks,
             Enter("segments") /\ seen' = {})

ValidateSegment ==
  /\ stage = "segments"
  /\ cursor < Len(load_segments)
  /\ LET s == load_segments[cursor + 1]
     IN Passing(SegmentChecks(s), Advance /\ seen' = seen \cup Sorts(s) /\ UNCHANGED span)

ImageAccepted ==
  /\ stage = "segments"
  /\ cursor = Len(load_segments)
  /\ Passing(EndChecks, Enter("planning") /\ UNCHANGED seen)

Validate ==
  \/ ParseTables \/ ParseSection \/ SectionsDone \/ ParseProgram \/ ProgramsDone
  \/ ValidateSegment \/ ImageAccepted
=============================================================================
