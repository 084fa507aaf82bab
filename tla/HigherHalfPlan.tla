---------------------------- MODULE HigherHalfPlan ----------------------------
(***************************************************************************)
(* From the file to the plans made of it: a file KernelImage accepts goes   *)
(* to LoadPlan::build (KernelLoad), and a higher-half one on to the mapping *)
(* of its segments (crates/bootloader/src/higher_half_plan.rs) with the     *)
(* layout policy of PagePlan.                                               *)
(*                                                                         *)
(* stage and error are shared: LoadPlan::build runs while stage is          *)
(* "planning", ends in "refused" or hands the plan on as "zeroing".         *)
(***************************************************************************)
EXTENDS KernelImage

CONSTANTS
  SourceStarts,            \* where the firmware may have put the file
  MAX_LOAD_ITEMS,
  SUPPORTED_PHYSICAL_PAGES \* SUPPORTED_PHYSICAL_END in pages

ASSUME HigherHalfPlanAssumption ==
  /\ \A p \in SourceStarts : p \in Addresses /\ p % BOOTSTRAP_PAGE_SIZE = 0
  /\ MAX_LOAD_ITEMS \in Nat
  /\ SUPPORTED_PHYSICAL_PAGES * BOOTSTRAP_PAGE_SIZE >= BOOTSTRAP_PHYSICAL_END

VARIABLES
  source,    \* SourceAllocation
  items,     \* the LoadPlan's items
  total_page_bytes, \* the bytes of their pages
  mappings   \* the MappingPlan's entries

planVars == <<items, total_page_bytes>>
vars == <<contract, file, stage, cursor, span, seen, error, source, planVars, mappings>>

-----------------------------------------------------------------------------
(* The load plan of the image.                                               *)

pages_for_bytes(n) == (n + BOOTSTRAP_PAGE_SIZE - 1) \div BOOTSTRAP_PAGE_SIZE

\* Faulty: a higher-half segment is to be copied to its virtual address.
SegmentSpecVirtual(s) ==
  [file_offset |-> s.file_offset, file_size |-> s.file_size,
   memory_size |-> s.memory_size, target |-> s.virtual_address, flags |-> s.flags]

SegmentSpec(s) ==
  [file_offset |-> s.file_offset, file_size |-> s.file_size,
   memory_size |-> s.memory_size, target |-> s.physical_address, flags |-> s.flags]

ImageToLoad ==
  [entry |-> physical_entry, source |-> source,
   segments |-> [i \in 1..Len(load_segments) |-> SegmentSpec(load_segments[i])]]

Load == INSTANCE KernelLoad WITH
  Images <- {}, PageSize <- BOOTSTRAP_PAGE_SIZE,
  BOOTSTRAP_WINDOW_START <- BOOTSTRAP_LINK_ADDRESS,
  BOOTSTRAP_WINDOW_END <- BOOTSTRAP_PHYSICAL_END,
  BOOTSTRAP_WINDOW_BYTES <- BOOTSTRAP_PHYSICAL_END - BOOTSTRAP_LINK_ADDRESS,
  MaxFaults <- 0, image <- ImageToLoad, phase <- stage, memory <- <<>>, loaded <- <<>>,
  faults <- 0, reason <- error

-----------------------------------------------------------------------------
(* The mappings of a higher-half image, in pages.                            *)

HighPages == LOW_CANONICAL_END \div BOOTSTRAP_PAGE_SIZE + 1

\* The page of a virtual address; the hole between the halves has no numbers.
VirtualPage(a) ==
  IF a <= LOW_CANONICAL_END THEN a \div BOOTSTRAP_PAGE_SIZE
  ELSE HighPages + (a - HIGH_CANONICAL_START) \div BOOTSTRAP_PAGE_SIZE

\* Only kernel segments are mapped here, so only their region is asked for.
Layout == INSTANCE PagePlan WITH
  Callers <- {}, COUNT <- 2, HIGH_CANONICAL_START <- HighPages,
  SUPPORTED_PHYSICAL_END <- SUPPORTED_PHYSICAL_PAGES,
  BOOTSTRAP_PHYSICAL_START <- BOOTSTRAP_LINK_ADDRESS \div BOOTSTRAP_PAGE_SIZE,
  BOOTSTRAP_PHYSICAL_END <- BOOTSTRAP_PHYSICAL_END \div BOOTSTRAP_PAGE_SIZE,
  TRANSITION_IDENTITY_END <- 0, BOOTSTRAP_STACK_PAGES <- 2,
  Region <- [KernelImage |-> [start |-> VirtualPage(KERNEL_IMAGE_VIRTUAL_START),
                              end |-> VirtualPage(KERNEL_IMAGE_VIRTUAL_END)]],
  CAPACITY <- MAX_LOAD_ITEMS, TABLES <- 0, ENTRIES <- 0, REMOVALS <- 0,
  caller <- [mode |-> "Final", requests |-> <<>>], plan <- <<>>

mapping_policy(flags) ==
  CASE flags = 5 -> [permissions |-> Layout!KERNEL_RX, kind |-> "KernelText"]
    [] flags = 4 -> [permissions |-> Layout!KERNEL_R, kind |-> "KernelRodata"]
    [] flags = 6 -> [permissions |-> Layout!KERNEL_RW, kind |-> "KernelData"]
    [] OTHER -> [permissions |-> {}, kind |-> "none"]

SegmentMapping(s) ==
  [virtual |-> [start |-> VirtualPage(s.virtual_address),
                end |-> VirtualPage(Load!round_up(virtual_end(s)))],
   physical |-> [start |-> s.physical_address \div BOOTSTRAP_PAGE_SIZE,
                 end |-> Load!round_up(physical_end(s)) \div BOOTSTRAP_PAGE_SIZE],
   mapped |-> TRUE, permissions |-> mapping_policy(s.flags).permissions,
   cache |-> "WriteBack", kind |-> mapping_policy(s.flags).kind]

RoundingOverflows(end) == end + (BOOTSTRAP_PAGE_SIZE - 1) > MaxAddress

MappingChecks(s) ==
  <<Check(physical_end(s) > MaxAddress, "TranslationOverflow"),
    Check(RoundingOverflows(physical_end(s)), "PageRoundingOverflow"),
    Check(virtual_end(s) > MaxAddress, "TranslationOverflow"),
    Check(RoundingOverflows(virtual_end(s)), "PageRoundingOverflow"),
    Check(~Layout!PhysicalRangeOk(SegmentMapping(s).physical)
            \/ ~Layout!VirtualRangeOk(SegmentMapping(s).virtual), "Layout"),
    Check(s.flags \notin {4, 5, 6}, "InvalidPermissions"),
    Check(~Layout!insert_mapping_ok(SegmentMapping(s))
            \/ ~Layout!insert_ok(SegmentMapping(s)), "Layout")>>

EntryChecks ==
  LET page == VirtualPage(entry)
  IN <<Check(Layout!translate(page) = {}, "Layout"),
       Check(Layout!translate(page) # {physical_entry \div BOOTSTRAP_PAGE_SIZE},
             "EntryTranslationMismatch"),
       Check(~\E i \in 1..Len(mappings) :
                /\ Layout!contains(mappings[i].virtual, page)
                /\ "EXECUTE" \in mappings[i].permissions, "EntryWithoutExecutableMapping")>>

-----------------------------------------------------------------------------
(* Actions.                                                                  *)

Init ==
  /\ ImageInit
  /\ source \in [page_start: SourceStarts, page_count: {pages_for_bytes(file.length)},
                 file_length: {file.length}]
  /\ items = <<>>
  /\ total_page_bytes = 0
  /\ mappings = <<>>

ValidateFile == Validate /\ UNCHANGED <<source, planVars, mappings>>

PlanLoad ==
  /\ UNCHANGED <<contract, file, span, seen, source, mappings>>
  /\ Load!build \/ Load!build_end

Refuse(name) ==
  /\ stage' = "unmapped"
  /\ error' = name
  /\ UNCHANGED <<contract, file, cursor, span, seen, source, planVars, mappings>>

MapSegment ==
  /\ stage = "zeroing" /\ contract = "higher_half"
  /\ cursor < Len(load_segments)
  /\ LET s == load_segments[cursor + 1]
         failed == FirstFailing(MappingChecks(s))
     IN IF failed # "none" THEN Refuse(failed)
        ELSE /\ mappings' = Layout!inserted(SegmentMapping(s))
             /\ cursor' = cursor + 1
             /\ UNCHANGED <<contract, file, stage, span, seen, error, source, planVars>>

MapEntry ==
  /\ stage = "zeroing" /\ contract = "higher_half"
  /\ cursor = Len(load_segments)
  /\ LET failed == FirstFailing(EntryChecks)
     IN IF failed # "none" THEN Refuse(failed)
        ELSE /\ stage' = "mapped"
             /\ UNCHANGED <<contract, file, cursor, span, seen, error, source, planVars,
                            mappings>>

Ended ==
  /\ \/ stage \in {"rejected", "refused", "unmapped", "mapped"}
     \/ stage = "zeroing" /\ contract = "bootstrap"
  /\ UNCHANGED vars

Next == ValidateFile \/ PlanLoad \/ MapSegment \/ MapEntry \/ Ended

Spec == Init /\ [][Next]_vars

-----------------------------------------------------------------------------
(* Properties.                                                               *)

Physical(s) == s.physical_address..(physical_end(s) - 1)
Virtual(s) == s.virtual_address..(virtual_end(s) - 1)
Aligned(S) == \A a \in S : a % BOOTSTRAP_PAGE_SIZE = 0
Kernel == {load_segments[i] : i \in 1..Len(load_segments)}

\* What parse asks of any kernel file, said of the file as a whole.
WellFormed ==
  LET h == file.header
      fits(offset, size) == offset + size <= file.length
      loads == {i \in 1..Len(file.programs) : file.programs[i].segment_type = PT_LOAD}
      program(i) == file.programs[i]
  IN /\ file.magic /\ file.length >= ELF_HEADER_SIZE
     /\ <<h.class, h.endianness, h.ident_version, h.os_abi, h.object_type, h.machine,
          h.elf_version, h.header_size, h.program_header_size>>
          = <<2, 1, 1, 0, 2, 62, 1, ELF_HEADER_SIZE, PROGRAM_HEADER_SIZE>>
     /\ Len(file.programs) <= MAX_PROGRAM_HEADERS
     /\ fits(h.program_header_offset, PROGRAM_HEADER_SIZE * Len(file.programs))
     /\ file.sections # <<>> =>
          /\ h.section_header_size = SECTION_HEADER_SIZE
          /\ fits(h.section_header_offset, SECTION_HEADER_SIZE * Len(file.sections))
     /\ \A i \in 1..Len(file.sections) :
          LET s == file.sections[i]
          IN /\ s.type \in {SHT_REL, SHT_RELA} => s.size = 0
             /\ s.type \in {SHT_SYMTAB, SHT_DYNSYM} =>
                  /\ s.entry_size = ELF64_SYMBOL_SIZE /\ s.size % s.entry_size = 0
                  /\ fits(s.file_offset, s.size)
                  /\ \A k \in 2..Len(s.symbols) : s.symbols[k] # 0
     /\ \A i \in 1..Len(file.programs) :
          program(i).segment_type \notin {PT_INTERP, PT_DYNAMIC, PT_TLS}
     /\ \A i \in loads :
          /\ Physical(program(i)) # {}
          /\ program(i).file_size <= program(i).memory_size
          /\ fits(program(i).file_offset, program(i).file_size)
          /\ physical_end(program(i)) <= MaxAddress /\ virtual_end(program(i)) <= MaxAddress
          /\ is_canonical(program(i).virtual_address)
          /\ is_canonical(virtual_end(program(i)) - 1)
          /\ program(i).flags \notin {3, 7}
          /\ program(i).alignment > 1 =>
               /\ program(i).alignment \in {2^k : k \in 1..6}
               /\ (program(i).file_offset - program(i).virtual_address)
                    % program(i).alignment = 0
          /\ \A j \in loads \ {i} :
               /\ Physical(program(i)) \cap Physical(program(j)) = {}
               /\ Virtual(program(i)) \cap Virtual(program(j)) = {}
     /\ \E i \in loads : is_executable(program(i)) /\ entry \in Virtual(program(i))

\* What the contract asks on top of that.
Contractual ==
  LET offset == IF contract = "bootstrap" THEN 0 ELSE HIGHER_HALF_VIRTUAL_OFFSET
  IN /\ entry = BOOTSTRAP_LINK_ADDRESS + offset
     /\ \A s \in Kernel :
          /\ s.virtual_address = s.physical_address + offset
          /\ s.physical_address >= BOOTSTRAP_LINK_ADDRESS
          /\ s.alignment = BOOTSTRAP_PAGE_SIZE
          /\ Aligned({s.physical_address, s.file_offset})
          /\ contract = "higher_half" =>
               physical_end(s) <= BOOTSTRAP_PHYSICAL_END /\ s.flags \in {4, 5, 6}
     /\ \E s \in Kernel : s.flags = 4
     /\ \E s \in Kernel : s.flags \in {2, 6}
     /\ \E s \in Kernel : s.memory_size > s.file_size


\* What kernel-image has accepted, the planners turn away for nothing but what
\* only they can know: the number of segments, the place of the file, and for a
\* bootstrap image the upper end of the window.  A higher-half image with a
\* load plan always gets its mappings, and they send every page of every
\* segment to the page the segment is copied to, with its permissions.
LaterStagesAgree ==
  /\ stage = "refused" =>
       \/ error = "TooManySegments" /\ Len(load_segments) > MAX_LOAD_ITEMS
       \/ error = "SourceOverlap"
       \/ contract = "bootstrap" /\ error \in {"AboveWindow", "PageRoundingOverflow"}
  /\ stage # "unmapped"
  /\ stage = "mapped" =>
       /\ Layout!validate_final
       /\ \A i \in 1..Len(items) :
            \A p \in 0..(items[i].page_count - 1) :
              LET address == items[i].page_start + p * BOOTSTRAP_PAGE_SIZE
                  page == VirtualPage(address + HIGHER_HALF_VIRTUAL_OFFSET)
              IN /\ Layout!translate(page) = {address \div BOOTSTRAP_PAGE_SIZE}
                 /\ \A m \in 1..Len(mappings) :
                      Layout!contains(mappings[m].virtual, page) =>
                        /\ ("EXECUTE" \in mappings[m].permissions) = Load!is_executable(items[i])
                        /\ ("WRITE" \in mappings[m].permissions) = (items[i].flags = 6)
=============================================================================
