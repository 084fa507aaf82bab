------------------------------ MODULE Extensions -------------------------------
(***************************************************************************)
(* The extension area of the major-2 boot envelope and the page-table       *)
(* ownership record in it (crates/boot-protocol/src/extensions.rs):         *)
(* validate_extension_area walks the records, then                          *)
(* validate_page_table_frames checks the frame list the record announces    *)
(* against the memory map.                                                  *)
(*                                                                         *)
(* Sizes are scaled bytes.  The walk never reads an offset twice, so what   *)
(* the bytes at an offset parse to is chosen when it gets there.  `records' *)
(* remembers what was read, for the properties.                             *)
(***************************************************************************)
EXTENDS Integers, Sequences, FiniteSets

CONSTANTS
  Areas,                        \* abi_major, declared_total_size, length
  Headers,                      \* what the bytes of a header may parse to
  Ownerships,                   \* and those of an ownership payload
  FrameLists,                   \* sequences of owned frames
  MemoryMaps,                   \* sets of memory descriptors
  U64,                          \* 2^64
  ALIGNMENT,                    \* 8
  BOOT_INFO_SIZE,
  EXTENSION_HEADER_SIZE,
  PAGE_TABLE_OWNERSHIP_SIZE,
  OWNED_PAGE_TABLE_FRAME_SIZE,
  MEMORY_PAGE_SIZE,
  PAGE_TABLE_PHYSICAL_CAP

None == [none |-> TRUE]

ASSUME ExtensionsAssumption ==
  /\ {ALIGNMENT, BOOT_INFO_SIZE, EXTENSION_HEADER_SIZE, PAGE_TABLE_OWNERSHIP_SIZE,
      OWNED_PAGE_TABLE_FRAME_SIZE, MEMORY_PAGE_SIZE} \subseteq Nat \ {0}
  /\ EXTENSION_HEADER_SIZE < PAGE_TABLE_OWNERSHIP_SIZE
  /\ PAGE_TABLE_PHYSICAL_CAP \in 1..U64 - 1
  /\ Areas \subseteq [abi_major: Nat, declared_total_size: Nat, length: Nat]
  /\ Headers \subseteq [kind: Nat, version: Nat, header_size: Nat,
                        total_size: Nat, required: BOOLEAN, unknown_flags: BOOLEAN]
  /\ None \notin Ownerships
  /\ \A o \in Ownerships : o.owned_frame_count \in Nat /\ o.root_physical_frame \in Nat
  /\ FrameLists \subseteq Seq(Nat)
  /\ \A d \in UNION MemoryMaps : d.physical_start \in Nat /\ d.page_count \in Nat

VARIABLES
  area,                  \* the arguments of validate_extension_area
  walkPhase,             \* the loop at work, or how the validation ended
  offset,
  extension_count,
  page_table_ownership,  \* ownership record found, or None
  records,               \* headers walked over, with their offset and payload
  frame_list,            \* the frame list that was accepted
  memory_map             \* against this map

walkVars == <<area, walkPhase, offset, extension_count, page_table_ownership, records,
              frame_list, memory_map>>

-----------------------------------------------------------------------------
(* PageTableOwnership::validate.                                             *)

validate_frame_address(address, cap) ==
  /\ address # 0 /\ address % MEMORY_PAGE_SIZE = 0
  /\ address + MEMORY_PAGE_SIZE < U64 /\ address + MEMORY_PAGE_SIZE <= cap

ListEnd(o) ==
  o.owned_frame_list_physical_address + o.owned_frame_count * o.descriptor_stride

ValidOwnership(o) ==
  /\ o.hierarchy_version = 1 /\ o.paging_level_count = 4
  /\ o.state \in {"transitional", "final"}
  /\ o.page_size = MEMORY_PAGE_SIZE
  /\ o.physical_address_cap = PAGE_TABLE_PHYSICAL_CAP
  /\ validate_frame_address(o.root_physical_frame, o.physical_address_cap)
  /\ o.owned_frame_list_physical_address # 0
  /\ o.owned_frame_list_physical_address % ALIGNMENT = 0
  /\ o.owned_frame_count # 0
  /\ o.descriptor_stride >= OWNED_PAGE_TABLE_FRAME_SIZE
  /\ o.descriptor_stride % ALIGNMENT = 0
  /\ ListEnd(o) < U64 /\ ListEnd(o) <= o.physical_address_cap
  /\ ~o.reserved

-----------------------------------------------------------------------------
(* validate_extension_area.                                                  *)

WalkInit ==
  /\ area \in Areas
  /\ walkPhase = "start" /\ offset = 0 /\ extension_count = 0
  /\ page_table_ownership = None /\ records = <<>>
  /\ frame_list = <<>> /\ memory_map = {}

frameVars == <<frame_list, memory_map>>

\* Major 1 ends here, with an empty area or a refusal.
ChecksEnvelope ==
  LET fits == area.declared_total_size = BOOT_INFO_SIZE + area.length
      walks == area.abi_major = 2 /\ area.length % ALIGNMENT = 0
      empty == area.abi_major = 1 /\ area.length = 0
  IN /\ walkPhase = "start"
     /\ walkPhase' = IF fits /\ walks THEN "walk"
                 ELSE IF fits /\ empty THEN "summary" ELSE "refused"
     /\ UNCHANGED <<area, offset, extension_count, page_table_ownership, records,
                    frameVars>>

\* Faulty: a record may be shorter than its header.
WellFormedUnbounded(header) ==
  /\ header.header_size = EXTENSION_HEADER_SIZE
  /\ header.total_size % ALIGNMENT = 0
  /\ ~header.unknown_flags
  /\ offset + header.total_size <= area.length

\* What every record must satisfy, whatever its kind.
WellFormed(header) ==
  /\ header.header_size = EXTENSION_HEADER_SIZE
  /\ header.total_size >= header.header_size /\ header.total_size % ALIGNMENT = 0
  /\ ~header.unknown_flags
  /\ offset + header.total_size <= area.length

IsOwnership(header) == header.kind = 1 /\ header.version = 1

\* Faulty: a second ownership record replaces the first.
AcceptsDuplicate(header, payload) ==
  IF IsOwnership(header)
  THEN /\ header.total_size = PAGE_TABLE_OWNERSHIP_SIZE
       /\ ValidOwnership(payload)
  ELSE ~header.required

\* An optional record of another kind or version is skipped, a required one
\* refused; the ownership record has one size and comes once.
Accepts(header, payload) ==
  IF IsOwnership(header)
  THEN /\ header.total_size = PAGE_TABLE_OWNERSHIP_SIZE
       /\ page_table_ownership = None
       /\ ValidOwnership(payload)
  ELSE ~header.required

TruncatedHeader ==
  /\ walkPhase = "walk" /\ offset < area.length
  /\ offset + EXTENSION_HEADER_SIZE > area.length
  /\ walkPhase' = "refused"
  /\ UNCHANGED <<area, offset, extension_count, page_table_ownership, records,
                 frameVars>>

ReadsRecord(header, payload) ==
  /\ walkPhase = "walk" /\ offset + EXTENSION_HEADER_SIZE <= area.length
  /\ IF WellFormed(header) /\ Accepts(header, payload)
     THEN /\ offset' = offset + header.total_size
          /\ extension_count' = extension_count + 1
          /\ page_table_ownership' =
               IF IsOwnership(header) THEN payload ELSE page_table_ownership
          /\ records' = Append(records, [at |-> offset, header |-> header,
               payload |-> IF IsOwnership(header) THEN payload ELSE None])
          /\ UNCHANGED walkPhase
     ELSE /\ walkPhase' = "refused"
          /\ UNCHANGED <<offset, extension_count, page_table_ownership, records>>
  /\ UNCHANGED <<area, frameVars>>

EndsWalk ==
  /\ walkPhase = "walk" /\ offset >= area.length
  /\ walkPhase' = "summary"
  /\ UNCHANGED <<area, offset, extension_count, page_table_ownership, records,
                 frameVars>>

-----------------------------------------------------------------------------
(* validate_page_table_frames.                                               *)

\* MemoryDescriptor::validate.
ValidDescriptor(d) ==
  /\ d.page_count # 0 /\ d.physical_start % MEMORY_PAGE_SIZE = 0
  /\ d.physical_start + d.page_count * MEMORY_PAGE_SIZE < U64

ReservedFrame(frame, map) ==
  \E d \in map :
    /\ d.kind = "page_table" /\ ValidDescriptor(d)
    /\ d.physical_start <= frame
    /\ frame < d.physical_start + d.page_count * MEMORY_PAGE_SIZE

AcceptsFrames(list, map) ==
  LET o == page_table_ownership
  IN /\ Len(list) = o.owned_frame_count
     /\ \A i \in 1..Len(list) :
          /\ validate_frame_address(list[i], o.physical_address_cap)
          /\ \A j \in 1..i - 1 : list[j] # list[i]
          /\ ReservedFrame(list[i], map)
     /\ Cardinality({i \in 1..Len(list) : list[i] = o.root_physical_frame}) = 1

ValidatesFrames ==
  /\ walkPhase = "summary" /\ page_table_ownership # None
  /\ \E list \in FrameLists, map \in MemoryMaps :
       IF AcceptsFrames(list, map)
       THEN walkPhase' = "owned" /\ frame_list' = list /\ memory_map' = map
       ELSE walkPhase' = "refused" /\ UNCHANGED frameVars
  /\ UNCHANGED <<area, offset, extension_count, page_table_ownership, records>>

WalkRest ==
  /\ \/ walkPhase \in {"owned", "refused"}
     \/ walkPhase = "summary" /\ page_table_ownership = None
  /\ UNCHANGED walkVars

WalkNext ==
  \/ ChecksEnvelope
  \/ TruncatedHeader
  \/ \E header \in Headers :
       \E payload \in (IF IsOwnership(header) THEN Ownerships ELSE {None}) :
         ReadsRecord(header, payload)
  \/ EndsWalk
  \/ ValidatesFrames
  \/ WalkRest

WalkSpec == WalkInit /\ [][WalkNext]_walkVars

-----------------------------------------------------------------------------
(* Properties.                                                               *)

\* Every turn of the walk in validate_extension_area moves forward and stays
\* in the area, whatever sizes the records claim, so the loop ends.
WalkAdvances ==
  [][walkPhase = "walk" /\ walkPhase' = "walk" =>
       offset < offset' /\ offset' <= area.length]_walkVars

\* What validate_extension_area reports is true of the whole area: the records
\* cover it without gap or overlap, extension_count counts them, the ownership
\* reported is the one the area holds, and no record that a loader marked
\* required was skipped.
SummaryDescribesTheArea ==
  walkPhase \in {"summary", "owned"} =>
    LET End(i) == IF i = 0 THEN 0 ELSE records[i].at + records[i].header.total_size
        holders == {i \in 1..Len(records) : IsOwnership(records[i].header)}
    IN /\ End(Len(records)) = area.length
       /\ \A i \in 1..Len(records) : records[i].at = End(i - 1)
       /\ extension_count = Len(records)
       /\ IF holders = {} THEN page_table_ownership = None
          ELSE \E i \in holders :
                 holders = {i} /\ page_table_ownership = records[i].payload
       /\ \A i \in 1..Len(records) \ holders : ~records[i].header.required

\* A frame list that validate_page_table_frames accepts names the root, names
\* every frame once, and every byte of every frame lies below the cap in memory
\* the map labels as page tables.
AcceptedFramesAreOwned ==
  walkPhase = "owned" =>
    LET listed == {frame_list[i] : i \in 1..Len(frame_list)}
        Labelled(d) == {d.physical_start + n : n \in 0..d.page_count * MEMORY_PAGE_SIZE - 1}
        tables == UNION {Labelled(d) : d \in
                       {m \in memory_map : m.kind = "page_table" /\ ValidDescriptor(m)}}
    IN /\ Cardinality(listed) = page_table_ownership.owned_frame_count
       /\ page_table_ownership.root_physical_frame \in listed
       /\ \A f \in listed, n \in 0..MEMORY_PAGE_SIZE - 1 :
            f + n \in tables /\ f + n < PAGE_TABLE_PHYSICAL_CAP

\* Whatever passes the two validations is true: the summary of the area, and
\* the ownership of the listed frames.
AcceptedClaimsAreTrue == SummaryDescribesTheArea /\ AcceptedFramesAreOwned
=============================================================================
