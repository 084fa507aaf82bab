------------------------------ MODULE MemoryMap ------------------------------
(***************************************************************************)
(* Conversion of the firmware's memory map into the boot-information map   *)
(* (crates/bootloader/src/boot_info.rs, driven by boot_info_loader.rs).    *)
(*                                                                         *)
(* The reservations are pushed, sorted and checked; the raw descriptors are *)
(* translated, sorted, checked for overlap and merged in place; then every  *)
(* descriptor is cut along the reservations.  One step is one iteration of  *)
(* the outer loop of the function at work.  Before ExitBootServices the     *)
(* reservations are finished first, after it the raw map is normalised      *)
(* first.                                                                   *)
(*                                                                         *)
(* Addresses are multiples of a scaled byte; PageSize of them make a page   *)
(* and MaxAddress stands for u64::MAX.                                      *)
(***************************************************************************)
EXTENDS Naturals, Sequences

CONSTANTS
  RawMaps,                        \* raw maps the firmware may report
  ReservationLists,               \* reservations the loader may ask for
  PageSize,                       \* MEMORY_PAGE_SIZE
  MaxAddress,                     \* u64::MAX
  CONVERTED_DESCRIPTOR_CAPACITY,
  RESERVATION_CAPACITY

BootKinds == {"kernel_image", "boot_info", "boot_memory_map", "framebuffer",
              "bootstrap_stack", "page_table"}

UefiTypes ==
  {"reserved", "loader_code", "loader_data", "boot_services_code",
   "boot_services_data", "runtime_services_code", "runtime_services_data",
   "conventional", "unusable", "acpi_reclaim", "acpi_nvs", "mmio",
   "mmio_port_space", "pal_code", "persistent_memory", "unaccepted", "unknown"}

RawDescriptors ==
  [type: UefiTypes, start: 0..MaxAddress, pages: Nat, attributes: Nat]

Reservations ==
  [kind: BootKinds, source: STRING, start: 0..MaxAddress, pages: Nat]

ASSUME MemoryMapAssumption ==
  /\ PageSize \in Nat \ {0}
  /\ MaxAddress \in Nat
  /\ (MaxAddress + 1) % PageSize = 0
  /\ CONVERTED_DESCRIPTOR_CAPACITY \in Nat
  /\ RESERVATION_CAPACITY \in Nat
  /\ RawMaps \subseteq Seq(RawDescriptors)
  /\ ReservationLists \subseteq Seq(Reservations)

map_uefi_memory_kind(type) ==
  CASE type = "conventional" -> "usable"
    [] type \in {"loader_code", "loader_data"} -> "loader"
    [] type \in {"runtime_services_code", "runtime_services_data"} -> "runtime"
    [] type = "acpi_reclaim" -> "acpi_reclaim"
    [] type \in {"unusable", "unaccepted"} -> "unusable"
    [] type = "persistent_memory" -> "persistent"
    [] OTHER -> "reserved"

map_uefi_memory_kind_post_exit(type) ==
  IF type \in {"boot_services_code", "boot_services_data"}
  THEN "usable"
  ELSE map_uefi_memory_kind(type)

VARIABLES
  post_exit,  \* converting the final map, after ExitBootServices
  raw,        \* raw descriptors in the raw-map buffer
  wanted,     \* reservations to push
  phase,      \* function at work, or "done" or "failed"
  error,      \* MapBuildError that ended the conversion
  items,      \* ReservationList.items[..len]
  scratch,    \* descriptors in the conversion buffer
  output,     \* descriptors in the converted buffer
  covered,    \* pages of each reservation found in the map
  index,      \* outer loop counter
  inner,      \* reservation counter of apply_reservations
  cursor,     \* next address of the descriptor being cut
  write       \* descriptors kept by merge_base_descriptors

inputs == <<post_exit, raw, wanted>>
loops == <<index, inner, cursor, write>>
vars == <<inputs, phase, error, items, scratch, output, covered, loops>>

Start(first) ==
  /\ post_exit \in BOOLEAN
  /\ raw \in RawMaps
  /\ phase = first
  /\ error = "none"
  /\ items = <<>> /\ scratch = <<>> /\ output = <<>> /\ covered = <<>>
  /\ index = 1 /\ inner = 1 /\ cursor = 0 /\ write = 1

FirstPhase(after) == IF after THEN "convert" ELSE "push"

Init ==
  /\ wanted \in ReservationLists
  /\ \E after \in BOOLEAN : post_exit = after /\ Start(FirstPhase(after))

Fail(reason) ==
  /\ phase' = "failed"
  /\ error' = reason
  /\ UNCHANGED <<inputs, items, scratch, output, covered, loops>>

RangeEnd(d) == d.start + d.pages * PageSize

range_end_overflows(d) == RangeEnd(d) > MaxAddress

\* What validate_range and MemoryDescriptor::validate answer.
validate_range(d) ==
  IF d.pages = 0 THEN "ZeroPages"
  ELSE IF d.start % PageSize # 0 THEN "Unaligned"
  ELSE IF range_end_overflows(d) THEN "RangeOverflow"
  ELSE "none"

\* validate_non_overlapping, and the same test in ReservationList::finish.
Overlapping(list) ==
  \E k \in 1..(Len(list) - 1) : RangeEnd(list[k]) > list[k + 1].start

\* Where one round of insertion sort puts element k: behind the last earlier
\* element that does not start later.
Position(list, k) ==
  CHOOSE p \in 1..k :
    /\ \A q \in p..(k - 1) : list[q].start > list[k].start
    /\ p > 1 => list[p - 1].start <= list[k].start

\* Faulty: an element moves one place at most.
InsertedOnce(list, k) ==
  IF k > 1 /\ list[k - 1].start > list[k].start
  THEN [list EXCEPT ![k - 1] = list[k], ![k] = list[k - 1]]
  ELSE list

Inserted(list, k) ==
  LET p == Position(list, k)
  IN  [q \in 1..Len(list) |->
         IF q < p \/ q > k THEN list[q]
         ELSE IF q = p THEN list[k]
         ELSE list[q - 1]]

------------------------------------------------------------------------------
(* ReservationList                                                         *)

push ==
  LET r == wanted[Len(items) + 1] IN
  /\ phase = "push"
  /\ Len(items) < Len(wanted)
  /\ IF validate_range(r) # "none" THEN Fail(validate_range(r))
     ELSE IF Len(items) = RESERVATION_CAPACITY THEN Fail("ReservationCapacity")
     ELSE /\ items' = Append(items, r)
          /\ UNCHANGED <<inputs, phase, error, scratch, output, covered, loops>>

FinishBegin ==
  /\ phase = "push"
  /\ Len(items) = Len(wanted)
  /\ phase' = "finish"
  /\ index' = 2
  /\ UNCHANGED <<inputs, error, items, scratch, output, covered, inner, cursor, write>>

FinishSort ==
  /\ phase = "finish"
  /\ index <= Len(items)
  /\ items' = Inserted(items, index)
  /\ index' = index + 1
  /\ UNCHANGED <<inputs, phase, error, scratch, output, covered, inner, cursor, write>>

finish ==
  /\ phase = "finish"
  /\ index > Len(items)
  /\ IF Overlapping(items) THEN Fail("ReservationOverlap")
     ELSE /\ phase' = IF post_exit THEN "apply" ELSE "convert"
          /\ UNCHANGED <<inputs, error, items, scratch, output, covered, loops>>
------------------------------------------------------------------------------
(* normalize_mapped_memory_map                                             *)

Converted(d) ==
  [kind |-> IF post_exit THEN map_uefi_memory_kind_post_exit(d.type)
            ELSE map_uefi_memory_kind(d.type),
   start |-> d.start, pages |-> d.pages, attributes |-> d.attributes]

\* The translation loop of the caller and the range checks of the callee.
Convert ==
  /\ phase = "convert"
  /\ LET bad == {k \in 1..Len(raw) : validate_range(raw[k]) # "none"} IN
     IF Len(raw) = 0 \/ Len(raw) > CONVERTED_DESCRIPTOR_CAPACITY
     THEN Fail("Convert")
     ELSE IF bad # {}
     THEN LET k == CHOOSE k \in bad : \A q \in bad : k <= q
          IN  Fail(validate_range(raw[k]))
     ELSE /\ scratch' = [k \in 1..Len(raw) |-> Converted(raw[k])]
          /\ phase' = "sort"
          /\ index' = 2
          /\ UNCHANGED <<inputs, error, items, output, covered, inner, cursor, write>>

insertion_sort ==
  /\ phase = "sort"
  /\ index <= Len(scratch)
  /\ scratch' = Inserted(scratch, index)
  /\ index' = index + 1
  /\ UNCHANGED <<inputs, phase, error, items, output, covered, inner, cursor, write>>

validate_non_overlapping ==
  /\ phase = "sort"
  /\ index > Len(scratch)
  /\ IF Overlapping(scratch) THEN Fail("DescriptorOverlap")
     ELSE /\ phase' = "merge"
          /\ index' = 2
          /\ write' = 1
          /\ UNCHANGED <<inputs, error, items, scratch, output, covered, inner, cursor>>

\* Faulty: descriptors that do not touch are joined.
MergeableAcrossGaps(left, right) ==
  /\ left.kind = right.kind
  /\ left.attributes = right.attributes

Mergeable(left, right) ==
  /\ RangeEnd(left) = right.start
  /\ left.kind = right.kind
  /\ left.attributes = right.attributes

MergeInto(left, right) == [left EXCEPT !.pages = @ + right.pages]

merge_base_descriptors ==
  /\ phase = "merge"
  /\ index <= Len(scratch)
  /\ IF Mergeable(scratch[write], scratch[index])
     THEN /\ scratch' = [scratch EXCEPT ![write] = MergeInto(@, scratch[index])]
          /\ write' = write
     ELSE /\ scratch' = [scratch EXCEPT ![write + 1] = scratch[index]]
          /\ write' = write + 1
  /\ index' = index + 1
  /\ UNCHANGED <<inputs, phase, error, items, output, covered, inner, cursor>>

NormalizeEnd ==
  /\ phase = "merge"
  /\ index > Len(scratch)
  /\ scratch' = SubSeq(scratch, 1, write)
  /\ phase' = IF post_exit THEN "push" ELSE "apply"
  /\ UNCHANGED <<inputs, error, items, output, covered, loops>>
------------------------------------------------------------------------------
(* apply_reservations                                                      *)

ApplyBegin ==
  /\ phase = "apply"
  /\ IF Overlapping(scratch) THEN Fail("DescriptorOverlap")
     ELSE IF \E k \in 1..Len(scratch) : validate_range(scratch[k]) # "none"
     THEN Fail("RangeOverflow")
     ELSE /\ phase' = "cut"
          /\ covered' = [k \in 1..Len(items) |-> 0]
          /\ index' = 1
          /\ inner' = 1
          /\ cursor' = scratch[1].start
          /\ UNCHANGED <<inputs, error, items, scratch, output, write>>

Maximum(a, b) == IF a > b THEN a ELSE b

Minimum(a, b) == IF a < b THEN a ELSE b

Piece(kind, from, to, attributes) ==
  [kind |-> kind, start |-> from, pages |-> (to - from) \div PageSize,
   attributes |-> attributes]

\* Faulty: reservations are joined too.
append_descriptor_merging(list, d, allow_merge) ==
  IF d.pages = 0 THEN list
  ELSE IF list # <<>> /\ Mergeable(list[Len(list)], d)
  THEN [list EXCEPT ![Len(list)] = MergeInto(@, d)]
  ELSE Append(list, d)

append_descriptor(list, d, allow_merge) ==
  IF d.pages = 0 THEN list
  ELSE IF allow_merge /\ list # <<>> /\ Mergeable(list[Len(list)], d)
  THEN [list EXCEPT ![Len(list)] = MergeInto(@, d)]
  ELSE Append(list, d)

\* The descriptors in front of and inside one overlap.
ApplyReservation ==
  LET d == scratch[index]
      r == items[inner]
      from == Maximum(cursor, r.start)
      to == Minimum(RangeEnd(d), RangeEnd(r))
      list == append_descriptor(
                append_descriptor(output, Piece(d.kind, cursor, from, d.attributes), TRUE),
                Piece(r.kind, from, to, 0), FALSE)
  IN  /\ phase = "cut"
      /\ index <= Len(scratch)
      /\ inner <= Len(items)
      /\ IF from < to
         THEN IF Len(list) > CONVERTED_DESCRIPTOR_CAPACITY
              THEN Fail("OutputCapacity")
              ELSE /\ output' = list
                   /\ covered' = [covered EXCEPT ![inner] = @ + (to - from) \div PageSize]
                   /\ cursor' = to
                   /\ inner' = inner + 1
                   /\ UNCHANGED <<inputs, phase, error, items, scratch, index, write>>
         ELSE /\ inner' = inner + 1
              /\ UNCHANGED <<inputs, phase, error, items, scratch, output, covered,
                             index, cursor, write>>

\* What is left of a descriptor behind its last reservation.
ApplyRest ==
  LET d == scratch[index]
      list == append_descriptor(output, Piece(d.kind, cursor, RangeEnd(d), d.attributes), TRUE)
  IN  /\ phase = "cut"
      /\ index <= Len(scratch)
      /\ inner > Len(items)
      /\ IF Len(list) > CONVERTED_DESCRIPTOR_CAPACITY THEN Fail("OutputCapacity")
         ELSE /\ output' = list
              /\ index' = index + 1
              /\ inner' = 1
              /\ cursor' = IF index < Len(scratch) THEN scratch[index + 1].start ELSE cursor
              /\ UNCHANGED <<inputs, phase, error, items, scratch, covered, write>>

\* Faulty: a partly covered reservation passes.
OutsideEntirely(k) ==
  /\ items[k].source # "Framebuffer"
  /\ covered[k] = 0

Outside(k) ==
  /\ items[k].source # "Framebuffer"
  /\ covered[k] # items[k].pages

ApplyEnd ==
  /\ phase = "cut"
  /\ index > Len(scratch)
  /\ IF \E k \in 1..Len(items) : Outside(k) THEN Fail("ReservationOutsideMap")
     ELSE IF Overlapping(output) THEN Fail("DescriptorOverlap")
     ELSE /\ phase' = "done"
          /\ UNCHANGED <<inputs, error, items, scratch, output, covered, loops>>

Ended ==
  /\ phase \in {"done", "failed"}
  /\ UNCHANGED vars

Reserve == push \/ FinishBegin \/ FinishSort \/ finish

Normalize ==
  \/ Convert \/ insertion_sort \/ validate_non_overlapping
  \/ merge_base_descriptors \/ NormalizeEnd

Apply == ApplyBegin \/ ApplyReservation \/ ApplyRest \/ ApplyEnd

Next == Reserve \/ Normalize \/ Apply \/ Ended

Spec == Init /\ [][Next]_vars
------------------------------------------------------------------------------
(* Properties                                                              *)

Addresses == {a \in 0..MaxAddress : a % PageSize = 0}

Holds(d, a) == d.start <= a /\ a < RangeEnd(d)

InMap(a) == \E k \in 1..Len(raw) : Holds(raw[k], a)

IsReserved(a) == \E k \in 1..Len(wanted) : Holds(wanted[k], a)

\* What the converted map has to say of the page at address a.
Reference(a) ==
  IF IsReserved(a)
  THEN LET k == CHOOSE k \in 1..Len(wanted) : Holds(wanted[k], a)
       IN  <<wanted[k].kind, 0>>
  ELSE LET k == CHOOSE k \in 1..Len(raw) : Holds(raw[k], a)
       IN  <<Converted(raw[k]).kind, raw[k].attributes>>

\* Sorting, merging and cutting lose, invent or relabel no page: a page of the
\* raw map is in exactly one converted descriptor, with the kind and attributes
\* of its reservation or else of its raw descriptor, and no other page is in
\* the converted map (normalize_mapped_memory_map, apply_reservations).
PagesKeepTheirKind ==
  phase = "done" =>
    \A a \in Addresses :
      LET hits == {k \in 1..Len(output) : Holds(output[k], a)} IN
      IF InMap(a)
      THEN \E k \in hits :
             /\ hits = {k}
             /\ <<output[k].kind, output[k].attributes>> = Reference(a)
      ELSE hits = {}

SharedPage(list) ==
  \E a \in Addresses : \E k, m \in 1..Len(list) :
    k # m /\ Holds(list[k], a) /\ Holds(list[m], a)

\* A map is handed on only if every page of every reservation but the
\* framebuffer is in the firmware's map, and no page is reserved twice: the
\* page counts that apply_reservations adds up over several descriptors say so.
\* Reservations and converted descriptors then also fit their fixed arrays.
ReservationsAreCovered ==
  phase = "done" =>
    /\ Len(wanted) <= RESERVATION_CAPACITY
    /\ Len(output) <= CONVERTED_DESCRIPTOR_CAPACITY
    /\ ~SharedPage(wanted)
    /\ \A k \in 1..Len(wanted) : \A a \in Addresses :
         wanted[k].source # "Framebuffer" /\ Holds(wanted[k], a) => InMap(a)

Malformed(list, why) == \E k \in 1..Len(list) : validate_range(list[k]) = why

\* The conversion refuses an input only for a fault the input has: an overlap
\* error means two raw descriptors (or reservations) share a page, whatever
\* order they came in, and the converted buffer is too small only if two more
\* descriptors per reservation would not have fitted.
RefusedForAReason ==
  CASE error \in {"ZeroPages", "Unaligned", "RangeOverflow"} ->
         Malformed(raw, error) \/ Malformed(wanted, error)
    [] error = "ReservationCapacity" -> Len(wanted) > RESERVATION_CAPACITY
    [] error = "ReservationOverlap" -> SharedPage(wanted)
    [] error = "DescriptorOverlap" -> SharedPage(raw)
    [] error = "ReservationOutsideMap" ->
         \E a \in Addresses : IsReserved(a) /\ ~InMap(a)
    [] error = "OutputCapacity" ->
         Len(raw) + 2 * Len(wanted) > CONVERTED_DESCRIPTOR_CAPACITY
    [] error = "Convert" ->
         Len(raw) \notin 1..CONVERTED_DESCRIPTOR_CAPACITY
    [] OTHER -> phase # "failed"

\* The converted map is in address order, and two descriptors of the firmware's
\* own memory that touch differ in kind or attributes: what merging in place
\* joined, cutting around the reservations never splits without need.
MapIsMinimal ==
  phase = "done" =>
    \A k \in 1..(Len(output) - 1) :
      /\ output[k].start < output[k + 1].start
      /\ output[k].kind \notin BootKinds =>
           \/ RangeEnd(output[k]) # output[k + 1].start
           \/ output[k].kind # output[k + 1].kind
           \/ output[k].attributes # output[k + 1].attributes

\* The converted map says exactly what the firmware's map and the reservations
\* say, in the normal form that the kernel's checks expect.
ConvertedMapIsExact == PagesKeepTheirKind /\ MapIsMinimal
=============================================================================
