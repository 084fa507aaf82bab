------------------------------ MODULE KernelLoad ------------------------------
(***************************************************************************)
(* Placing the kernel image (crates/bootloader/src/load_plan.rs and         *)
(* segment_loader.rs): LoadPlan::build accepts the segments one by one,     *)
(* prepare_targets zeroes, copies and verifies each of them, the source is  *)
(* checked again, and LoadedKernel records what was placed.  Who owns the   *)
(* pages, and what a failing allocation does, is in BootPipeline.           *)
(*                                                                         *)
(* Addresses are scaled bytes, PageSize of them make a page and MaxAddress  *)
(* stands for u64::MAX.  The file lies in memory at the source pages, byte  *)
(* o of it holding FileByte(o), so a copy over the source would be seen.    *)
(***************************************************************************)
EXTENDS Integers, Sequences, FiniteSets

CONSTANTS
  Images,                  \* entry, segments and source allocation to load
  PageSize,                \* LOAD_PAGE_SIZE
  MaxAddress,              \* u64::MAX
  BOOTSTRAP_WINDOW_START,
  BOOTSTRAP_WINDOW_END,
  BOOTSTRAP_WINDOW_BYTES,
  MAX_LOAD_ITEMS,
  MaxFaults                \* bound on the bytes that change by themselves

Addresses == 0..MaxAddress
FileByte(o) == o + 1
Stale == -1
Garbage == -2

Segments ==
  [file_offset: Addresses, file_size: Addresses, memory_size: Addresses,
   target: Addresses, flags: 0..7]
Sources == [page_start: Addresses, page_count: Nat, file_length: Addresses]

ASSUME KernelLoadAssumption ==
  /\ PageSize \in Nat \ {0}
  /\ MaxAddress \in Nat /\ (MaxAddress + 1) % PageSize = 0
  /\ BOOTSTRAP_WINDOW_START \in Nat /\ BOOTSTRAP_WINDOW_START % PageSize = 0
  /\ BOOTSTRAP_WINDOW_BYTES \in Nat
  /\ BOOTSTRAP_WINDOW_END = BOOTSTRAP_WINDOW_START + BOOTSTRAP_WINDOW_BYTES
  /\ BOOTSTRAP_WINDOW_END <= MaxAddress
  /\ MAX_LOAD_ITEMS \in Nat
  /\ MaxFaults \in Nat
  /\ Images \subseteq [entry: Addresses, segments: Seq(Segments), source: Sources]
  /\ \A i \in Images :
       /\ i.source.page_start % PageSize = 0 /\ i.source.page_count > 0
       /\ i.source.file_length <= i.source.page_count * PageSize

VARIABLES
  image,     \* the image being loaded
  items,     \* LoadPlan::items
  total_page_bytes, \* LoadPlan::total_page_bytes
  phase,     \* the loop at work, or how the loading ended
  cursor,    \* segments the loop has dealt with
  memory,    \* content of every address
  loaded,    \* what LoadedKernel keeps besides the segments themselves
  faults,    \* bytes that have changed by themselves
  reason     \* the error returned

planVars == <<items, total_page_bytes>>
vars == <<image, planVars, phase, cursor, memory, loaded, faults, reason>>

-----------------------------------------------------------------------------
(* The plan.                                                                 *)

Least(S) == CHOOSE x \in S : \A y \in S : x <= y
Greatest(S) == CHOOSE x \in S : \A y \in S : x >= y

\* Error of the first check that fails, in the order of the code.
First(checks) ==
  LET failing == {i \in 1..Len(checks) : checks[i].fails}
  IN IF failing = {} THEN "none" ELSE checks[Least(failing)].error

Check(fails, error) == [fails |-> fails, error |-> error]

round_down(value) == value - (value % PageSize)

\* Faulty: an end on a page boundary is given one page more.
round_up_always(value) == round_down(value) + PageSize

round_up(value) == round_down(value + (PageSize - 1))

ranges_overlap(left_start, left_end, right_start, right_end) ==
  left_start < right_end /\ right_start < left_end

make_item_checks(s, source_length) ==
  <<Check(s.memory_size = 0, "ZeroMemorySize"),
    Check(s.target % PageSize # 0, "UnalignedTarget"),
    Check(s.file_offset + s.file_size > MaxAddress, "SourceRangeOverflow"),
    Check(s.file_offset + s.file_size > source_length, "SourceOutsideFile"),
    Check(s.target + s.memory_size > MaxAddress, "RangeOverflow"),
    Check(s.target + s.memory_size + (PageSize - 1) > MaxAddress, "PageRoundingOverflow"),
    Check(s.file_size > s.memory_size, "RangeOverflow")>>

make_item(s) ==
  LET page_end == round_up(s.target + s.memory_size)
      page_start == round_down(s.target)
  IN [source_offset |-> s.file_offset, file_size |-> s.file_size,
      memory_size |-> s.memory_size, target_start |-> s.target,
      target_end |-> s.target + s.memory_size, page_start |-> page_start,
      page_count |-> (page_end - page_start) \div PageSize, flags |-> s.flags,
      page_length |-> page_end - page_start, copy_offset |-> s.target - page_start]

is_executable(item) == item.flags % 2 = 1
page_end(item) == item.page_start + item.page_length
source_page_end == image.source.page_start + image.source.page_count * PageSize

PlanFull == Len(items) = MAX_LOAD_ITEMS

SourceOverlap(item) ==
  ranges_overlap(image.source.page_start, source_page_end, item.page_start, page_end(item))

build_checks(s) ==
  LET item == make_item(s)
  IN <<Check(source_page_end > MaxAddress, "RangeOverflow"),
       Check(PlanFull, "TooManySegments")>>
     \o make_item_checks(s, image.source.file_length)
     \o <<Check(item.page_start < BOOTSTRAP_WINDOW_START, "BelowWindow"),
          Check(page_end(item) > BOOTSTRAP_WINDOW_END, "AboveWindow"),
          Check(\E i \in 1..Len(items) :
                  ranges_overlap(items[i].page_start, page_end(items[i]),
                                 item.page_start, page_end(item)), "RoundedOverlap"),
          Check(SourceOverlap(item), "SourceOverlap"),
          Check(total_page_bytes + item.page_length > BOOTSTRAP_WINDOW_BYTES,
                "TotalSizeExceeded")>>

HoldsEntry(item) ==
  is_executable(item) /\ image.entry >= item.target_start /\ image.entry < item.target_end

-----------------------------------------------------------------------------
(* Copying and verifying.  Offsets are within the pages of an item.          *)

Source(o) == memory[image.source.page_start + o]
Target(item, offset) == memory[item.page_start + offset]

copy_target(item) ==
  [a \in Addresses |->
     LET o == a - item.page_start - item.copy_offset
     IN IF o >= 0 /\ o < item.file_size THEN Source(item.source_offset + o) ELSE memory[a]]

\* Faulty: the bytes behind the segment's memory are not looked at.
verify_without_padding(item) ==
  LET copy_end == item.copy_offset + item.file_size
  IN /\ \A o \in 0..(item.file_size - 1) :
          Target(item, item.copy_offset + o) = Source(item.source_offset + o)
     /\ \A o \in copy_end..(item.copy_offset + item.memory_size - 1) : Target(item, o) = 0

\* The file's bytes, then the bss and the padding, which must be zero.
verify_target(item) ==
  LET copy_end == item.copy_offset + item.file_size
  IN /\ \A o \in 0..(item.file_size - 1) :
          Target(item, item.copy_offset + o) = Source(item.source_offset + o)
     /\ \A o \in copy_end..(item.page_length - 1) : Target(item, o) = 0

\* The fingerprint of the file and its validation give the same as before.
source_is_unchanged ==
  \A o \in 0..(image.source.file_length - 1) : Source(o) = FileByte(o)

metadata_matches_plan ==
  /\ loaded.total_pages * PageSize = total_page_bytes
  /\ loaded.start = Least({items[i].page_start : i \in 1..Len(items)})
  /\ loaded.end = Greatest({page_end(items[i]) : i \in 1..Len(items)})

-----------------------------------------------------------------------------
(* Actions.                                                                  *)

\* load_start and load_end start at u64::MAX and 0; positions count from one here.
Unrecorded == [start |-> MaxAddress, end |-> 0, total_pages |-> 0, entry_segment_index |-> 1]

Init ==
  /\ image \in Images
  /\ items = <<>>
  /\ total_page_bytes = 0
  /\ phase = "planning"
  /\ cursor = 0
  /\ memory = [a \in Addresses |->
                 IF a >= image.source.page_start
                      /\ a < image.source.page_start + image.source.file_length
                 THEN FileByte(a - image.source.page_start) ELSE Stale]
  /\ loaded = Unrecorded
  /\ faults = 0
  /\ reason = "none"

Stop(where, why) ==
  /\ phase' = where
  /\ reason' = why
  /\ UNCHANGED <<image, planVars, cursor, memory, loaded, faults>>

build ==
  /\ phase = "planning"
  /\ cursor < Len(image.segments)
  /\ LET s == image.segments[cursor + 1]
         error == First(build_checks(s))
     IN IF error # "none" THEN Stop("refused", error)
        ELSE /\ items' = Append(items, make_item(s))
             /\ total_page_bytes' = total_page_bytes + make_item(s).page_length
             /\ cursor' = cursor + 1
             /\ UNCHANGED <<image, phase, memory, loaded, faults, reason>>

build_end ==
  /\ phase = "planning"
  /\ cursor = Len(image.segments)
  /\ IF items = <<>> THEN Stop("refused", "NoSegments")
     ELSE IF ~\E i \in 1..Len(items) : HoldsEntry(items[i])
       THEN Stop("refused", "EntryOutsideExecutableSegment")
     ELSE /\ phase' = "zeroing"
          /\ cursor' = 0
          /\ UNCHANGED <<image, planVars, memory, loaded, faults, reason>>

\* One round of a loop over the items; the last one leads to the next loop.
Round(next) ==
  /\ cursor' = (cursor + 1) % Len(items)
  /\ phase' = IF cursor + 1 = Len(items) THEN next ELSE phase
  /\ UNCHANGED <<image, planVars, faults, reason>>

zero ==
  /\ phase = "zeroing"
  /\ \/ LET item == items[cursor + 1]
        IN /\ memory' = [a \in Addresses |->
                           IF a >= item.page_start /\ a < page_end(item) THEN 0 ELSE memory[a]]
           /\ Round("copying") /\ UNCHANGED loaded
     \/ Stop("failed", "Backend")

copy ==
  /\ phase = "copying"
  /\ \/ /\ memory' = copy_target(items[cursor + 1])
        /\ Round("verifying") /\ UNCHANGED loaded
     \/ Stop("failed", "Backend")

verify ==
  /\ phase = "verifying"
  /\ IF verify_target(items[cursor + 1])
       THEN Round("checking") /\ UNCHANGED <<memory, loaded>>
       ELSE Stop("failed", "Verify")

recheck ==
  /\ phase = "checking"
  /\ IF source_is_unchanged THEN Stop("recording", "none") ELSE Stop("failed", "Verify")

\* One round of from_verified's loop.
from_verified ==
  /\ phase = "recording"
  /\ LET item == items[cursor + 1]
     IN loaded' =
          [start |-> Least({loaded.start, item.page_start}),
           end |-> Greatest({loaded.end, page_end(item)}),
           total_pages |-> loaded.total_pages + item.page_count,
           entry_segment_index |->
             IF HoldsEntry(item) THEN cursor + 1 ELSE loaded.entry_segment_index]
  /\ Round("recorded")
  /\ UNCHANGED memory

compare ==
  /\ phase = "recorded"
  /\ IF metadata_matches_plan THEN Stop("loaded", "none") ELSE Stop("failed", "Metadata")

\* A byte of the file or of a target comes to hold something else; a target
\* does so before the verification has started, the file while it is still read.
Disturb ==
  /\ faults < MaxFaults
  /\ phase \in {"zeroing", "copying", "verifying", "checking"}
  /\ \E a \in Addresses :
       /\ \/ a >= image.source.page_start
               /\ a < image.source.page_start + image.source.file_length
          \/ /\ phase = "copying" \/ (phase = "verifying" /\ cursor = 0)
             /\ \E i \in 1..Len(items) : a >= items[i].page_start /\ a < page_end(items[i])
       /\ memory' = [memory EXCEPT ![a] = Garbage]
  /\ faults' = faults + 1
  /\ UNCHANGED <<image, planVars, phase, cursor, loaded, reason>>

Ended ==
  /\ phase \in {"refused", "failed", "loaded"}
  /\ UNCHANGED vars

Next ==
  \/ build \/ build_end \/ zero \/ copy \/ verify \/ recheck \/ from_verified \/ compare
  \/ Disturb \/ Ended

Spec == Init /\ [][Next]_vars

-----------------------------------------------------------------------------
(* Properties.                                                               *)

\* The pages a segment occupies, by page number.
PagesOf(s) == (s.target \div PageSize)..((s.target + s.memory_size - 1) \div PageSize)

SourcePages ==
  LET first == image.source.page_start \div PageSize
  IN first..(first + image.source.page_count - 1)

\* What an image must be like to be loaded, said with sets of pages.
Loadable ==
  LET n == Len(image.segments)
      seg(i) == image.segments[i]
  IN /\ n \in 1..MAX_LOAD_ITEMS
     /\ source_page_end <= MaxAddress
     /\ \A i \in 1..n :
          /\ seg(i).memory_size > 0
          /\ seg(i).file_size <= seg(i).memory_size
          /\ seg(i).file_offset + seg(i).file_size <= image.source.file_length
          /\ seg(i).target % PageSize = 0
          /\ \A page \in PagesOf(seg(i)) :
               /\ page * PageSize >= BOOTSTRAP_WINDOW_START
               /\ (page + 1) * PageSize <= BOOTSTRAP_WINDOW_END
          /\ PagesOf(seg(i)) \cap SourcePages = {}
          /\ \A j \in 1..n \ {i} : PagesOf(seg(i)) \cap PagesOf(seg(j)) = {}
     /\ \E i \in 1..n :
          /\ seg(i).flags % 2 = 1
          /\ image.entry \in seg(i).target..(seg(i).target + seg(i).memory_size - 1)

\* LoadPlan::build accepts exactly the loadable images: neither rounding nor
\* the checked arithmetic near the end of the address space lets another one
\* through or turns a loadable one away, and the total-size test never decides.
PlansExactlyTheLoadable ==
  /\ phase = "refused" => ~Loadable /\ reason # "TotalSizeExceeded"
  /\ phase \in {"zeroing", "copying", "verifying", "checking", "recording", "recorded",
               "loaded"} => Loadable

\* When LoadedKernel exists every segment's memory is what its program header
\* says of the validated file, bytes of the file first and zeros after them to
\* the end of the last page, the file itself is intact and no other address
\* was written, even if a byte of file or target changed on the way.
LoadedImageIsExact ==
  phase = "loaded" =>
    \A a \in Addresses :
      LET owners == {i \in 1..Len(image.segments) :
                       a \div PageSize \in PagesOf(image.segments[i])}
          source == a - image.source.page_start
          offset(i) == a - image.segments[i].target
      IN /\ \A i \in owners :
              memory[a] = IF offset(i) < image.segments[i].file_size
                            THEN FileByte(image.segments[i].file_offset + offset(i)) ELSE 0
         /\ owners = {} =>
              memory[a] = IF source >= 0 /\ source < image.source.file_length
                            THEN FileByte(source) ELSE Stale

\* A planned image is loaded unless the backend fails or a byte has changed;
\* in particular metadata_matches_plan never fails.
NoFalseAlarm ==
  phase = "failed" => faults > 0 \/ reason = "Backend"

\* An image is loaded if and only if it is loadable, apart from faults of the
\* backend and of memory: neither planning nor verification refuses a good one.
LoadsExactlyTheLoadable == PlansExactlyTheLoadable /\ NoFalseAlarm

\* LoadedKernel describes what was placed: its range spans the pages of all
\* segments, its page count is the number of distinct pages, and its entry
\* segment is executable and holds the entry point.
MetadataDescribesTheImage ==
  phase = "loaded" =>
    LET pages == UNION {PagesOf(image.segments[i]) : i \in 1..Len(image.segments)}
        entry == image.segments[loaded.entry_segment_index]
    IN /\ Cardinality(pages) = loaded.total_pages
       /\ \A page \in pages :
            page * PageSize >= loaded.start /\ (page + 1) * PageSize <= loaded.end
       /\ loaded.start \div PageSize \in pages
       /\ (loaded.end - 1) \div PageSize \in pages
       /\ entry.flags % 2 = 1
       /\ image.entry \in entry.target..(entry.target + entry.memory_size - 1)

\* The memory, and what LoadedKernel says about it, are what the file asks for.
LoadedKernelIsExact == LoadedImageIsExact /\ MetadataDescribesTheImage
=============================================================================
