------------------------------- MODULE BootMap -------------------------------
(***************************************************************************)
(* The memory map the kernel receives: the reservations the loader derives *)
(* from what it owns (reservations_for in boot_info_loader.rs and           *)
(* append_page_table_reservations in page_tables.rs), the conversion of     *)
(* module MemoryMap, the loader's two checks of the result and the kernel's *)
(* own (crates/kernel/src/lib.rs), which walks every range it depends on   *)
(* descriptor by descriptor, one per step.                                  *)
(***************************************************************************)
EXTENDS MemoryMap, FiniteSets, FiniteSetsExt

CONSTANT Layouts  \* where the loader's allocations may lie

Allocations == [start: 0..MaxAddress, pages: Nat]

\* Every layout has a kernel image, whose segments the linker script puts next to
\* each other; a handoff has one stack and its page tables, in page frames.
ASSUME BootMapAssumption ==
  /\ Layouts \subseteq
       [segments: Seq(Allocations), raw_map: Allocations,
        conversion_scratch: Allocations, converted_map: Allocations,
        boot_info: Allocations, framebuffer: [start: 0..MaxAddress, length: Nat],
        stack: Seq(Allocations), frames: Seq({a \in 0..MaxAddress : a % PageSize = 0})]
  /\ \A l \in Layouts :
       /\ l.segments # <<>>
       /\ \A k \in 1..(Len(l.segments) - 1) :
            RangeEnd(l.segments[k]) = l.segments[k + 1].start
       /\ l.stack # <<>> => l.frames # <<>>

VARIABLES
  layout,  \* allocations the loader owns when it converts the map
  stage,   \* check at work, or "booted" or "refused"
  target,  \* range the kernel looks at
  seen     \* where in it: cursor of covered_non_usable

bootVars == <<vars, layout, stage, target, seen>>

Handoff == layout.stack # <<>>

ReservationOf(kind, source, a) ==
  [kind |-> kind, source |-> source, start |-> a.start, pages |-> a.pages]

\* The framebuffer in whole pages.  A sum that leaves u64 ends the code's
\* function with RangeOverflow, as push then does with the unbounded sum here.
FramebufferPages(f) ==
  LET from == f.start - (f.start % PageSize)
      end == f.start + f.length + (PageSize - 1)
  IN  [start |-> from, pages |-> ((end - (end % PageSize)) - from) \div PageSize]

\* append_page_table_reservations: one reservation per run of adjacent frames,
\* in address order.  A run starts behind a gap; it ends with the last frame to
\* which no page is missing.
FrameRuns(frames) ==
  LET set == {frames[k] : k \in 1..Len(frames)}
      heads == {a \in set : a - PageSize \notin set}
      head(k) == CHOOSE a \in heads : Cardinality({b \in heads : b <= a}) = k
      run(a) == {b \in set : a <= b /\ \A x \in a..b : x % PageSize = 0 => x \in set}
  IN  [k \in 1..Cardinality(heads) |->
         [start |-> head(k), pages |-> (Max(run(head(k))) - head(k)) \div PageSize + 1]]

KernelReservations(l) ==
  [k \in 1..Len(l.segments) |-> ReservationOf("kernel_image", "KernelImage", l.segments[k])]

reservations_for(l) ==
  LET runs == FrameRuns(l.frames) IN
  KernelReservations(l)
    \o <<ReservationOf("boot_memory_map", "RawMemoryMap", l.raw_map),
         ReservationOf("boot_memory_map", "ConversionScratch", l.conversion_scratch),
         ReservationOf("boot_memory_map", "ConvertedMemoryMap", l.converted_map),
         ReservationOf("boot_info", "BootInfo", l.boot_info),
         ReservationOf("framebuffer", "Framebuffer", FramebufferPages(l.framebuffer))>>
    \o [k \in 1..Len(l.stack) |-> ReservationOf("bootstrap_stack", "BootstrapStack", l.stack[k])]
    \o [k \in 1..Len(runs) |-> ReservationOf("page_table", "PageTable", runs[k])]

BootInit ==
  /\ layout \in Layouts
  /\ wanted = reservations_for(layout)
  /\ Init
  /\ stage = "convert" /\ target = 0 /\ seen = 0

ConvertMap ==
  /\ stage = "convert"
  /\ Next
  /\ UNCHANGED <<layout, stage, target, seen>>

Answer(ok, next) ==
  /\ stage' = IF ok THEN next ELSE "refused"
  /\ UNCHANGED <<vars, layout, target, seen>>

Of(kind) == {k \in 1..Len(output) : output[k].kind = kind}

reservation_evidence ==
  /\ Of("kernel_image") # {}
  /\ Of("boot_info") # {}
  /\ Cardinality(Of("boot_memory_map")) >= 3
  /\ Handoff => Of("bootstrap_stack") # {} /\ Of("page_table") # {}

CheckEvidence ==
  /\ stage = "convert"
  /\ phase = "done"
  /\ Answer(reservation_evidence, "evidence")

\* The first descriptor that holds an address.
Covering(a) == {k \in 1..Len(output) : Holds(output[k], a)}

KindAt(a) == output[Min(Covering(a))].kind

verify_page_table_reservations ==
  \A k \in 1..Len(layout.frames) :
    Covering(layout.frames[k]) # {} /\ KindAt(layout.frames[k]) = "page_table"

VerifyTables ==
  /\ stage = "evidence"
  /\ Answer(verify_page_table_reservations, "verified")

\* The image from __kernel_start to __kernel_end (the linker script leaves no
\* page between the segments), the stack, the boot information and the map, the
\* last two up to the end of their pages.
KernelTargets ==
  LET range(first, last) == [start |-> first.start, end |-> RangeEnd(last)]
  IN  <<range(layout.segments[1], layout.segments[Len(layout.segments)]),
        range(layout.stack[1], layout.stack[1]),
        range(layout.boot_info, layout.boot_info),
        range(layout.converted_map, layout.converted_map)>>

\* validate_boot_state looks at the descriptors, then at one range after the other.
validate_boot_state ==
  /\ output # <<>>
  /\ \A k \in 1..Len(output) : validate_range(output[k]) = "none"

\* The walk of range t begins, unless the range is empty.
BeginRange(t) ==
  LET range == KernelTargets[t] IN
  IF range.start < range.end
  THEN stage' = "walking" /\ target' = t /\ seen' = range.start
  ELSE stage' = "refused" /\ UNCHANGED <<target, seen>>

KernelValidates ==
  /\ stage = "verified"
  /\ post_exit /\ Handoff
  /\ IF validate_boot_state THEN BeginRange(1)
     ELSE stage' = "refused" /\ UNCHANGED <<target, seen>>
  /\ UNCHANGED <<vars, layout>>

\* One round of the loop: the descriptor at the cursor must not be usable.
covered_non_usable ==
  /\ stage = "walking"
  /\ seen < KernelTargets[target].end
  /\ IF Covering(seen) # {} /\ KindAt(seen) # "usable"
     THEN /\ seen' = Minimum(RangeEnd(output[Min(Covering(seen))]), KernelTargets[target].end)
          /\ UNCHANGED stage
     ELSE stage' = "refused" /\ UNCHANGED seen
  /\ UNCHANGED <<vars, layout, target>>

NextRange ==
  /\ stage = "walking"
  /\ seen >= KernelTargets[target].end
  /\ IF target < Len(KernelTargets) THEN BeginRange(target + 1)
     ELSE stage' = "booted" /\ UNCHANGED <<target, seen>>
  /\ UNCHANGED <<vars, layout>>

Finished ==
  /\ \/ stage \in {"booted", "refused"}
     \/ stage = "verified" /\ ~(post_exit /\ Handoff)
  /\ UNCHANGED bootVars

BootNext ==
  \/ ConvertMap \/ CheckEvidence \/ VerifyTables
  \/ KernelValidates \/ covered_non_usable \/ NextRange \/ Finished

BootSpec == BootInit /\ [][BootNext]_bootVars
------------------------------------------------------------------------------
(* Properties                                                              *)

\* A map that apply_reservations produced from the loader's own allocations
\* always passes reservation_evidence, verify_page_table_reservations and the
\* kernel's validate_boot_state: three reserved map buffers stay three
\* descriptors however they lie, and no reservation ends up usable.
ChecksConfirmTheMap == stage # "refused"

Labelled(a, kind) ==
  \A x \in Addresses : Holds(a, x) => \E k \in 1..Len(output) :
    Holds(output[k], x) /\ output[k].kind = kind

\* Whatever the loader still owns when the kernel starts is labelled with its
\* purpose in the map, page by page, so that the kernel can never hand out a
\* page of its image, stack, page tables or boot data.
EverythingOwnedIsLabelled ==
  stage \in {"verified", "walking", "booted"} =>
    /\ \A k \in 1..Len(layout.segments) : Labelled(layout.segments[k], "kernel_image")
    /\ \A k \in 1..Len(layout.stack) : Labelled(layout.stack[k], "bootstrap_stack")
    /\ \A k \in 1..Len(layout.frames) :
         Labelled([start |-> layout.frames[k], pages |-> 1], "page_table")
    /\ Labelled(layout.boot_info, "boot_info")
    /\ \A a \in {layout.raw_map, layout.conversion_scratch, layout.converted_map} :
         Labelled(a, "boot_memory_map")

\* The loader's and the kernel's checks pass on every map the loader builds, and
\* a map that passes tells the truth about all the loader still owns.
KernelCanTrustTheMap == ChecksConfirmTheMap /\ EverythingOwnedIsLabelled
=============================================================================
