----------------------------- MODULE BootInfoChain -----------------------------
(***************************************************************************)
(* One BootInfo value is built, validated, written, taken over, rebuilt     *)
(* after ExitBootServices and read by the kernel, and each of these places  *)
(* repeats some of the checks (boot_info.rs, boot_info_loader.rs,           *)
(* exit_state.rs and bootstrap_stack.rs of crates/bootloader,               *)
(* crates/boot-protocol and crates/kernel).  A check that refuses what an   *)
(* earlier one accepted comes too late: between into_owned_parts and        *)
(* from_validated nobody owns the buffers, after the boundary the machine   *)
(* can only halt.                                                           *)
(*                                                                         *)
(* Numbers are scaled: U64_END stands for 2^64, PAGE for 4096.  Of the      *)
(* memory map only the number of descriptors is kept (MemoryMap says what   *)
(* they are, BootMap what the kernel finds in them).  Reserved fields, which *)
(* every writer sets to zero, are left out.                                 *)
(***************************************************************************)
EXTENDS Integers, FiniteSets

CONSTANTS
  U64_END,                    \* 2^64
  PAGE,                       \* MEMORY_PAGE_SIZE
  PhysicalEnd,                \* end of the memory firmware allocates from
  BytesPerPixel,
  MEMORY_DESCRIPTOR_SIZE,
  CONVERTED_MAP_PAGES,
  BOOTSTRAP_STACK_PAGES,
  BOOTSTRAP_IDENTITY_LIMIT,
  STACK_BYTES,                \* the kernel's own idea of the stack's size
  SIZE_OF_BOOT_INFO,
  Gops                        \* modes the graphics output protocol may report

Capacity == (CONVERTED_MAP_PAGES * PAGE) \div MEMORY_DESCRIPTOR_SIZE
Formats == {"Rgb", "Bgr", "RgbMask", "BgrMask", "OtherMask", "BltOnly"}
Nothing == [none |-> TRUE]

\* What the scaled constants keep of the real ones: descriptors and a BootInfo fit
\* a page, and the kernel's idea of the stack is the loader's.
ASSUME BootInfoChainAssumption ==
  /\ {U64_END, PAGE, PhysicalEnd, BytesPerPixel, MEMORY_DESCRIPTOR_SIZE,
      CONVERTED_MAP_PAGES, BOOTSTRAP_STACK_PAGES, BOOTSTRAP_IDENTITY_LIMIT, SIZE_OF_BOOT_INFO}
     \subseteq Nat \ {0}
  /\ U64_END % PAGE = 0 /\ PAGE % MEMORY_DESCRIPTOR_SIZE = 0
  /\ PhysicalEnd < U64_END /\ BOOTSTRAP_IDENTITY_LIMIT < U64_END
  /\ SIZE_OF_BOOT_INFO <= PAGE /\ STACK_BYTES = BOOTSTRAP_STACK_PAGES * PAGE
  /\ Gops \subseteq [physical_address: 0..U64_END - 1, byte_length: 0..U64_END - 1,
                     width: Nat, height: Nat, pixels_per_scanline: Nat,
                     pixel_format: Formats]

VARIABLES
  chainStage,   \* the step to come, or where the boot was refused
  failed,       \* the step that refused, or "none"
  buffer_owner, \* who would free the four buffers
  converted,    \* start of the converted-map buffer
  page,         \* start of the BootInfo page
  stack,        \* bottom of the bootstrap stack
  framebuffer,  \* FramebufferInfo
  count,        \* descriptors in the converted-map buffer
  info          \* the BootInfo value last built

chainVars ==
  <<chainStage, failed, buffer_owner, converted, page, stack, framebuffer, count, info>>

-----------------------------------------------------------------------------
(* Checks of the boot protocol.                                              *)

Fits(n) == n < U64_END
Aligned(n) == n % PAGE = 0
RoundDown(n) == n - (n % PAGE)

\* FramebufferInfo a GOP mode is converted to.
PixelFormat(format) ==
  IF format \in {"Rgb", "RgbMask"} THEN "RGBX8888" ELSE "BGRX8888"

RequiredBytes(mode) == mode.pixels_per_scanline * mode.height * BytesPerPixel

Accepted(gop) ==
  /\ gop.physical_address # 0 /\ gop.byte_length # 0
  /\ gop.width # 0 /\ gop.height # 0
  /\ gop.pixels_per_scanline >= gop.width
  /\ gop.pixel_format \notin {"OtherMask", "BltOnly"}
  /\ Fits(RequiredBytes(gop)) /\ gop.byte_length >= RequiredBytes(gop)
  /\ Fits(gop.physical_address + gop.byte_length)

convert_framebuffer(gop) ==
  [gop EXCEPT !.pixel_format = PixelFormat(@)]

\* The pages set aside for a framebuffer.
\* Faulty: the end is rounded down, like the start.
ReservedPagesTruncated(fb) ==
  LET start == RoundDown(fb.physical_address)
      end == fb.physical_address + fb.byte_length
  IN [start |-> start, pages |-> (end - start) \div PAGE]

ReservedPages(fb) ==
  LET start == RoundDown(fb.physical_address)
      end == fb.physical_address + fb.byte_length + PAGE - 1
  IN [start |-> start, pages |-> (RoundDown(end) - start) \div PAGE]

Reservable(fb) ==
  /\ Fits(fb.physical_address + fb.byte_length)
  /\ Fits(fb.physical_address + fb.byte_length + PAGE - 1)

validate_memory_map(map) ==
  /\ map.physical_address # 0
  /\ map.descriptor_count # 0
  /\ map.descriptor_stride >= MEMORY_DESCRIPTOR_SIZE
  /\ Fits(map.descriptor_count * map.descriptor_stride)
  /\ map.byte_length = map.descriptor_count * map.descriptor_stride
  /\ Fits(map.physical_address + map.byte_length)

validate_framebuffer(fb) ==
  /\ fb.physical_address # 0
  /\ fb.byte_length # 0
  /\ fb.width # 0 /\ fb.height # 0
  /\ fb.pixels_per_scanline >= fb.width
  /\ fb.pixel_format \in {"RGBX8888", "BGRX8888"}
  /\ Fits(RequiredBytes(fb)) /\ fb.byte_length >= RequiredBytes(fb)
  /\ Fits(fb.physical_address + fb.byte_length)

\* BootInfo::validate; BootInfo::new writes the header of the current version.
validate_boot_info(boot_info) ==
  /\ boot_info.abi_minor = 0 => boot_info.total_size = SIZE_OF_BOOT_INFO
  /\ boot_info.total_size >= SIZE_OF_BOOT_INFO
  /\ validate_memory_map(boot_info.memory_map)
  /\ validate_framebuffer(boot_info.framebuffer)

BootInfo(address, descriptors, fb) ==
  [abi_minor |-> 0, total_size |-> SIZE_OF_BOOT_INFO, framebuffer |-> fb,
   memory_map |-> [physical_address |-> address,
                   descriptor_count |-> descriptors,
                   descriptor_stride |-> MEMORY_DESCRIPTOR_SIZE,
                   byte_length |-> descriptors * MEMORY_DESCRIPTOR_SIZE]]

validate_range(start, pages) ==
  pages # 0 /\ Aligned(start) /\ Fits(start + pages * PAGE)

\* PreparedBootInfo::from_validated; the raw and scratch buffers are pages of
\* the same allocator and pass or fail with the other two.
from_validated(boot_info) ==
  LET map == boot_info.memory_map
  IN /\ validate_boot_info(boot_info)
     /\ map.descriptor_count = count
     /\ validate_range(converted, CONVERTED_MAP_PAGES) /\ validate_range(page, 1)
     /\ map.physical_address >= converted
     /\ map.physical_address + map.byte_length
          <= converted + CONVERTED_MAP_PAGES * PAGE

from_final_map(boot_info) ==
  /\ validate_boot_info(boot_info)
  /\ boot_info.memory_map.descriptor_count = count
  /\ boot_info.memory_map.descriptor_stride = MEMORY_DESCRIPTOR_SIZE
  /\ boot_info.memory_map.physical_address = converted

validate_bootstrap_stack(start) ==
  /\ Aligned(start)
  /\ Fits(start + BOOTSTRAP_STACK_PAGES * PAGE)
  /\ start + BOOTSTRAP_STACK_PAGES * PAGE <= BOOTSTRAP_IDENTITY_LIMIT

Top == stack + BOOTSTRAP_STACK_PAGES * PAGE

\* jump_to_kernel checks the four registers it is about to load; the
\* alignments asked for divide a page.
validate_handoff_arguments ==
  page # 0 /\ Aligned(page) /\ validate_bootstrap_stack(stack)

validate_handoff_inputs ==
  /\ page # 0 /\ Aligned(page)
  /\ Aligned(stack) /\ Top - stack = STACK_BYTES

-----------------------------------------------------------------------------
(* The chain.                                                                *)

\* A refusal before the boundary drops the owner, one after it halts.
Refuse == chainStage' = "refused" /\ failed' = chainStage

Step(from, accepted, to) ==
  /\ chainStage = from
  /\ IF accepted THEN chainStage' = to /\ UNCHANGED failed ELSE Refuse

buffers == <<buffer_owner, converted, page, stack>>

ChainInit ==
  /\ chainStage = "allocate" /\ failed = "none" /\ buffer_owner = "nobody yet"
  /\ converted = 0 /\ page = 0 /\ stack = 0
  /\ framebuffer = Nothing /\ count = 0 /\ info = Nothing

PageRange(start, pages) == {start + i : i \in 0..pages * PAGE - 1}

\* The stack below the identity limit, then the buffers anywhere.
PendingBuffersAllocate ==
  /\ Step("allocate", TRUE, "framebuffer")
  /\ \E c, p, s \in {n \in 1..PhysicalEnd - 1 : Aligned(n)} :
       /\ c + CONVERTED_MAP_PAGES * PAGE <= PhysicalEnd
       /\ p + PAGE <= PhysicalEnd
       /\ s + BOOTSTRAP_STACK_PAGES * PAGE <= BOOTSTRAP_IDENTITY_LIMIT
       /\ PageRange(c, CONVERTED_MAP_PAGES) \cap PageRange(p, 1) = {}
       /\ PageRange(s, BOOTSTRAP_STACK_PAGES)
            \cap (PageRange(c, CONVERTED_MAP_PAGES) \cup PageRange(p, 1)) = {}
       /\ converted' = c /\ page' = p /\ stack' = s
  /\ buffer_owner' = "pending"
  /\ UNCHANGED <<framebuffer, count, info>>

ConvertFramebuffer ==
  \E gop \in Gops :
    /\ Step("framebuffer", Accepted(gop), "reserve")
    /\ framebuffer' = IF Accepted(gop) THEN convert_framebuffer(gop) ELSE Nothing
    /\ UNCHANGED <<buffers, count, info>>

reservations_for ==
  /\ Step("reserve", Reservable(framebuffer), "map")
  /\ UNCHANGED <<buffers, framebuffer, count, info>>

\* raw descriptors were captured.
CountRaw(from, to, raw) ==
  /\ Step(from, raw \in 1..Capacity, to)
  /\ UNCHANGED <<buffers, framebuffer, count, info>>

\* Cut by the reservations they would become n.
\* Faulty: the slice handed to apply_reservations is one descriptor too long.
apply_reservations_too_long(from, to, n) ==
  /\ Step(from, n <= Capacity + 1, to)
  /\ count' = n
  /\ UNCHANGED <<buffers, framebuffer, info>>

apply_reservations(from, to, n) ==
  /\ Step(from, n <= Capacity, to)
  /\ count' = n
  /\ UNCHANGED <<buffers, framebuffer, info>>

\* The value is written to its page as soon as it is built.
build_boot_info(from, to) ==
  LET boot_info == BootInfo(converted, count, framebuffer)
  IN /\ Step(from, validate_boot_info(boot_info), to)
     /\ info' = boot_info
     /\ UNCHANGED <<buffers, framebuffer, count>>

into_owned_parts ==
  /\ Step("take", TRUE, "prepare")
  /\ buffer_owner' = "nobody"
  /\ UNCHANGED <<converted, page, stack, framebuffer, count, info>>

PreparedBootInfoFromValidated ==
  /\ Step("prepare", from_validated(info), "shape")
  /\ buffer_owner' = IF from_validated(info) THEN "prepared" ELSE buffer_owner
  /\ UNCHANGED <<converted, page, stack, framebuffer, count, info>>

\* The last checks of prepare and those of with_boot_information.
with_boot_information ==
  LET map == info.memory_map
      shaped == map.descriptor_count # 0
                /\ map.descriptor_stride = MEMORY_DESCRIPTOR_SIZE
  IN /\ Step("shape", shaped, "cross")
     /\ UNCHANGED <<buffers, framebuffer, count, info>>

cross_exit_boundary ==
  /\ Step("cross", TRUE, "final map")
  /\ buffer_owner' = "handoff"
  /\ UNCHANGED <<converted, page, stack, framebuffer, count, info>>

reservations_for_transferred ==
  /\ Step("final reserve", Reservable(framebuffer), "final apply")
  /\ UNCHANGED <<buffers, framebuffer, count, info>>

PostExitStateFromFinalMap ==
  /\ Step("final check", from_final_map(info), "final shape")
  /\ UNCHANGED <<buffers, framebuffer, count, info>>

FinalShape ==
  /\ Step("final shape", info.memory_map.descriptor_count # 0 /\ page # 0, "jump")
  /\ UNCHANGED <<buffers, framebuffer, count, info>>

jump_to_kernel ==
  /\ Step("jump", validate_handoff_arguments, "kernel inputs")
  /\ UNCHANGED <<buffers, framebuffer, count, info>>

KernelChecksInputs ==
  /\ Step("kernel inputs", validate_handoff_inputs, "kernel boot info")
  /\ UNCHANGED <<buffers, framebuffer, count, info>>

KernelChecksBootInfo ==
  /\ Step("kernel boot info", validate_boot_info(info), "kernel map")
  /\ UNCHANGED <<buffers, framebuffer, count, info>>

\* The pointer test and the ends of the four targets, and the shape
\* validate_boot_state asks for.
KernelChecksMap ==
  LET map == info.memory_map
      shaped == /\ map.physical_address % MEMORY_DESCRIPTOR_SIZE = 0
                /\ Fits(page + SIZE_OF_BOOT_INFO)
                /\ Fits(map.physical_address + map.byte_length)
                /\ validate_boot_info(info)
                /\ map.descriptor_stride = MEMORY_DESCRIPTOR_SIZE
                /\ map.descriptor_count = count
                /\ map.byte_length = count * MEMORY_DESCRIPTOR_SIZE
  IN /\ Step("kernel map", shaped, "running")
     /\ UNCHANGED <<buffers, framebuffer, count, info>>

Over == chainStage \in {"refused", "running"} /\ UNCHANGED chainVars

ChainNext ==
  \/ PendingBuffersAllocate \/ ConvertFramebuffer \/ reservations_for
  \/ \E raw \in 0..Capacity + 1 : CountRaw("map", "apply", raw)
  \/ \E n \in 1..Capacity + 1 : apply_reservations("apply", "build", n)
  \/ build_boot_info("build", "take")
  \/ into_owned_parts \/ PreparedBootInfoFromValidated
  \/ with_boot_information \/ cross_exit_boundary
  \/ \E raw \in 0..Capacity + 1 : CountRaw("final map", "final reserve", raw)
  \/ reservations_for_transferred
  \/ \E n \in 1..Capacity + 1 : apply_reservations("final apply", "final build", n)
  \/ build_boot_info("final build", "final check")
  \/ PostExitStateFromFinalMap \/ FinalShape
  \/ jump_to_kernel
  \/ KernelChecksInputs \/ KernelChecksBootInfo \/ KernelChecksMap
  \/ Over

ChainSpec == ChainInit /\ [][ChainNext]_chainVars

-----------------------------------------------------------------------------
(* Properties.                                                               *)

\* A boot is refused only by the conversion of the framebuffer, by its
\* reservation or by a memory map that does not fit: from the moment prepare
\* has taken the buffers out of their guard until the kernel runs, no check of
\* from_validated, from_final_map, jump_to_kernel or the kernel refuses what
\* build_boot_info let through, so no buffer is left without an owner.
LaterChecksAgree ==
  /\ failed \in {"none", "framebuffer", "reserve", "map", "apply", "final map", "final apply"}
  /\ chainStage = "refused" => buffer_owner # "nobody"

\* Once prepare has a framebuffer and has reserved pages for it, every byte of
\* every visible pixel lies in those pages, and no address wraps around.
EveryPixelIsReserved ==
  (framebuffer # Nothing /\ chainStage \notin {"reserve", "refused"}) =>
    LET reserved == ReservedPages(framebuffer)
    IN \A x \in 0..framebuffer.width - 1, y \in 0..framebuffer.height - 1,
          b \in 0..BytesPerPixel - 1 :
         LET byte == framebuffer.physical_address
                     + (y * framebuffer.pixels_per_scanline + x) * BytesPerPixel + b
         IN byte < U64_END /\ byte \in PageRange(reserved.start, reserved.pages)
=============================================================================
