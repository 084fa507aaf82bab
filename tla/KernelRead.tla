------------------------------ MODULE KernelRead -------------------------------
(***************************************************************************)
(* Reading the kernel file (measure_and_rewind, ReadProgress and            *)
(* read_exact_and_check_eof in crates/bootloader/src/lib.rs, ScratchPages   *)
(* and load_and_validate in kernel_loader.rs).  The firmware may report a   *)
(* length that is not the file's, return fewer bytes than asked for, and    *)
(* refuse any call.                                                         *)
(*                                                                         *)
(* Byte o of the file holds FileByte(o); UEFI_PAGE_SIZE stands for 4096.    *)
(***************************************************************************)
EXTENDS Integers, Sequences

CONSTANTS
  UEFI_PAGE_SIZE,
  MAX_KERNEL_BYTES,
  MaxLength           \* bound on the length of a file

FileByte(o) == o + 1
ZeroByte == 0

ASSUME KernelReadAssumption ==
  /\ {UEFI_PAGE_SIZE, MAX_KERNEL_BYTES, MaxLength} \subseteq Nat \ {0}

VARIABLES
  length,      \* bytes in the file
  position,    \* the file's position
  readPhase,   \* the call to come, or how the read ended
  byte_len,    \* length measured, and that of the buffer
  completed,   \* ReadProgress::completed
  memory,      \* content of the scratch pages, empty before they are allocated
  lease,       \* PageLeaseState::owned
  held,        \* the firmware counts the pages as allocated
  frees,       \* times FreePages succeeded
  error        \* LoadError, or "none"

readVars == <<length, position, readPhase, byte_len, completed, memory, lease, held,
              frees, error>>
fileVars == <<length, position, byte_len>>
pageVars == <<memory, lease, held, frees>>

ReadInit ==
  /\ length \in 0..MaxLength
  /\ position = 0 /\ readPhase = "open" /\ byte_len = 0 /\ completed = 0
  /\ memory = <<>> /\ lease = FALSE /\ held = FALSE /\ frees = 0 /\ error = "none"

Fails(e) == readPhase' = "failed" /\ error' = e

\* Before the pages are allocated there is nothing to release.
OpenFails ==
  /\ readPhase = "open" /\ Fails("Open")
  /\ UNCHANGED <<fileVars, completed, pageVars>>

\* measure_and_rewind: where the end seems to be, back at the start.
MeasureFails ==
  /\ readPhase = "open" /\ Fails("Size")
  /\ UNCHANGED <<fileVars, completed, pageVars>>

checked_kernel_size(size) == size \in 1..MAX_KERNEL_BYTES

measure_and_rewind(reported) ==
  /\ readPhase = "open"
  /\ position' = 0
  /\ IF checked_kernel_size(reported)
     THEN readPhase' = "allocate" /\ byte_len' = reported /\ UNCHANGED error
     ELSE Fails("Size") /\ UNCHANGED byte_len
  /\ UNCHANGED <<length, completed, pageVars>>

pages_for_bytes(bytes) == (bytes + UEFI_PAGE_SIZE - 1) \div UEFI_PAGE_SIZE

\* The bytes of the file's length are cleared, the rest of the last page is not.
ScratchAllocate ==
  /\ readPhase = "allocate"
  /\ \E stale \in {ZeroByte, -1} :
       memory' = [o \in 1..pages_for_bytes(byte_len) * UEFI_PAGE_SIZE |->
                    IF o <= byte_len THEN ZeroByte ELSE stale]
  /\ lease' = TRUE /\ held' = TRUE
  /\ readPhase' = "read"
  /\ UNCHANGED <<fileVars, completed, frees, error>>

AllocateFails ==
  /\ readPhase = "allocate" /\ Fails("Alloc")
  /\ UNCHANGED <<fileVars, completed, pageVars>>

remaining == byte_len - completed

\* After an error the pages are released explicitly, and the error of that
\* release replaces the first one.
Abandons(e) == readPhase' = "release" /\ error' = e

\* Faulty: a read of no bytes is tried again.
ReadsZeroAgain(bytes) ==
  /\ readPhase = "read" /\ remaining # 0
  /\ memory' = [o \in DOMAIN memory |->
                  IF o - 1 - completed \in 0..bytes - 1
                  THEN FileByte(position + o - 1 - completed) ELSE memory[o]]
  /\ position' = position + bytes
  /\ completed' = completed + bytes
  /\ UNCHANGED <<length, byte_len, lease, held, frees, readPhase, error>>

\* One turn of the read loop; a read of nothing leaves it.
Reads(bytes) ==
  /\ readPhase = "read" /\ remaining # 0
  /\ memory' = [o \in DOMAIN memory |->
                  IF o - 1 - completed \in 0..bytes - 1
                  THEN FileByte(position + o - 1 - completed) ELSE memory[o]]
  /\ position' = position + bytes
  /\ completed' = completed + bytes
  /\ IF bytes = 0 THEN Abandons("ShortRead") ELSE UNCHANGED <<readPhase, error>>
  /\ UNCHANGED <<length, byte_len, lease, held, frees>>

ReadFails ==
  /\ readPhase = "read" /\ Abandons("Read")
  /\ UNCHANGED <<fileVars, completed, pageVars>>

\* Faulty: the loop's end is taken for the end of the file.
ChecksNoEof(bytes) ==
  /\ readPhase = "read" /\ remaining = 0
  /\ readPhase' = "validate"
  /\ UNCHANGED <<fileVars, completed, pageVars, error>>

\* One byte more is asked for, into a buffer of its own.
ChecksEof(bytes) ==
  /\ readPhase = "read" /\ remaining = 0
  /\ position' = position + bytes
  /\ IF bytes = 0 THEN readPhase' = "validate" /\ UNCHANGED error ELSE Abandons("Size")
  /\ UNCHANGED <<length, byte_len, completed, pageVars>>

\* validate_bootstrap_image: KernelImage says when.
Validates(ok) ==
  /\ readPhase = "validate"
  /\ IF ok THEN readPhase' = "ready" /\ UNCHANGED error ELSE Abandons("Elf")
  /\ UNCHANGED <<fileVars, completed, pageVars>>

\* ScratchPages::release: lease and pointer are given up before the call, so
\* the Drop that follows finds nothing to free, even when the call failed.
Releases(ok, then) ==
  /\ lease
  /\ lease' = FALSE
  /\ held' = ~ok /\ frees' = frees + (IF ok THEN 1 ELSE 0)
  /\ readPhase' = then
  /\ error' = IF ok THEN error ELSE "Free"
  /\ UNCHANGED <<fileVars, completed, memory>>

finalize_with_release(ok) == readPhase = "release" /\ Releases(ok, "failed")

\* The caller copies the segments, then releases the image.
ValidatedKernelRelease(ok) == readPhase = "ready" /\ Releases(ok, "released")

ReadRest == readPhase \in {"failed", "released"} /\ UNCHANGED readVars

\* What a successful read of n bytes can return: at the end of the file
\* nothing, before it at least one byte and no more than there are.
Available(n) ==
  IF position = length THEN {0}
  ELSE 1..(IF n < length - position THEN n ELSE length - position)

Proceeds ==
  \/ \E reported \in 0..MaxLength : measure_and_rewind(reported)
  \/ ScratchAllocate
  \/ \E bytes \in Available(remaining) : Reads(bytes)
  \/ \E bytes \in Available(1) : ChecksEof(bytes)
  \/ \E ok \in BOOLEAN : Validates(ok)
  \/ \E ok \in BOOLEAN : finalize_with_release(ok)
  \/ \E ok \in BOOLEAN : ValidatedKernelRelease(ok)

ReadNext ==
  Proceeds \/ OpenFails \/ MeasureFails \/ AllocateFails \/ ReadFails \/ ReadRest

\* The loader is the only thing that runs and its calls return; that one of
\* them fails is never needed for the read to end.
ReadSpec == ReadInit /\ [][ReadNext]_readVars /\ WF_readVars(Proceeds)

-----------------------------------------------------------------------------
(* Properties.                                                               *)

\* An image that is handed on by load_and_validate holds every byte of the
\* file in its place and nothing else, even where the firmware misjudged the
\* file's length or returned it in pieces; when the loader is done the pages
\* have been freed exactly once, or the firmware refused and that is the error.
ReadImageIsTheFile ==
  /\ readPhase \in {"validate", "ready"} =>
       /\ byte_len = length
       /\ \A o \in 1..length : memory[o] = FileByte(o - 1)
  /\ frees <= 1
  /\ readPhase \in {"failed", "released"} => (held => error = "Free")

\* Once read_exact_and_check_eof is entered the loader gets to the end of the
\* read, whatever the firmware returns: a read of no bytes is an error and every
\* other one leaves less to read.
ReadEnds == readPhase = "read" ~> readPhase \in {"failed", "released"}
=============================================================================
