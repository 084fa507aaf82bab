----------------------------- MODULE BootPipeline -----------------------------
(***************************************************************************)
(* One run of the loader, from main to the kernel's entry point or to the  *)
(* error it returns (crates/bootloader/src/main.rs, kernel_loader.rs,      *)
(* segment_loader.rs, boot_info_loader.rs, page_table_loader.rs).          *)
(*                                                                         *)
(* Five owners hold firmware pages: the ELF source buffer, the kernel      *)
(* segments, the bootstrap stack, the page-table frames and the boot-       *)
(* information buffers.  Every error path releases the owners alive at that *)
(* point, some by an explicit try_release, all by their Drop, in the order  *)
(* in which Rust drops locals, fields and parameters.  Such a path is the   *)
(* sequence todo of what is still to be done.  A check whose data are not   *)
(* modelled may succeed or fail.                                            *)
(***************************************************************************)
EXTENDS Naturals, Sequences, FiniteSets, FiniteSetsExt

CONSTANTS
  Builds,      \* feature sets of the loader that are considered
  Segments,    \* number of PT_LOAD segments
  Frames,      \* number of planned page tables
  Cr3Values,   \* values CR3 may have
  MaxChanges,  \* bound on the firmware's own memory-map changes
  NoMap

\* "release" has no exit feature, "exit" is exit-boot-services-test, the others
\* are kernel-handoff-test, alone or with an injected failure.
ASSUME BootPipelineAssumption ==
  /\ Builds \subseteq {"release", "exit", "handoff", "table_failure", "cpu_failure"}
  /\ Segments \in Nat \ {0}
  /\ Frames \in Nat \ {0}

\* Number of allocations of each owner (PendingBuffers has four).
Pieces == [source |-> 1, kernel |-> Segments, stack |-> 1,
           tables |-> Frames, buffers |-> 4]

Owners == DOMAIN Pieces

\* <<"kernel", 0>> is a target allocation at a wrong address.
Pages == UNION {{o} \X (0..Pieces[o]) : o \in Owners}

VARIABLES
  build,    \* the features this loader was built with
  pc,       \* the operation the loader executes next
  held,     \* the pieces each owner records as owned
  handed,   \* pages in TransferredBootState
  live,     \* firmware: pages allocated to the loader
  refused,  \* firmware: pages whose last free was refused
  faults,   \* frees of a page that was not allocated
  todo,     \* rest of the error path
  clean,    \* explicit releases of the error path all succeeded
  result,   \* error of load_verify_and_release, or Ok
  markers,  \* rollback markers written to the serial port
  cr3,      \* the register
  token     \* Cr3StabilityToken

VARIABLES phase, version, raw, final_map, calls, attempts, answers, lastCall

boundary == <<phase, version, raw, final_map, calls, attempts, answers, lastCall>>
pages == <<held, handed, live, refused, faults>>
control == <<todo, clean, result, markers>>
cpu == <<cr3, token>>
vars == <<build, pc, pages, control, cpu, boundary>>

Exit == INSTANCE ExitBoundary

Handoff == build \in {"handoff", "table_failure", "cpu_failure"}

Init ==
  /\ build \in Builds
  /\ pc = "load"
  /\ held = [o \in Owners |-> {}]
  /\ handed = {}
  /\ live = {}
  /\ refused = {}
  /\ faults = {}
  /\ todo = <<>>
  /\ clean = TRUE
  /\ result = "none"
  /\ markers = {}
  /\ cr3 \in Cr3Values
  /\ token = cr3
  /\ Exit!Init

-----------------------------------------------------------------------------
(* Firmware calls and error paths.                                         *)

OtherCall == lastCall' = "other" /\ UNCHANGED <<phase, version, raw, final_map,
                                                calls, attempts, answers>>

Allocate(page) ==
  /\ live' = live \cup {page}
  /\ OtherCall
  /\ UNCHANGED <<handed, refused, faults>>

Acquire(o, i) ==
  /\ Allocate(<<o, i>>)
  /\ held' = [held EXCEPT ![o] = @ \cup {i}]

\* FreePages for each page of accepted and denied, and the answers it gave.
GiveBack(accepted, denied) ==
  /\ live' = live \ accepted
  /\ refused' = (refused \ accepted) \cup denied
  /\ faults' = faults \cup ((accepted \cup denied) \ live)
  /\ IF accepted \cup denied = {} THEN UNCHANGED boundary ELSE OtherCall
  /\ UNCHANGED handed

\* What try_release may free: pieces are tried from the last one down, and
\* the first refusal ends it.
TryOutcomes(o) ==
  {held[o]} \cup {{i \in held[o] : i > k} : k \in held[o]}

\* Faulty: the pieces given back stay marked as owned.
TryReleaseKeepsFlags(o, freed) ==
  LET kept == held[o] \ freed IN
  /\ freed \in TryOutcomes(o)
  /\ GiveBack({o} \X freed, IF kept = {} THEN {} ELSE {<<o, Max(kept)>>})
  /\ UNCHANGED held

TryRelease(o, freed) ==
  LET kept == held[o] \ freed IN
  /\ freed \in TryOutcomes(o)
  /\ GiveBack({o} \X freed, IF kept = {} THEN {} ELSE {<<o, Max(kept)>>})
  /\ held' = [held EXCEPT ![o] = kept]

\* Drop tries every piece once; a refused one is lost with its owner.
DropOwner(o, freed) ==
  /\ freed \in SUBSET held[o]
  /\ GiveBack({o} \X freed, {o} \X (held[o] \ freed))
  /\ held' = [held EXCEPT ![o] = {}]

Goto(next) == pc' = next /\ UNCHANGED <<build, control>>

Fail(error, path) ==
  /\ pc' = "unwind"
  /\ result' = error
  /\ todo' = path
  /\ clean' = TRUE
  /\ UNCHANGED <<build, markers>>

\* A step that touches no page: it goes on or starts an error path.
Check(here, ok, next, error, path) ==
  /\ pc = here
  /\ IF ok THEN Goto(next) ELSE Fail(error, path)
  /\ UNCHANGED <<pages, cpu>>

Drops(owners) == [i \in DOMAIN owners |-> <<"drop", owners[i]>>]

-----------------------------------------------------------------------------
(* kernel_loader::load_and_validate                                        *)

\* Open, measure, ScratchPages::allocate.
OpenKernel(ok) ==
  /\ pc = "load"
  /\ IF ok THEN Acquire("source", 1) /\ Goto("read")
     ELSE Fail("Open", <<>>) /\ OtherCall /\ UNCHANGED pages
  /\ UNCHANGED cpu

\* ScratchPages::release gives up its lease before the call; a refused free
\* replaces the error that caused it.
SourceReleased == <<<<"once", "source">>, <<"report", "Free">>>>

ReadKernel(ok) ==
  Check("read", ok, "plan", "Read", SourceReleased) /\ OtherCall

-----------------------------------------------------------------------------
(* segment_loader::load_verify_and_release                                 *)

PlanTargets(ok) ==
  Check("plan", ok, "allocate", "Plan", SourceReleased) /\ UNCHANGED boundary

\* LoadWorkFailure: explicit release of the targets and of the source, then
\* the Drop of the failure's owner.
TargetFailure ==
  <<<<"try", "kernel">>, <<"once", "source">>, <<"report", "Free">>,
    <<"drop", "kernel">>>>

NextSegment == Cardinality(held.kernel) + 1

AllocateTarget ==
  /\ pc = "allocate"
  /\ Acquire("kernel", NextSegment)
  /\ Goto(IF NextSegment = Segments THEN "zero" ELSE "allocate")
  /\ UNCHANGED cpu

AllocateTargetFails ==
  /\ pc = "allocate"
  /\ Fail("Alloc", TargetFailure)
  /\ OtherCall
  /\ UNCHANGED <<pages, cpu>>

\* A page is allocated and given back at once; a refused free leaves it.
TakeAndReturn(page, freed) ==
  /\ live' = IF freed THEN live ELSE live \cup {page}
  /\ refused' = IF freed THEN refused ELSE refused \cup {page}
  /\ OtherCall
  /\ UNCHANGED <<held, handed, faults>>

\* Faulty: the refused free is reported as an allocation error.
AllocateTargetMismatchHidden(freed) ==
  /\ pc = "allocate"
  /\ TakeAndReturn(<<"kernel", 0>>, freed)
  /\ Fail("Alloc", TargetFailure)
  /\ UNCHANGED cpu

\* UefiTargetBackend::allocate_at gives back an allocation at another address
\* at once; map_work_error turns a refused free into Free.
AllocateTargetMismatch(freed) ==
  /\ pc = "allocate"
  /\ TakeAndReturn(<<"kernel", 0>>, freed)
  /\ Fail(IF freed THEN "Alloc" ELSE "Free", TargetFailure)
  /\ UNCHANGED cpu

ZeroTargets(ok) ==
  Check("zero", ok, "copy", "Zero", TargetFailure) /\ UNCHANGED boundary

CopyTargets(ok) ==
  Check("copy", ok, "verify", "Copy", TargetFailure) /\ UNCHANGED boundary

VerifyTargets(ok) ==
  Check("verify", ok, "recheck", "Verify", TargetFailure) /\ UNCHANGED boundary

\* The source must still be what was loaded.
RecheckSource(ok) ==
  Check("recheck", ok, "metadata", "Verify", TargetFailure) /\ UNCHANGED boundary

\* into_loaded_kernel and metadata_matches_plan; the early return drops loaded,
\* then the parameter kernel.
MatchMetadata(ok) ==
  /\ Check("metadata", ok /\ held.kernel # {}, "release_source", "Metadata",
           Drops(<<"kernel", "source">>))
  /\ UNCHANGED boundary

ReleaseSource(ok) ==
  /\ pc = "release_source"
  /\ DropOwner("source", IF ok THEN held.source ELSE {})
  /\ IF ok THEN Goto("probe")
     ELSE Fail("SourceFree", <<<<"try", "kernel">>, <<"drop", "kernel">>>>)
  /\ UNCHANGED cpu

\* reference_metadata_matches and prove_page_owned of the qemu-test build: the
\* firmware must not give out the first page of the kernel again.
ProbeOwnership(ok) ==
  /\ Check("probe", ok /\ <<"kernel", 1>> \in live,
           IF Handoff THEN "stack" ELSE "buffers", "OwnershipProbe",
           Drops(<<"kernel">>))
  /\ OtherCall

-----------------------------------------------------------------------------
(* boot_info_loader::prepare_and_exit: stack, page tables, CPU             *)

\* allocate_bootstrap_stack followed by cpu_probe::capture.
AllocateStack ==
  /\ pc = "stack"
  /\ Acquire("stack", 1)
  /\ Goto("plan_tables")
  /\ token' = cr3
  /\ UNCHANGED cr3

AllocateStackFails ==
  pc = "stack" /\ Fail("StackAlloc", Drops(<<"kernel">>)) /\ OtherCall
    /\ UNCHANGED <<pages, cpu>>

\* BootstrapStack::from_initialized frees a misplaced stack and ignores the
\* answer.
RejectStack(freed) ==
  /\ pc = "stack"
  /\ TakeAndReturn(<<"stack", 1>>, freed)
  /\ Fail("StackAlloc", Drops(<<"kernel">>))
  /\ UNCHANGED cpu

HierarchyDropped == Drops(<<"tables", "stack", "kernel">>)

PlanTables(ok) ==
  Check("plan_tables", ok, "tables", "PageTable", Drops(<<"stack", "kernel">>))
    /\ UNCHANGED boundary

\* PageTableFrameOwner::allocate rolls back explicitly; the error is dropped
\* when construct_inactive has looked at remaining_frames.
RollbackTables ==
  <<<<"try", "tables">>>>
    \o (IF build = "table_failure" THEN <<<<"marker", "table_rollback">>>> ELSE <<>>)
    \o HierarchyDropped

NextFrame == Cardinality(held.tables) + 1

\* The third allocation fails in the table_failure build.
AllocateFrame ==
  /\ pc = "tables"
  /\ ~(build = "table_failure" /\ NextFrame = 3)
  /\ Acquire("tables", NextFrame)
  /\ Goto(IF NextFrame = Frames THEN "materialize" ELSE "tables")
  /\ UNCHANGED cpu

AllocateFrameFails ==
  pc = "tables" /\ Fail("PageTable", RollbackTables) /\ OtherCall
    /\ UNCHANGED <<pages, cpu>>

MaterializeTables(ok) ==
  Check("materialize", ok, "verify_tables", "PageTable", HierarchyDropped)
    /\ UNCHANGED boundary

VerifyTables(ok) ==
  Check("verify_tables", ok, "cpu", "PageTable", HierarchyDropped)
    /\ UNCHANGED boundary

\* Faulty: the kernel's release is left out of the rollback that is reported.
CpuFailureKeepsKernel ==
  <<<<"try", "tables">>, <<"try", "stack">>, <<"marker", "cpu_rollback">>>>
    \o HierarchyDropped

\* RawCpuSnapshot::validate; cpu-readiness-failure-test makes it fail and then
\* releases every owner explicitly.
CpuFailure ==
  <<<<"try", "tables">>, <<"try", "stack">>, <<"try", "kernel">>,
    <<"marker", "cpu_rollback">>>> \o HierarchyDropped

ValidateCpu(ok) ==
  /\ Check("cpu", ok /\ build # "cpu_failure", "classify", "CpuPolicy",
           IF build = "cpu_failure" THEN CpuFailure ELSE HierarchyDropped)
  /\ UNCHANGED boundary

\* classify_for_hierarchy and prepare_activation.
ClassifyHierarchy(ok) ==
  Check("classify", ok, "cr3_first", "CpuPolicy", HierarchyDropped)
    /\ UNCHANGED boundary

CheckCr3First ==
  Check("cr3_first", cr3 = token, "buffers", "Cr3Stability", HierarchyDropped)
    /\ UNCHANGED boundary

-----------------------------------------------------------------------------
(* boot_info_loader::prepare                                               *)

\* Drop of PendingBuffers: try_release, then one more pass over what is left.
PendingDropped ==
  <<<<"try", "buffers">>, <<"drop", "buffers">>>> \o HierarchyDropped

NextBuffer == Cardinality(held.buffers) + 1

AllocateBuffer ==
  /\ pc = "buffers"
  /\ Acquire("buffers", NextBuffer)
  /\ Goto(IF NextBuffer = Pieces.buffers THEN "describe" ELSE "buffers")
  /\ UNCHANGED cpu

AllocateBufferFails ==
  pc = "buffers" /\ Fail("BufferAlloc", PendingDropped) /\ OtherCall
    /\ UNCHANGED <<pages, cpu>>

\* Framebuffer and reservation list.
DescribeMemory(ok) ==
  Check("describe", ok, "map", "Gop", PendingDropped) /\ OtherCall

CaptureMap(status) ==
  /\ pc = "map"
  /\ Exit!CaptureProvisional(status)
  /\ CASE phase' = "prepared" -> Goto("convert")
       [] phase' = "rolled_back" -> Fail("Map", PendingDropped)
       [] OTHER -> Goto("map")
  /\ UNCHANGED <<pages, cpu>>

\* Conversion, reservations, boot information; on success the buffers move
\* from PendingBuffers into PreparedBootInfo, whose checks repeat those
\* already made.
ConvertMap(ok) ==
  /\ Check("convert", ok,
           CASE build = "release" -> "release_info"
             [] build = "exit" -> "ready"
             [] OTHER -> "confirm", "Convert", PendingDropped)
  /\ UNCHANGED boundary

\* prepare_validate_and_release and the end of load_verify_and_release.
ReleaseInfo(freed) ==
  /\ pc = "release_info"
  /\ TryRelease("buffers", freed)
  /\ IF freed = held.buffers THEN Goto("release_kernel")
     ELSE Fail("InfoFree", Drops(<<"buffers", "kernel">>))
  /\ UNCHANGED cpu

ReleaseKernel(freed) ==
  /\ pc = "release_kernel"
  /\ TryRelease("kernel", freed)
  /\ IF freed = held.kernel THEN Goto("release_probe")
     ELSE Fail("Release", Drops(<<"kernel">>))
  /\ UNCHANGED cpu

\* prove_page_released takes the first page once more and gives it back.  It
\* fails when the page is not available or cannot be freed again.
ProbeRelease(ok, freed) ==
  /\ pc = "release_probe"
  /\ TakeAndReturn(<<"kernel", 1>>, freed)
  /\ Fail(IF ok /\ freed THEN "Ok" ELSE "ReleaseProbe", Drops(<<"kernel">>))
  /\ UNCHANGED cpu

-----------------------------------------------------------------------------
(* boot_info_loader::prepare_and_exit: towards the boundary                *)

\* page_tables is declared last and dropped first.
AllDropped == Drops(<<"tables", "buffers", "stack", "kernel">>)

ConfirmReservation(ok) ==
  Check("confirm", ok, "cr3_second", "Reserve", AllDropped) /\ UNCHANGED boundary

CheckCr3Second ==
  Check("cr3_second", cr3 = token, "ready", "Cr3Stability", AllDropped)
    /\ UNCHANGED boundary

\* with_kernel, with_boot_information, with_bootstrap_stack_and_page_tables.
BuildExitReady ==
  /\ Check("ready",
           /\ held.kernel # {}
           /\ held.buffers # {}
           /\ Handoff => held.stack # {} /\ held.tables = 1..Frames,
           "watchdog", "BootInfo", AllDropped)
  /\ UNCHANGED boundary

\* The fields of ExitReady, then the stack, then the page tables.
ReadyDropped == Drops(<<"kernel", "buffers", "stack", "tables">>)

DisableWatchdog(ok) ==
  /\ Check("watchdog", ok, "final_map", "BootInfo", ReadyDropped)
  /\ Exit!FinishPreparation(ok)

CaptureFinalMap(status) ==
  /\ pc = "final_map"
  /\ Exit!CaptureFinal(status)
  /\ CASE phase' = "exit" -> Goto("cross")
       [] phase' = "rolled_back" -> Fail("Map", ReadyDropped)
       [] OTHER -> Goto("final_map")
  /\ UNCHANGED <<pages, cpu>>

HeldPages == UNION {{o} \X held[o] : o \in Owners}

Disarm ==
  /\ pc = "cross"
  /\ handed' = HeldPages
  /\ held' = [o \in Owners |-> {}]
  /\ Goto("exit")
  /\ UNCHANGED <<refused, faults, cpu>>

\* Faulty: the stack is transferred without ManuallyDrop.
CrossExitBoundaryDropsStack ==
  Disarm /\ live' = live \ ({"stack"} \X held.stack) /\ UNCHANGED boundary

\* Faulty: the marker is written through the firmware's console.
CrossExitBoundaryCalls == Disarm /\ OtherCall /\ UNCHANGED live

\* cross_exit_boundary: every owner is disarmed and only metadata remain.
CrossExitBoundary == Disarm /\ UNCHANGED <<live, boundary>>

\* post_exit_failure never returns: no destructor runs.
Halt(error) ==
  /\ pc' = "halted"
  /\ result' = error
  /\ UNCHANGED <<build, todo, clean, markers>>

AttemptExit(status) ==
  /\ pc = "exit"
  /\ Exit!ExitBootServices(status) \/ Exit!ExitBootServicesAgain(status)
  /\ CASE phase' = "exited" -> Goto("finalize")
       [] phase' = "exit_failed" -> Halt("Exit")
       [] OTHER -> Goto("exit")
  /\ UNCHANGED <<pages, cpu>>

CaptureAgain(status) ==
  /\ pc = "exit"
  /\ Exit!CaptureAgain(status)
  /\ IF phase' = "map_failed" THEN Halt("FinalMap") ELSE Goto("exit")
  /\ UNCHANGED <<pages, cpu>>

\* finalize_post_exit up to PostExitState.
Finalize(ok) ==
  /\ pc = "finalize"
  /\ IF ok THEN Goto(IF Handoff THEN "cr3_third" ELSE "passed") ELSE Halt("FinalMap")
  /\ UNCHANGED <<pages, cpu, boundary>>

\* Faulty: CR3 is not read again after the exit.
CheckCr3ThirdMissing ==
  pc = "cr3_third" /\ Goto("jump") /\ UNCHANGED <<pages, cpu, boundary>>

CheckCr3Third ==
  /\ pc = "cr3_third"
  /\ IF cr3 = token THEN Goto("jump") ELSE Halt("Cr3Stability")
  /\ UNCHANGED <<pages, cpu, boundary>>

\* Stack canary, validate_handoff_arguments, jump_to_kernel.
JumpToKernel(ok) ==
  /\ pc = "jump"
  /\ IF ok THEN Goto("kernel") ELSE Halt("Handoff")
  /\ UNCHANGED <<pages, cpu, boundary>>

-----------------------------------------------------------------------------
(* Error paths.                                                            *)

Markers == {"table_rollback", "cpu_rollback"}

Doing(mode, argument) ==
  pc = "unwind" /\ todo # <<>> /\ Head(todo) = <<mode, argument>>

Pop == todo' = Tail(todo) /\ UNCHANGED <<build, pc, cpu>>

UnwindTry(o, freed) ==
  /\ Doing("try", o)
  /\ TryRelease(o, freed)
  /\ clean' = (clean /\ freed = held[o])
  /\ Pop
  /\ UNCHANGED <<result, markers>>

UnwindOnce(o, freed) ==
  /\ Doing("once", o)
  /\ DropOwner(o, freed)
  /\ clean' = (clean /\ freed = held[o])
  /\ Pop
  /\ UNCHANGED <<result, markers>>

UnwindDrop(o, freed) ==
  Doing("drop", o) /\ DropOwner(o, freed) /\ Pop /\ UNCHANGED <<clean, result, markers>>

Report(error) ==
  /\ Doing("report", error)
  /\ result' = IF clean THEN result ELSE error
  /\ Pop
  /\ UNCHANGED <<clean, markers, pages, boundary>>

WriteRollbackMarker(marker) ==
  /\ Doing("marker", marker)
  /\ markers' = IF clean THEN markers \cup {marker} ELSE markers
  /\ Pop
  /\ UNCHANGED <<clean, result, pages, boundary>>

Return ==
  /\ pc = "unwind"
  /\ todo = <<>>
  /\ Goto("returned")
  /\ UNCHANGED <<pages, cpu, boundary>>

-----------------------------------------------------------------------------
(* The firmware acts on its own while boot services are active.  On an     *)
(* error path neither the map nor CR3 is looked at any more.               *)

Ended == {"returned", "halted", "passed", "kernel"}

Watching == Exit!Active /\ pc \notin Ended \cup {"unwind"}

FirmwareChangesMap ==
  /\ Watching
  /\ raw # NoMap
  /\ Exit!FirmwareChangesMap
  /\ UNCHANGED <<build, pc, pages, control, cpu>>

FirmwareChangesCr3 ==
  /\ Watching
  /\ Handoff
  /\ cr3' \in Cr3Values \ {cr3}
  /\ UNCHANGED <<build, pc, pages, control, token, boundary>>

Terminated == pc \in Ended /\ UNCHANGED vars

-----------------------------------------------------------------------------
Checks(ok) ==
  \/ OpenKernel(ok) \/ ReadKernel(ok) \/ PlanTargets(ok)
  \/ ZeroTargets(ok) \/ CopyTargets(ok) \/ VerifyTargets(ok)
  \/ RecheckSource(ok) \/ MatchMetadata(ok) \/ ProbeOwnership(ok)
  \/ PlanTables(ok) \/ MaterializeTables(ok) \/ VerifyTables(ok)
  \/ ValidateCpu(ok) \/ ClassifyHierarchy(ok) \/ DescribeMemory(ok)
  \/ ConvertMap(ok) \/ ConfirmReservation(ok) \/ DisableWatchdog(ok)
  \/ Finalize(ok) \/ JumpToKernel(ok)

Releases ==
  \/ \E ok \in BOOLEAN :
       AllocateTargetMismatch(ok) \/ ReleaseSource(ok) \/ RejectStack(ok)
  \/ \E freed \in SUBSET held.buffers : ReleaseInfo(freed)
  \/ \E freed \in SUBSET held.kernel : ReleaseKernel(freed)
  \/ \E ok, freed \in BOOLEAN : ProbeRelease(ok, freed)

Unwind ==
  \/ \E o \in Owners : \E freed \in SUBSET held[o] :
       UnwindTry(o, freed) \/ UnwindOnce(o, freed) \/ UnwindDrop(o, freed)
  \/ Report("Free") \/ Return
  \/ \E marker \in Markers : WriteRollbackMarker(marker)

Loader ==
  \/ \E ok \in BOOLEAN : Checks(ok)
  \/ AllocateTarget \/ AllocateTargetFails \/ AllocateStack \/ AllocateStackFails
  \/ AllocateFrame \/ AllocateFrameFails \/ AllocateBuffer \/ AllocateBufferFails
  \/ CheckCr3First \/ CheckCr3Second \/ CheckCr3Third
  \/ \E status \in Exit!MapStatus :
       CaptureMap(status) \/ CaptureFinalMap(status) \/ CaptureAgain(status)
  \/ BuildExitReady \/ CrossExitBoundary
  \/ \E status \in Exit!ExitAnswers : AttemptExit(status)
  \/ Releases \/ Unwind

Next == Loader \/ FirmwareChangesMap \/ FirmwareChangesCr3 \/ Terminated

Spec == Init /\ [][Next]_vars

\* The loader is the only thread that runs; the firmware's events need not
\* happen.
FairSpec == Spec /\ WF_vars(Loader)
-----------------------------------------------------------------------------
(* Properties.                                                             *)

\* No error path of the loader frees a page twice or a page it does not own,
\* whichever frees the firmware refuses on the way.
FreesOnlyHeldPages == faults = {}

\* When load_verify_and_release has returned, the only pages the loader still
\* has are those whose free the firmware refused.
NoSilentLeak == pc = "returned" => live \subseteq refused

\* Every page of every owner is accounted for when the loader gives up: freed
\* once, or kept because the firmware refused to take it.
PagesAreAccountedFor == FreesOnlyHeldPages /\ NoSilentLeak

\* Success, and every error that is returned in place of Free after an explicit
\* release of the targets and the source, means that no page is left.
ResultIsTruthful ==
  /\ pc = "returned"
  /\ result \in {"Ok", "Open", "Read", "Plan", "Alloc", "Zero", "Copy", "Verify"}
  => live = {}

\* The rollback markers that the failure-injection scenarios wait for are only
\* written when the rollback they announce is complete.
RollbackMarkersTruthful ==
  /\ "cpu_rollback" \in markers => live = {}
  /\ "table_rollback" \in markers => live \cap ({"tables"} \X Nat) = {}

\* What the loader reports, as its result and as rollback markers, is true of
\* the pages it still holds.
ReportsAreTruthful == ResultIsTruthful /\ RollbackMarkersTruthful

\* The kernel is entered with every owner complete and handed over: all
\* segments, the stack, all page tables and the four buffers are allocated and
\* described in TransferredBootState, the source buffer is gone, and CR3 is the
\* one the CPU policy was decided for, although the firmware may change it
\* until boot services end.
HandoffIsComplete ==
  pc = "kernel" =>
    /\ handed = {p \in Pages : p[1] # "source" /\ p[2] # 0}
    /\ live = handed
    /\ cr3 = token

\* From the moment ownership is disarmed no page goes back to the firmware.
NothingFreedAfterBoundary == [][handed' # {} => live' = live]_vars

\* The whole loader keeps to the exit protocol of ExitBoundary: no page is
\* allocated or freed, and no other boot service is called, between the
\* capture that gives a key and the exit call that uses it.
ImplementsBoundary == Exit!Spec

\* ExitBoundary's promises hold of the whole loader: after the exit the bytes that
\* finalize_post_exit converts, and their metadata, are the map of that moment.
FinalMapIsCurrent == Exit!FinalMapIsCurrent

\* ExitBootServices is called with nothing but the key of the capture before it,
\* and no release or marker of the loader comes between the two.
KeyIsFresh == Exit!KeyIsFresh

\* Among all its error paths the loader gives up the exit itself only when the
\* firmware failed otherwise or invalidated two keys (ExitRetryPolicy).
GivesUpOnlyWhenRefused == Exit!GivesUpOnlyWhenRefused

\* The loader always comes to an end: it returns, halts or enters the kernel.
BootEnds == <>(pc \in Ended)

\* "A PreparedBootInfo release-e megelozi a kernelszegmensek release-et"
\* (docs/adr/0008-loaded-kernel-ownership.md:28): no kernel segment is given
\* back while boot-information buffers are held.
BootInfoReleasedFirst ==
  [][live \cap ({"kernel"} \X Nat) \subseteq live' \/ held.buffers = {}]_vars
=============================================================================
