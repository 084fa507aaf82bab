------------------------------ MODULE BootMarkers ------------------------------
(***************************************************************************)
(* The loader as a test sees it: BootPipeline together with the milestones   *)
(* it writes to the serial port, the kernel's own checks after the jump      *)
(* (crates/kernel/src/main.rs), the code it leaves QEMU with, and the        *)
(* verdict TestContract draws from the two.                                  *)
(*                                                                         *)
(* Each operation of BootPipeline writes its milestones in order.  One that  *)
(* fails has written some of them; its error marker follows when main        *)
(* reports the error, after the destructors, or at once where boot services  *)
(* are gone.                                                                 *)
(***************************************************************************)
EXTENDS BootPipeline, SequencesExt

VARIABLES
  scenario,  \* the test this loader was built for
  printed,   \* markers on the serial port
  error,     \* marker of the error being returned
  code       \* what QEMU exits with; NoCode while it runs

Contract == INSTANCE TestContract

testVars == <<scenario, printed, error, code>>
allVars == <<vars, testVars>>

TestsOf(features) ==
  CASE features = "release" -> Contract!test_uefi
    [] features = "exit" -> Contract!test_exit_boot_services
    [] features = "handoff" -> Contract!test_kernel_handoff
    [] features = "table_failure" -> Contract!test_page_tables
    [] features = "cpu_failure" -> Contract!test_cpu_readiness

TestInit ==
  /\ Init
  /\ scenario \in ToSet(TestsOf(build))
  /\ printed = Contract!Entered
  /\ error = "none"
  /\ code = Contract!NoCode

-----------------------------------------------------------------------------
(* What each operation writes.                                               *)

LoadMilestones ==
  [load |-> <<"P1D:KERNEL_OPEN">>,
   read |-> <<"P1D:KERNEL_READ", "P1D:KERNEL_VALID", "P1D:PASS">>,
   plan |-> <<"P1E:PLAN_VALID">>, allocate |-> <<"P1E:SEGMENTS_ALLOCATED">>,
   zero |-> <<"P1E:SEGMENTS_ZEROED">>, copy |-> <<"P1E:SEGMENTS_COPIED">>,
   recheck |-> <<"P1E:LOAD_VERIFIED">>,
   metadata |-> <<"P1F:OWNERSHIP_READY", "P1F:METADATA_VALID">>,
   release_source |-> <<"P1F:SOURCE_RELEASED">>, probe |-> <<"P1F:OWNERSHIP_PROVEN">>,
   release_kernel |-> <<"P1E:MEMORY_RELEASED", "P1E:PASS", "P1F:MEMORY_RELEASED">>,
   release_probe |-> <<"P1F:RELEASE_PROVEN", "P1F:PASS">>]

TableMilestones ==
  [stack |-> <<"P1J:CPU_STATE_CAPTURED">>, plan_tables |-> <<"P1J:PLAN_ACCEPTED">>,
   tables |-> <<"P1J:FRAMES_ALLOCATED">>, materialize |-> <<"P1J:HIERARCHY_MATERIALIZED">>,
   verify_tables |-> <<"P1J:HIERARCHY_VERIFIED">>,
   cpu |-> <<"P1J:CPU_CAPABILITIES_VALIDATED">>,
   classify |-> <<"P1J:ACTIVATION_REQUIREMENTS_CLASSIFIED">>,
   cr3_first |-> <<"P1J:HIERARCHY_CPU_COMPATIBLE">>]

InfoMilestones ==
  [describe |-> <<"P1G:GOP_READY", "P1G:BUFFERS_READY">>, map |-> <<"P1G:MAP_CAPTURED">>,
   convert |-> <<"P1G:MAP_CONVERTED", "P1G:RESERVATIONS_VALID", "P1G:BOOTINFO_VALID",
                 "P1G:OWNERSHIP_READY">>,
   release_info |-> <<"P1G:MEMORY_RELEASED", "P1G:PASS">>]

ExitMilestones ==
  [final_map |-> <<"P1H:EXIT_READY">>, exit |-> <<"P1H:BOOT_SERVICES_EXITED">>,
   finalize |-> IF Handoff THEN <<"P1H:FINAL_MAP_CONVERTED", "P1J:FINAL_MAP_RESERVED">>
                ELSE <<"P1H:FINAL_MAP_CONVERTED", "P1H:BOOTINFO_FINAL",
                       "P1H:OWNERSHIP_TRANSFERRED", "P1H:PASS">>,
   cr3_third |-> <<"P1J:CR3_UNCHANGED", "P1H:BOOTINFO_FINAL",
                   "P1J:ACTIVATION_PREPARED_INACTIVE", "P1H:OWNERSHIP_TRANSFERRED",
                   "P1J:OWNERSHIP_TRANSFERRED", "P1H:PASS">>,
   jump |-> <<"P1I:HANDOFF_READY">>]

Milestones(at) ==
  CASE at \in DOMAIN LoadMilestones -> LoadMilestones[at]
    [] at \in DOMAIN TableMilestones -> TableMilestones[at]
    [] at \in DOMAIN InfoMilestones -> InfoMilestones[at]
    [] at \in DOMAIN ExitMilestones -> ExitMilestones[at]
    [] OTHER -> <<>>

\* How an operation may fail: the milestones already written, and the error's marker.
LoadErrors(at) ==
  CASE at = "load" -> {<<0, "P1D:FAIL:OPEN">>, <<1, "P1D:FAIL:SIZE">>, <<1, "P1D:FAIL:ALLOC">>}
    [] at = "read" -> {<<0, "P1D:FAIL:READ">>, <<0, "P1D:FAIL:SHORT_READ">>,
                       <<0, "P1D:FAIL:SIZE">>, <<1, "P1D:FAIL:ELF">>}
    [] OTHER -> {}

SegmentErrors(at) ==
  CASE at = "plan" -> {<<0, "P1E:FAIL:PLAN">>, <<0, "P1E:FAIL:SOURCE_OVERLAP">>}
    [] at = "allocate" -> {<<0, "P1E:FAIL:ALLOC">>}
    [] at = "zero" -> {<<0, "P1E:FAIL:ZERO">>}
    [] at = "copy" -> {<<0, "P1E:FAIL:COPY">>}
    [] at \in {"verify", "recheck"} -> {<<0, "P1E:FAIL:VERIFY">>}
    [] at = "metadata" -> {<<0, "P1F:FAIL:OWNERSHIP">>, <<1, "P1F:FAIL:METADATA">>}
    [] at = "release_source" -> {<<0, "P1F:FAIL:SOURCE_FREE">>}
    [] at = "probe" -> {<<0, "P1F:FAIL:METADATA">>, <<0, "P1F:FAIL:OWNERSHIP_PROBE">>}
    [] at = "release_kernel" -> {<<0, "P1F:FAIL:RELEASE">>}
    [] at = "release_probe" -> {<<0, "P1F:FAIL:RELEASE_PROBE">>}
    [] OTHER -> {}

TableErrors(at) ==
  CASE at = "plan_tables" -> {<<0, "P1J:FAIL:PLAN">>}
    [] at = "tables" -> {<<0, "P1J:FAIL:ALLOC">>}
    [] at = "materialize" -> {<<0, "P1J:FAIL:MATERIALIZE">>}
    [] at = "verify_tables" -> {<<0, "P1J:FAIL:VERIFY">>}
    [] OTHER -> {}

InfoErrors(at) ==
  CASE at \in {"cpu", "classify"} -> {<<0, "P1J:FAIL:CPU_POLICY">>}
    [] at \in {"cr3_first", "cr3_second", "cr3_third"} -> {<<0, "P1J:FAIL:CR3_STABILITY">>}
    [] at \in {"stack", "buffers"} -> {<<0, "P1G:FAIL:ALLOC">>}
    [] at = "describe" -> {<<0, "P1G:FAIL:GOP">>, <<0, "P1G:FAIL:FRAMEBUFFER">>,
                           <<1, "P1G:FAIL:ALLOC">>, <<1, "P1G:FAIL:RESERVATION">>}
    [] at \in {"map", "final_map"} -> {<<0, "P1G:FAIL:MAP">>}
    [] at = "convert" -> {<<0, "P1G:FAIL:CONVERT">>, <<0, "P1G:FAIL:RESERVATION">>,
                          <<1, "P1G:FAIL:RESERVATION">>, <<2, "P1G:FAIL:BOOTINFO">>,
                          <<3, "P1G:FAIL:BOOTINFO">>}
    [] at = "release_info" -> {<<0, "P1G:FAIL:FREE">>}
    [] at = "confirm" -> {<<0, "P1J:FAIL:RESERVATION">>}
    [] at \in {"ready", "watchdog"} -> {<<0, "P1G:FAIL:BOOTINFO">>}
    [] OTHER -> {}

\* After the boundary there is no error value: the marker is written at once.
ExitErrors(at) ==
  CASE at = "exit" -> {<<0, IF phase' = "map_failed" THEN "P1H:FAIL:FINAL_MAP"
                            ELSE "P1H:FAIL:EXIT">>}
    [] at = "finalize" ->
         {<<0, "P1H:FAIL:FINAL_MAP">>}
           \cup (IF Handoff THEN {<<1, "P1J:FAIL:RESERVATION">>, <<2, "P1H:FAIL:BOOTINFO">>}
                 ELSE {<<1, "P1H:FAIL:BOOTINFO">>})
    [] at = "jump" -> {<<0, "P1I:FAIL:STACK">>, <<0, "P1I:FAIL:HANDOFF">>}
    [] OTHER -> {}

Errors(at) ==
  UNION {LoadErrors(at), SegmentErrors(at), TableErrors(at), InfoErrors(at), ExitErrors(at)}

RollbackMarker == [table_rollback |-> "P1J:ROLLBACK_COMPLETE",
                   cpu_rollback |-> "P1J:CPU_ROLLBACK_COMPLETE"]

-----------------------------------------------------------------------------
(* Steps of BootPipeline with their output.  What a step was is read off pc.  *)

Writes(markers_) == printed' = printed \o markers_

\* The fixtures of test_uefi: no kernel, a wrong ELF magic, a segment outside the
\* load window.
FixtureAllows(marker) ==
  CASE pc = "load" /\ scenario.fixture = "none" -> marker = "P1D:FAIL:OPEN"
    [] pc = "read" /\ scenario.fixture = "corrupt" -> marker # "none"
    [] pc = "plan" /\ scenario.fixture = "policy" -> marker # "none"
    [] OTHER -> TRUE

\* The operation is complete, or is repeated and has nothing to report yet.
Proceeds ==
  /\ pc # "unwind"
  /\ pc' \notin {"unwind", "halted"} \/ result' = "Ok"
  /\ pc' # pc => FixtureAllows("none")
  /\ Writes(IF pc' = pc THEN <<>> ELSE Milestones(pc))
  /\ code' = IF pc' = "passed" THEN Contract!QEMU_SUCCESS_EXIT_CODE ELSE code
  /\ UNCHANGED <<scenario, error>>

\* It fails while boot services are there: main will report the error.
Fails ==
  /\ pc # "unwind" /\ pc' = "unwind" /\ result' # "Ok"
  /\ \E e \in Errors(pc) :
       /\ FixtureAllows(e[2])
       /\ Writes(SubSeq(Milestones(pc), 1, e[1]))
       /\ error' = e[2]
  /\ UNCHANGED <<scenario, code>>

\* post_exit_failure and jump_to_kernel report the error and leave at once.
Halts ==
  /\ pc' = "halted" /\ pc # "halted"
  /\ \E e \in Errors(pc) : Writes(Append(SubSeq(Milestones(pc), 1, e[1]), e[2]))
  /\ code' = Contract!QEMU_FAILURE_EXIT_CODE
  /\ UNCHANGED <<scenario, error>>

Unwinds ==
  /\ pc = "unwind" /\ pc' = "unwind"
  /\ Writes(IF markers' = markers THEN <<>>
            ELSE <<RollbackMarker[CHOOSE m \in Markers : m \in markers' \ markers]>>)
  /\ UNCHANGED <<scenario, error, code>>

\* main writes the error's marker; a refused free has replaced the error.
main ==
  /\ pc = "unwind" /\ pc' = "returned"
  /\ Writes(CASE result = "Ok" -> <<>>
              [] result = "Free" -> <<"FAIL:FREE">>
              [] OTHER -> <<error>>)
  /\ code' = IF result = "Ok" THEN Contract!QEMU_SUCCESS_EXIT_CODE
             ELSE Contract!QEMU_FAILURE_EXIT_CODE
  /\ UNCHANGED <<scenario, error>>

\* kernel_bootstrap: each check is followed by its milestone, or by FAIL.
kernel_bootstrap ==
  LET checks == <<"P1I:STACK_OK", "P1I:BOOTINFO_OK", "P1I:MEMORY_MAP_OK">> IN
  /\ pc = "kernel" /\ code = Contract!NoCode
  /\ \E passed \in 0..Len(checks) :
       LET start == <<"P1I:KERNEL_ENTRY">> \o SubSeq(checks, 1, passed) IN
       IF passed = Len(checks)
       THEN Writes(Append(start, "P1I:PASS")) /\ code' = Contract!QEMU_SUCCESS_EXIT_CODE
       ELSE Writes(Append(start, "P1I:FAIL")) /\ code' = Contract!QEMU_FAILURE_EXIT_CODE
  /\ UNCHANGED <<vars, scenario, error>>

Over == code # Contract!NoCode /\ UNCHANGED allVars

Reports == Proceeds \/ Fails \/ Halts \/ Unwinds \/ main

Runs == Loader /\ Reports

TestNext ==
  \/ Runs
  \/ (FirmwareChangesMap \/ FirmwareChangesCr3) /\ Reports
  \/ kernel_bootstrap
  \/ Over

\* As in BootPipeline: the loader is the only thread.
TestSpec == TestInit /\ [][TestNext]_allVars /\ WF_allVars(Runs)

-----------------------------------------------------------------------------
(* Property.                                                                 *)

verdict ==
  Contract!Verdict(Contract!Exited(code), Contract!Printed(printed), scenario)

HandedOver(owners) ==
  /\ handed = {p \in Pages : p[1] \in owners /\ p[2] # 0}
  /\ live = handed

\* The run did what its test is there to show.
Intended ==
  CASE scenario.fixture = "none" -> result = "Open" /\ live = {}
    [] scenario.fixture = "corrupt" -> error = "P1D:FAIL:ELF" /\ result = "Read" /\ live = {}
    [] scenario.fixture = "policy" -> error = "P1E:FAIL:PLAN" /\ result = "Plan" /\ live = {}
    [] build = "release" -> result = "Ok" /\ live = {}
    [] build = "exit" -> pc = "passed" /\ HandedOver({"kernel", "buffers"})
    [] build = "handoff" ->
         /\ code = Contract!QEMU_SUCCESS_EXIT_CODE
         /\ pc = "kernel" /\ cr3 = token
         /\ HandedOver({"kernel", "stack", "tables", "buffers"})
    [] build = "table_failure" ->
         /\ result = "PageTable" /\ error = "P1J:FAIL:ALLOC"
         /\ "table_rollback" \in markers /\ live \cap ({"tables"} \X Nat) = {}
    [] build = "cpu_failure" ->
         result = "CpuPolicy" /\ "cpu_rollback" \in markers /\ live = {}

\* A QEMU test passes exactly when the run did what the test is there to show: the
\* milestones and exit codes of xtask (uefi.rs) are those the loader and the kernel
\* write on that path and on no other, and on that path every page is released, or
\* handed over complete, whichever firmware calls failed or were refused on the way.
VerdictIsRight == code # Contract!NoCode => (verdict = "Ok" <=> Intended)
=============================================================================
