----------------------------- MODULE TestContract -----------------------------
(***************************************************************************)
(* How xtask judges a run of the loader in QEMU (crates/xtask/src/uefi.rs): *)
(* validate_markers compares the serial log with the milestones a scenario  *)
(* asks for, classify_test_result puts that together with how QEMU ended.   *)
(*                                                                         *)
(* A log is a sequence of lines; a line is its marker, "noise" for a line   *)
(* without one, and whether it ends in CRLF.  An exit code QEMU does not    *)
(* give is NoCode.                                                          *)
(***************************************************************************)
EXTENDS Integers, Sequences

QEMU_SUCCESS_EXIT_CODE == 33
QEMU_FAILURE_EXIT_CODE == 35
NoCode == -1

Line(marker, crlf) == [marker |-> marker, crlf |-> crlf]

\* What the loader prints when it goes through the list.
Printed(markers) == [i \in 1..Len(markers) |-> Line(markers[i], TRUE)]

Exited(code) == [how |-> "Exited", code |-> code]
Timeout == [how |-> "Timeout", code |-> NoCode]

validate_markers(serial, expected) ==
  LET lines == SelectSeq(serial, LAMBDA l : l.marker # "noise")
      observed == [i \in 1..Len(lines) |-> lines[i].marker]
  IN CASE \E i \in 1..Len(lines) : ~lines[i].crlf -> "BadLineEnding"
       [] \E i \in 1..Len(lines) : lines[i].marker = "P1C:PANIC" -> "Panic"
       [] observed = expected -> "Ok"
       [] Len(observed) < Len(expected) -> "Missing"
       [] Len(observed) > Len(expected) -> "DuplicateOrUnexpected"
       [] OTHER -> "WrongOrder"

startup_failure(outcome, serial) ==
  /\ outcome.how = "Exited"
  /\ outcome.code \notin {QEMU_SUCCESS_EXIT_CODE, QEMU_FAILURE_EXIT_CODE, NoCode}
  /\ serial = <<>>

\* "Ok" or the reason the test is reported as failed.
classify_test_result(outcome, expected_exit_code, markers) ==
  CASE markers = "Panic" -> "Panic"
    [] outcome.how = "Timeout" -> "Timeout"
    [] markers # "Ok" -> markers
    [] outcome.code = expected_exit_code -> "Ok"
    [] OTHER -> "ExitCode"

Verdict(outcome, serial, scenario) ==
  IF startup_failure(outcome, serial) THEN "Startup"
  ELSE classify_test_result(outcome, scenario.expected_exit_code,
                            validate_markers(serial, scenario.expected_markers))

-----------------------------------------------------------------------------
(* The milestones each scenario asks for.                                    *)

Entered == <<"P1C:ENTRY", "P1C:UEFI_OK", "P1C:PASS">>

Found == Entered \o <<"P1D:KERNEL_OPEN", "P1D:KERNEL_READ">>

Accepted == Found \o <<"P1D:KERNEL_VALID", "P1D:PASS">>

Loaded ==
  Accepted \o <<"P1E:PLAN_VALID", "P1E:SEGMENTS_ALLOCATED", "P1E:SEGMENTS_ZEROED",
                "P1E:SEGMENTS_COPIED", "P1E:LOAD_VERIFIED", "P1F:OWNERSHIP_READY",
                "P1F:METADATA_VALID", "P1F:SOURCE_RELEASED", "P1F:OWNERSHIP_PROVEN">>

Planned == Loaded \o <<"P1J:CPU_STATE_CAPTURED", "P1J:PLAN_ACCEPTED">>

TablesVerified ==
  Planned \o <<"P1J:FRAMES_ALLOCATED", "P1J:HIERARCHY_MATERIALIZED",
               "P1J:HIERARCHY_VERIFIED">>

Described ==
  <<"P1G:GOP_READY", "P1G:BUFFERS_READY", "P1G:MAP_CAPTURED", "P1G:MAP_CONVERTED",
    "P1G:RESERVATIONS_VALID", "P1G:BOOTINFO_VALID", "P1G:OWNERSHIP_READY">>

VALID_MARKERS ==
  Loaded \o Described
    \o <<"P1G:MEMORY_RELEASED", "P1G:PASS", "P1E:MEMORY_RELEASED", "P1E:PASS",
         "P1F:MEMORY_RELEASED", "P1F:RELEASE_PROVEN", "P1F:PASS">>

EXIT_BOOT_SERVICES_MARKERS ==
  Loaded \o Described
    \o <<"P1H:EXIT_READY", "P1H:BOOT_SERVICES_EXITED", "P1H:FINAL_MAP_CONVERTED",
         "P1H:BOOTINFO_FINAL", "P1H:OWNERSHIP_TRANSFERRED", "P1H:PASS">>

KERNEL_HANDOFF_MARKERS ==
  TablesVerified
    \o <<"P1J:CPU_CAPABILITIES_VALIDATED", "P1J:ACTIVATION_REQUIREMENTS_CLASSIFIED",
         "P1J:HIERARCHY_CPU_COMPATIBLE">>
    \o Described
    \o <<"P1H:EXIT_READY", "P1H:BOOT_SERVICES_EXITED", "P1H:FINAL_MAP_CONVERTED",
         "P1J:FINAL_MAP_RESERVED", "P1J:CR3_UNCHANGED", "P1H:BOOTINFO_FINAL",
         "P1J:ACTIVATION_PREPARED_INACTIVE", "P1H:OWNERSHIP_TRANSFERRED",
         "P1J:OWNERSHIP_TRANSFERRED", "P1H:PASS", "P1I:HANDOFF_READY",
         "P1I:KERNEL_ENTRY", "P1I:STACK_OK", "P1I:BOOTINFO_OK", "P1I:MEMORY_MAP_OK",
         "P1I:PASS">>

CPU_READINESS_FAILURE_MARKERS ==
  TablesVerified \o <<"P1J:CPU_ROLLBACK_COMPLETE", "P1J:FAIL:CPU_POLICY">>

PAGE_TABLE_ALLOCATION_FAILURE_MARKERS ==
  Planned \o <<"P1J:ROLLBACK_COMPLETE", "P1J:FAIL:ALLOC">>

MISSING_MARKERS == Entered \o <<"P1D:FAIL:OPEN">>

CORRUPT_MARKERS == Found \o <<"P1D:FAIL:ELF">>

POLICY_MARKERS == Accepted \o <<"P1E:FAIL:PLAN">>

\* A scenario: the kernel file its fixture holds, what it must print and the code
\* QEMU must end with.
Scenario(fixture, markers, code) ==
  [fixture |-> fixture, expected_markers |-> markers, expected_exit_code |-> code]

test_uefi ==
  <<Scenario("good", VALID_MARKERS, QEMU_SUCCESS_EXIT_CODE),
    Scenario("none", MISSING_MARKERS, QEMU_FAILURE_EXIT_CODE),
    Scenario("corrupt", CORRUPT_MARKERS, QEMU_FAILURE_EXIT_CODE),
    Scenario("policy", POLICY_MARKERS, QEMU_FAILURE_EXIT_CODE)>>

test_exit_boot_services ==
  <<Scenario("good", EXIT_BOOT_SERVICES_MARKERS, QEMU_SUCCESS_EXIT_CODE)>>

test_kernel_handoff ==
  <<Scenario("good", KERNEL_HANDOFF_MARKERS, QEMU_SUCCESS_EXIT_CODE)>>

test_page_tables ==
  <<Scenario("good", PAGE_TABLE_ALLOCATION_FAILURE_MARKERS, QEMU_FAILURE_EXIT_CODE)>>

test_cpu_readiness ==
  <<Scenario("good", CPU_READINESS_FAILURE_MARKERS, QEMU_FAILURE_EXIT_CODE)>>
=============================================================================
