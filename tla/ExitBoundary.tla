----------------------------- MODULE ExitBoundary -----------------------------
(***************************************************************************)
(* From the provisional memory map to the end of boot services             *)
(* (crates/bootloader/src/boot_info_loader.rs, exit_state.rs).             *)
(*                                                                         *)
(* capture_memory_map is called three times into the same raw buffer: while *)
(* the boot information is prepared, just before ownership is disarmed, and *)
(* once more when ExitBootServices answers INVALID_PARAMETER.  A map and    *)
(* its key are identified with the firmware's map version at the moment of  *)
(* the call; the firmware's own events may change the version whenever boot *)
(* services are active, and it rejects a key that is not current.           *)
(***************************************************************************)
EXTENDS Naturals, Sequences

CONSTANTS
  MaxChanges,  \* bound on the map changes made by the firmware's own events
  NoMap        \* nothing captured yet

RAW_MEMORY_MAP_RETRY_LIMIT == 3

EXIT_BOOT_SERVICES_ATTEMPT_LIMIT == 2

Phases == {"provisional", "prepared", "final", "exit", "retry", "exit_again",
           "exited", "rolled_back", "exit_failed", "map_failed"}

\* What GetMemoryMap answers, as capture_memory_map tells the answers apart:
\* "unstable" is BUFFER_TOO_SMALL with a size that would fit the buffer.
MapStatus == {"success", "malformed", "unstable", "error"}

VARIABLES
  phase,      \* where the loader is
  version,    \* firmware: current memory-map version
  raw,        \* version of the descriptors in the raw-map buffer
  final_map,  \* version that final_map.map_key stands for
  calls,      \* attempt of the loop in capture_memory_map
  attempts,   \* ExitRetryPolicy.attempts
  answers,    \* statuses returned by ExitBootServices so far
  lastCall    \* the loader's latest call of a boot service

vars == <<phase, version, raw, final_map, calls, attempts, answers, lastCall>>

Init ==
  /\ phase = "provisional"
  /\ version = 0
  /\ raw = NoMap
  /\ final_map = NoMap
  /\ calls = 0
  /\ attempts = 0
  /\ answers = <<>>
  /\ lastCall = "other"

Active == phase # "exited"

\* Timers and drivers change the map behind the loader's back.
FirmwareChangesMap ==
  /\ Active
  /\ version < MaxChanges
  /\ version' = version + 1
  /\ UNCHANGED <<phase, raw, final_map, calls, attempts, answers, lastCall>>

-----------------------------------------------------------------------------
(* capture_memory_map                                                      *)

retry_is_allowed == calls < RAW_MEMORY_MAP_RETRY_LIMIT

\* One call of GetMemoryMap.  Only a success overwrites the buffer, and the
\* loop goes on only after an "unstable" answer.
MapCall(status, captured, failed, next) ==
  LET again == status = "unstable" /\ retry_is_allowed IN
  /\ lastCall' = "get_memory_map"
  /\ raw' = IF status \in {"success", "malformed"} THEN version ELSE raw
  /\ calls' = IF again THEN next ELSE 0
  /\ phase' = IF again THEN phase
              ELSE IF status = "success" THEN captured ELSE failed

\* Faulty: the call counter wraps before it reaches the limit.
CaptureWraps(status, captured, failed) ==
  MapCall(status, captured, failed, (calls + 1) % RAW_MEMORY_MAP_RETRY_LIMIT)

Capture(status, captured, failed) ==
  MapCall(status, captured, failed, calls + 1)

CaptureProvisional(status) ==
  /\ phase = "provisional"
  /\ Capture(status, "prepared", "rolled_back")
  /\ UNCHANGED <<version, final_map, attempts, answers>>

\* The rest of the preparation: conversion, closing of the graphics protocol,
\* the watchdog call.  A failure drops every owner.
FinishPreparation(ok) ==
  /\ phase = "prepared"
  /\ phase' = IF ok THEN "final" ELSE "rolled_back"
  /\ lastCall' = "other"
  /\ UNCHANGED <<version, raw, final_map, calls, attempts, answers>>

\* Faulty: the final map is captured elsewhere, the provisional bytes stay.
CaptureFinalElsewhere(status) ==
  /\ phase = "final"
  /\ lastCall' = "get_memory_map"
  /\ phase' = IF status = "success" THEN "exit" ELSE "rolled_back"
  /\ final_map' = IF status = "success" THEN version ELSE final_map
  /\ UNCHANGED <<version, raw, calls, attempts, answers>>

CaptureFinal(status) ==
  /\ phase = "final"
  /\ Capture(status, "exit", "rolled_back")
  /\ final_map' = IF phase' = "exit" THEN version ELSE final_map
  /\ UNCHANGED <<version, attempts, answers>>

CaptureAgain(status) ==
  /\ phase = "retry"
  /\ Capture(status, "exit_again", "map_failed")
  /\ final_map' = IF phase' = "exit_again" THEN version ELSE final_map
  /\ UNCHANGED <<version, attempts, answers>>

-----------------------------------------------------------------------------
(* ExitBootServices and ExitRetryPolicy                                    *)

\* The firmware answers "success" only to the current key, "invalid" only to
\* another one, and may fail for a reason of its own.
ExitAnswers == {"error", IF final_map = version THEN "success" ELSE "invalid"}

\* begin_attempt, the call, and what is done with its status.  begin_attempt
\* never fails: no step is possible here when the limit is reached.
Attempt(status, onInvalid) ==
  /\ attempts # EXIT_BOOT_SERVICES_ATTEMPT_LIMIT
  /\ status \in ExitAnswers
  /\ attempts' = attempts + 1
  /\ answers' = Append(answers, status)
  /\ lastCall' = "exit_boot_services"
  /\ phase' = CASE status = "success" -> "exited"
                [] status = "invalid" -> onInvalid
                [] OTHER -> "exit_failed"
  /\ UNCHANGED <<version, raw, final_map, calls>>

\* retry_invalid_key after the first attempt.
OnInvalidKey ==
  IF attempts + 1 < EXIT_BOOT_SERVICES_ATTEMPT_LIMIT THEN "retry" ELSE "exit_failed"

\* Faulty: an invalid key ends the exit at once.
ExitBootServicesGivesUp(status) ==
  phase = "exit" /\ Attempt(status, "exit_failed")

\* Faulty: the second attempt is made with the key of the first one.
ExitBootServicesSameKey(status) ==
  phase = "exit" /\ Attempt(status, "exit_again")

ExitBootServices(status) == phase = "exit" /\ Attempt(status, OnInvalidKey)

ExitBootServicesAgain(status) ==
  phase = "exit_again" /\ Attempt(status, "exit_failed")

\* Pages are allocated before the first capture and freed on an error path.
CallOtherService ==
  /\ phase \in {"provisional", "prepared", "rolled_back"}
  /\ lastCall' = "other"
  /\ UNCHANGED <<phase, version, raw, final_map, calls, attempts, answers>>

Ended == {"exited", "rolled_back", "exit_failed", "map_failed"}

Terminated == phase \in Ended /\ UNCHANGED vars

-----------------------------------------------------------------------------
Loader ==
  \/ \E status \in MapStatus : \/ CaptureProvisional(status)
                               \/ CaptureFinal(status)
                               \/ CaptureAgain(status)
  \/ \E ok \in BOOLEAN : FinishPreparation(ok)
  \/ \E status \in ExitAnswers : \/ ExitBootServices(status)
                                 \/ ExitBootServicesAgain(status)

Next == Loader \/ CallOtherService \/ FirmwareChangesMap \/ Terminated

Spec == Init /\ [][Next]_vars

-----------------------------------------------------------------------------
(* Properties.                                                             *)

\* Every variable keeps its type; capture_memory_map makes at most four
\* calls and ExitBootServices is called at most twice.
TypeOK ==
  /\ phase \in Phases
  /\ version \in Nat
  /\ raw \in Nat \cup {NoMap}
  /\ final_map \in Nat \cup {NoMap}
  /\ calls \in 0..RAW_MEMORY_MAP_RETRY_LIMIT
  /\ attempts \in 0..EXIT_BOOT_SERVICES_ATTEMPT_LIMIT
  /\ answers \in Seq({"success", "invalid", "error"})
  /\ Len(answers) = attempts
  /\ lastCall \in {"other", "get_memory_map", "exit_boot_services"}

\* Once boot services are gone, the bytes that finalize_post_exit converts
\* and the metadata it reads them with both describe the memory map at the
\* moment of the exit, however often the firmware changed it before.
FinalMapIsCurrent ==
  phase = "exited" => raw = version /\ final_map = version

\* ExitBootServices is only called with a key that the loader's preceding
\* boot-service call returned: a provisional key, or the rejected key of the
\* first attempt, is never used (the comments at boot_info_loader.rs:423
\* and :433).
KeyIsFresh ==
  [][answers' # answers => lastCall = "get_memory_map" /\ raw = final_map]_vars

\* The exit is given up only when the firmware failed for another reason
\* than the key or invalidated two keys in a row: one change of the map
\* between a capture and the call is absorbed.
GivesUpOnlyWhenRefused ==
  phase = "exit_failed" =>
    \/ answers[Len(answers)] = "error"
    \/ Len(answers) = 2 /\ answers[1] = "invalid" /\ answers[2] = "invalid"
=============================================================================
