-------------------------- MODULE BootPipelineSteps ---------------------------
(***************************************************************************)
(* Proofs about BootPipeline for every number of segments and page tables.  *)
(*                                                                         *)
(* Three things are related to the operation pc that comes next: what each  *)
(* owner has (Stock), where the exit protocol is (InStep), and, on an error *)
(* path, what todo still has to release and to report (Unwinding).  The     *)
(* firmware's books agree with the owners' throughout (Ledger).             *)
(***************************************************************************)
EXTENDS BootPipeline, TLAPS

-----------------------------------------------------------------------------
(* The exit protocol alone (module ExitBoundary), for every bound on the    *)
(* firmware's map changes.  FinalMapIsCurrent is not inductive: it needs to *)
(* know that the buffer and the metadata were captured together before each *)
(* exit call (CaptureInStep) and that the answers so far fit the phase      *)
(* (AnswersFit).                                                            *)

\* Before an exit call the latest boot-service call was the capture that
\* filled both the buffer and final_map.
CaptureInStep ==
  phase \in {"exit", "exit_again"} =>
    lastCall = "get_memory_map" /\ raw = final_map

\* The exit attempts made so far and their answers.
AnswersFit ==
  /\ phase \in {"provisional", "prepared", "final", "exit", "rolled_back"} =>
       answers = <<>>
  /\ phase \in {"retry", "exit_again", "map_failed"} =>
       Len(answers) = 1 /\ answers[1] = "invalid"

ExitInv ==
  /\ Exit!TypeOK
  /\ CaptureInStep
  /\ AnswersFit
  /\ Exit!FinalMapIsCurrent
  /\ Exit!GivesUpOnlyWhenRefused

\* Before the first capture there is no map, no attempt and no answer.
LEMMA ExitInitInv == Exit!Init => ExitInv
<1> SUFFICES ASSUME Exit!Init PROVE ExitInv
  OBVIOUS
<1>1. Exit!TypeOK
  BY DEF Exit!Init, Exit!TypeOK, Exit!Phases, Exit!RAW_MEMORY_MAP_RETRY_LIMIT,
      Exit!EXIT_BOOT_SERVICES_ATTEMPT_LIMIT
<1>2. CaptureInStep /\ AnswersFit /\ Exit!FinalMapIsCurrent /\ Exit!GivesUpOnlyWhenRefused
  BY DEF Exit!Init, CaptureInStep, AnswersFit, Exit!FinalMapIsCurrent,
      Exit!GivesUpOnlyWhenRefused
<1> QED
  BY <1>1, <1>2 DEF ExitInv

\* What one call of GetMemoryMap leaves behind.
LEMMA MapCallEffect ==
  ASSUME Exit!TypeOK, NEW status \in Exit!MapStatus, NEW captured, NEW failed,
         Exit!Capture(status, captured, failed)
  PROVE  /\ calls' \in 0..Exit!RAW_MEMORY_MAP_RETRY_LIMIT
         /\ raw' \in Nat \cup {NoMap}
         /\ lastCall' = "get_memory_map"
         /\ \/ phase' = phase
            \/ phase' = captured /\ raw' = version
            \/ phase' = failed
<1>1. CASE status = "unstable" /\ Exit!retry_is_allowed
  BY <1>1 DEF Exit!Capture, Exit!MapCall, Exit!TypeOK, Exit!retry_is_allowed,
             Exit!RAW_MEMORY_MAP_RETRY_LIMIT
<1>2. CASE ~(status = "unstable" /\ Exit!retry_is_allowed)
  BY <1>2 DEF Exit!Capture, Exit!MapCall, Exit!TypeOK, Exit!retry_is_allowed,
             Exit!RAW_MEMORY_MAP_RETRY_LIMIT
<1> QED
  BY <1>1, <1>2

\* What one call of ExitBootServices leaves behind.
LEMMA AttemptEffect ==
  ASSUME ExitInv, NEW status \in Exit!ExitAnswers, NEW onInvalid \in Exit!Phases,
         Exit!Attempt(status, onInvalid)
  PROVE  /\ Exit!TypeOK'
         /\ answers' = Append(answers, status)
         /\ UNCHANGED <<version, raw, final_map>>
         /\ \/ status = "success" /\ phase' = "exited" /\ final_map = version
            \/ status = "invalid" /\ phase' = onInvalid
            \/ status = "error" /\ phase' = "exit_failed"
<1>1. status \in {"success", "invalid", "error"}
  BY DEF Exit!ExitAnswers
<1>2. attempts' \in 0..Exit!EXIT_BOOT_SERVICES_ATTEMPT_LIMIT
  BY DEF ExitInv, Exit!TypeOK, Exit!Attempt, Exit!EXIT_BOOT_SERVICES_ATTEMPT_LIMIT
<1>3. answers' \in Seq({"success", "invalid", "error"}) /\ Len(answers') = attempts'
  BY <1>1 DEF ExitInv, Exit!TypeOK, Exit!Attempt, Exit!EXIT_BOOT_SERVICES_ATTEMPT_LIMIT
<1>4. \/ status = "success" /\ phase' = "exited" /\ final_map = version
      \/ status = "invalid" /\ phase' = onInvalid
      \/ status = "error" /\ phase' = "exit_failed"
  BY <1>1 DEF Exit!Attempt, Exit!ExitAnswers
<1>5. phase' \in Exit!Phases /\ lastCall' = "exit_boot_services"
  BY <1>4 DEF Exit!Attempt, Exit!Phases
<1>6. Exit!TypeOK'
  BY <1>2, <1>3, <1>5 DEF ExitInv, Exit!TypeOK, Exit!Attempt
<1> QED
  BY <1>4, <1>6 DEF Exit!Attempt

\* An answer is appended behind the earlier ones.
Following(s, n) == n = Len(s) + 1

LEMMA LastAnswer ==
  ASSUME NEW S, NEW s \in Seq(S), NEW e \in S, NEW n, Following(s, n)
  PROVE  /\ Len(Append(s, e)) = n /\ Append(s, e)[n] = e
         /\ \A i \in 1..Len(s) : Append(s, e)[i] = s[i]
<1> USE DEF Following
<1>1. Len(Append(s, e)) = n
  OBVIOUS
<1>2. Append(s, e)[n] = e
  OBVIOUS
<1>3. \A i \in 1..Len(s) : Append(s, e)[i] = s[i]
  OBVIOUS
<1> QED
  BY <1>1, <1>2, <1>3

\* Every step of the loader and every map change of the firmware keeps the
\* invariant.
LEMMA ExitNextInv == ExitInv /\ [Exit!Next]_(Exit!vars) => ExitInv'
<1> SUFFICES ASSUME ExitInv, [Exit!Next]_(Exit!vars) PROVE ExitInv'
  OBVIOUS
<1> USE DEF ExitInv
<1>1. CASE Exit!FirmwareChangesMap
  <2>1. Exit!TypeOK'
    BY <1>1 DEF Exit!FirmwareChangesMap, Exit!TypeOK
  <2> QED
    BY <1>1, <2>1 DEF Exit!FirmwareChangesMap, Exit!Active, CaptureInStep, AnswersFit,
                      Exit!FinalMapIsCurrent, Exit!GivesUpOnlyWhenRefused
<1>2. ASSUME NEW status \in Exit!MapStatus, Exit!CaptureProvisional(status) PROVE ExitInv'
  <2>1. Exit!TypeOK'
    BY <1>2, MapCallEffect DEF Exit!CaptureProvisional, Exit!TypeOK, Exit!Phases
  <2>2. phase' \in {"provisional", "prepared", "rolled_back"}
    BY <1>2, MapCallEffect DEF Exit!CaptureProvisional
  <2> QED
    BY <1>2, <2>1, <2>2 DEF Exit!CaptureProvisional, CaptureInStep, AnswersFit,
                            Exit!FinalMapIsCurrent, Exit!GivesUpOnlyWhenRefused
<1>3. ASSUME NEW ok \in BOOLEAN, Exit!FinishPreparation(ok) PROVE ExitInv'
  BY <1>3 DEF Exit!FinishPreparation, Exit!TypeOK, Exit!Phases, CaptureInStep, AnswersFit,
              Exit!FinalMapIsCurrent, Exit!GivesUpOnlyWhenRefused
<1>4. ASSUME NEW status \in Exit!MapStatus, Exit!CaptureFinal(status) PROVE ExitInv'
  <2>1. /\ phase' \in {"final", "exit", "rolled_back"}
        /\ phase' = "exit" => raw' = final_map' /\ lastCall' = "get_memory_map"
    BY <1>4, MapCallEffect DEF Exit!CaptureFinal
  <2>2. Exit!TypeOK'
    BY <1>4, <2>1, MapCallEffect DEF Exit!CaptureFinal, Exit!TypeOK, Exit!Phases
  <2> QED
    BY <1>4, <2>1, <2>2 DEF Exit!CaptureFinal, CaptureInStep, AnswersFit,
                            Exit!FinalMapIsCurrent, Exit!GivesUpOnlyWhenRefused
<1>5. ASSUME NEW status \in Exit!MapStatus, Exit!CaptureAgain(status) PROVE ExitInv'
  <2>1. /\ phase' \in {"retry", "exit_again", "map_failed"}
        /\ phase' = "exit_again" => raw' = final_map' /\ lastCall' = "get_memory_map"
    BY <1>5, MapCallEffect DEF Exit!CaptureAgain
  <2>2. Exit!TypeOK'
    BY <1>5, <2>1, MapCallEffect DEF Exit!CaptureAgain, Exit!TypeOK, Exit!Phases
  <2> QED
    BY <1>5, <2>1, <2>2 DEF Exit!CaptureAgain, CaptureInStep, AnswersFit,
                            Exit!FinalMapIsCurrent, Exit!GivesUpOnlyWhenRefused
<1>6. ASSUME NEW status \in Exit!ExitAnswers, Exit!ExitBootServices(status) PROVE ExitInv'
  <2>1. answers = <<>> /\ attempts = 0 /\ Exit!OnInvalidKey = "retry"
    BY <1>6 DEF Exit!ExitBootServices, AnswersFit, Exit!TypeOK, Exit!OnInvalidKey,
                Exit!EXIT_BOOT_SERVICES_ATTEMPT_LIMIT
  <2>2. /\ Exit!TypeOK'
        /\ answers' = Append(answers, status)
        /\ UNCHANGED <<version, raw, final_map>>
        /\ \/ status = "success" /\ phase' = "exited" /\ final_map = version
           \/ status = "invalid" /\ phase' = "retry"
           \/ status = "error" /\ phase' = "exit_failed"
    BY <1>6, <2>1, AttemptEffect DEF Exit!ExitBootServices, Exit!Phases
  <2>3. Len(answers') = 1 /\ answers'[1] = status
    BY <2>1, <2>2
  <2>4. raw = final_map
    BY <1>6 DEF Exit!ExitBootServices, CaptureInStep
  <2> QED
    BY <2>2, <2>3, <2>4 DEF CaptureInStep, AnswersFit, Exit!FinalMapIsCurrent,
                            Exit!GivesUpOnlyWhenRefused
<1>7. ASSUME NEW status \in Exit!ExitAnswers, Exit!ExitBootServicesAgain(status) PROVE ExitInv'
  <2>1. Len(answers) = 1 /\ answers[1] = "invalid" /\ raw = final_map
    BY <1>7 DEF Exit!ExitBootServicesAgain, AnswersFit, CaptureInStep
  <2>2. /\ Exit!TypeOK'
        /\ answers' = Append(answers, status)
        /\ UNCHANGED <<version, raw, final_map>>
        /\ \/ status = "success" /\ phase' = "exited" /\ final_map = version
           \/ status = "invalid" /\ phase' = "exit_failed"
           \/ status = "error" /\ phase' = "exit_failed"
    BY <1>7, AttemptEffect DEF Exit!ExitBootServicesAgain, Exit!Phases
  <2>3. status \in {"success", "invalid", "error"}
    BY DEF Exit!ExitAnswers
  <2>4. answers \in Seq({"success", "invalid", "error"})
    BY DEF Exit!TypeOK
  <2>5. PICK n : Following(answers, n)
    BY DEF Following
  <2>6. LET list == Append(answers, status)
        IN  /\ Len(list) = n /\ list[n] = status
            /\ \A i \in 1..Len(answers) : list[i] = answers[i]
    BY <2>3, <2>4, <2>5, LastAnswer
  <2>7. n = 2 /\ 1 \in 1..Len(answers)
    BY <2>1, <2>5 DEF Following
  <2>8. Len(answers') = 2 /\ answers'[1] = "invalid" /\ answers'[2] = status
    BY <2>1, <2>2, <2>6, <2>7
  <2> QED
    BY <2>1, <2>2, <2>8 DEF CaptureInStep, AnswersFit, Exit!FinalMapIsCurrent,
                            Exit!GivesUpOnlyWhenRefused
<1>8. CASE UNCHANGED Exit!vars
  BY <1>8 DEF Exit!vars, Exit!TypeOK, CaptureInStep, AnswersFit, Exit!FinalMapIsCurrent,
              Exit!GivesUpOnlyWhenRefused
<1>9. CASE Exit!CallOtherService
  BY <1>9 DEF Exit!CallOtherService, Exit!TypeOK, CaptureInStep, AnswersFit,
              Exit!FinalMapIsCurrent, Exit!GivesUpOnlyWhenRefused
<1> QED
  BY <1>1, <1>2, <1>3, <1>4, <1>5, <1>6, <1>7, <1>8, <1>9
  DEF Exit!Next, Exit!Loader, Exit!Terminated

\* The invariant holds in every reachable state.
LEMMA ExitInvariance == Exit!Spec => []ExitInv
<1> QED
  BY ExitInitInv, ExitNextInv, PTL DEF Exit!Spec

\* capture_memory_map never makes more than four calls, ExitBootServices is
\* never called a third time, and the rest of the state is well formed.
THEOREM ExitTypeCorrect == Exit!Spec => []Exit!TypeOK
<1>1. ExitInv => Exit!TypeOK
  BY DEF ExitInv
<1> QED
  BY <1>1, ExitInvariance, PTL

\* After the exit the converted bytes and their metadata are those of the map
\* that the firmware had when it accepted the key.
THEOREM FinalMapTheorem == Exit!Spec => []Exit!FinalMapIsCurrent
<1>1. ExitInv => Exit!FinalMapIsCurrent
  BY DEF ExitInv
<1> QED
  BY <1>1, ExitInvariance, PTL

\* The retry policy absorbs one stale key and gives up only after two of them
\* or another error.
THEOREM RetryTheorem == Exit!Spec => []Exit!GivesUpOnlyWhenRefused
<1>1. ExitInv => Exit!GivesUpOnlyWhenRefused
  BY DEF ExitInv
<1> QED
  BY <1>1, ExitInvariance, PTL

\* Every exit call uses the key of the capture that directly precedes it.
THEOREM FreshKeyTheorem == Exit!Spec => Exit!KeyIsFresh
<1>1. ExitInv /\ [Exit!Next]_(Exit!vars) =>
        [answers' # answers => lastCall = "get_memory_map" /\ raw = final_map]_(Exit!vars)
  BY DEF ExitInv, Exit!Next, Exit!Loader, Exit!Terminated, Exit!FirmwareChangesMap,
         Exit!CallOtherService, Exit!CaptureProvisional,
         Exit!CaptureFinal, Exit!CaptureAgain, Exit!FinishPreparation, Exit!ExitBootServices,
         Exit!ExitBootServicesAgain, CaptureInStep, Exit!vars
<1> QED
  BY <1>1, ExitInvariance, PTL DEF Exit!Spec, Exit!KeyIsFresh

-----------------------------------------------------------------------------
(* The owners and the operations.                                           *)

OwnerNames == {"source", "kernel", "stack", "tables", "buffers"}

-----------------------------------------------------------------------------
(* Operations, grouped by what is held and by the phase of the exit.        *)

Placing ==
  {"allocate", "zero", "copy", "verify", "recheck", "metadata", "release_source"}

Building ==
  {"plan_tables", "tables", "materialize", "verify_tables", "cpu", "classify",
   "cr3_first"}

Describing == {"buffers", "describe", "map", "convert"}

Returning == {"release_info", "release_kernel", "release_probe"}

Leaving == {"confirm", "cr3_second", "ready", "watchdog", "final_map", "cross"}

Left == {"exit", "finalize", "cr3_third", "jump", "kernel", "passed", "halted"}

Working ==
  {"load", "read", "plan", "probe", "stack"} \cup Placing \cup Building
    \cup Describing \cup Returning \cup Leaving

Over == {"unwind", "returned"}

Tasks ==
  {"try", "once", "drop", "report", "marker"} \X
    (OwnerNames \cup {"Free"} \cup Markers)

Types ==
  /\ build \in {"release", "exit", "handoff", "table_failure", "cpu_failure"}
  /\ pc \in Working \cup Left \cup Over
  /\ held \in [OwnerNames -> SUBSET Nat]
  /\ todo \in Seq(Tasks)
  /\ clean \in BOOLEAN
  /\ markers \subseteq Markers

\* What an owner records is allocated, and what is allocated is recorded,
\* handed over or was refused.
Ledger ==
  /\ faults = {}
  /\ \A o \in OwnerNames : \A i \in held[o] : <<o, i>> \in live
  /\ \A p \in live :
       \/ p \in refused \cup handed
       \/ \E o \in OwnerNames : \E i \in held[o] : p = <<o, i>>

\* The pieces each owner has while nothing has failed.
Stock ==
  /\ pc \in Working =>
       /\ refused = {}
       /\ held["source"] = IF pc \in {"read", "plan"} \cup Placing THEN {1} ELSE {}
       /\ pc \in {"load", "read", "plan", "release_probe"} => held["kernel"] = {}
       /\ pc = "allocate" => \E n \in 0..(Segments - 1) : held["kernel"] = 1..n
       /\ pc \notin {"load", "read", "plan", "release_probe", "allocate"} =>
            held["kernel"] = 1..Segments
       /\ held["stack"] = IF Handoff /\ pc \in Building \cup Describing \cup Leaving
                          THEN {1} ELSE {}
       /\ pc = "tables" => \E n \in 0..(Frames - 1) : held["tables"] = 1..n
       /\ pc # "tables" =>
            held["tables"] = IF Handoff /\ pc \in (Building \ {"plan_tables"})
                                                    \cup Describing \cup Leaving
                             THEN 1..Frames ELSE {}
       /\ pc = "buffers" => \E n \in 0..3 : held["buffers"] = 1..n
       /\ pc # "buffers" =>
            held["buffers"] = IF pc \in {"release_info"} \cup Describing \cup Leaving
                              THEN 1..4 ELSE {}
  /\ pc \in {"stack", "confirm", "cr3_second", "cr3_third", "jump", "kernel"}
              \cup Building => Handoff
  /\ pc \in Returning => ~Handoff

\* What crossed the boundary, and that CR3 was compared after it.
Crossed ==
  /\ pc \notin Left => handed = {}
  /\ pc \in Left =>
       /\ \A o \in OwnerNames : held[o] = {}
       /\ refused = {}
       /\ handed \subseteq live
       /\ Handoff => handed = {p \in Pages : p[1] # "source" /\ p[2] # 0}
  /\ pc \in {"jump", "kernel"} => cr3 = token

\* Where the exit protocol is.
InStep ==
  /\ pc \in {"load", "read", "plan", "probe", "stack", "buffers", "describe", "map"}
              \cup Placing \cup Building => phase = "provisional"
  /\ pc \in {"convert", "confirm", "cr3_second", "ready", "watchdog"} \cup Returning =>
       phase = "prepared"
  /\ pc = "final_map" => phase = "final"
  /\ pc = "cross" => phase = "exit"
  /\ pc = "exit" => phase \in {"exit", "retry", "exit_again"}
  /\ pc \in {"finalize", "cr3_third", "jump", "kernel", "passed"} => phase = "exited"
  /\ pc \in Over => phase \in {"provisional", "prepared", "rolled_back"}
  /\ pc = "halted" => phase \in {"exit_failed", "map_failed", "exited"}

-----------------------------------------------------------------------------
(* Error paths.                                                             *)

\* Errors that are only returned when every page was given back.
Truthful == {"Ok", "Open", "Read", "Plan", "Alloc", "Zero", "Copy", "Verify"}

\* The path gives up owner o for good.
Discards(path, o) ==
  \E i \in 1..Len(path) : path[i] \in {<<"drop", o>>, <<"once", o>>}

\* The path releases o explicitly before its step j.
ReleasesBefore(path, j, o) ==
  \E i \in 1..(j - 1) : path[i] \in {<<"try", o>>, <<"once", o>>}

\* Step j tells whether what was released explicitly before it went well.
Announces(path, j) == path[j][1] \in {"report", "marker"}

Announced(task) == IF task = <<"marker", "table_rollback">> THEN {"tables"} ELSE OwnerNames

\* No destructor runs between the explicit releases and what is said of them.
Orderly(path) ==
  \A j \in 1..Len(path) : Announces(path, j) =>
    \A i \in 1..(j - 1) : path[i][1] \in {"try", "once"}

Reporting(path) == \E j \in 1..Len(path) : path[j] = <<"report", "Free">>

Unwinding ==
  /\ pc \in Over =>
       /\ Orderly(todo)
       /\ \A o \in OwnerNames : held[o] # {} => Discards(todo, o)
       /\ \A j \in 1..Len(todo) :
            /\ clean
            /\ todo[j][1] = "marker" \/ (todo[j][1] = "report" /\ result \in Truthful)
            => /\ refused = {}
               /\ \A o \in Announced(todo[j]) :
                    held[o] # {} => ReleasesBefore(todo, j, o)
       /\ result \in Truthful =>
            /\ ~clean => Reporting(todo)
            /\ clean /\ ~Reporting(todo) =>
                 refused = {} /\ \A o \in OwnerNames : held[o] = {}
  /\ pc = "returned" => todo = <<>>
  /\ markers # {} => pc \in Over

IInv ==
  /\ Types
  /\ Ledger
  /\ Stock
  /\ Crossed
  /\ InStep
  /\ Unwinding
  /\ RollbackMarkersTruthful

-----------------------------------------------------------------------------
(* Pages.                                                                   *)

LEMMA OwnersAre == Owners = OwnerNames
BY DEF Owners, Pieces, OwnerNames

\* A piece that is allocated is recorded.
LEMMA AcquireEffect ==
  ASSUME Types, Ledger, NEW o \in OwnerNames, NEW i \in Nat, Acquire(o, i)
  PROVE  /\ Ledger'
         /\ held' = [held EXCEPT ![o] = held[o] \cup {i}]
         /\ held' \in [OwnerNames -> SUBSET Nat]
         /\ UNCHANGED <<handed, refused>>
<1>1. /\ held' = [held EXCEPT ![o] = held[o] \cup {i}]
      /\ held' \in [OwnerNames -> SUBSET Nat]
      /\ UNCHANGED <<handed, refused, faults>>
      /\ live' = live \cup {<<o, i>>}
  BY DEF Acquire, Allocate, Types
<1>2. \A q \in OwnerNames : \A k \in held'[q] : <<q, k>> \in live'
  BY <1>1, Zenon DEF Ledger, Types
<1>3. ASSUME NEW p \in live'
      PROVE  \/ p \in refused' \cup handed'
             \/ \E q \in OwnerNames : \E k \in held'[q] : p = <<q, k>>
  <2>1. CASE p = <<o, i>>
    BY <1>1, <2>1 DEF Types
  <2>2. CASE p \in live
    <3>1. CASE p \in refused \cup handed
      BY <1>1, <3>1
    <3>2. CASE \E q \in OwnerNames : \E k \in held[q] : p = <<q, k>>
      BY <1>1, <3>2 DEF Types
    <3> QED
      BY <2>2, <3>1, <3>2 DEF Ledger
  <2> QED
    BY <1>1, <2>1, <2>2
<1> QED
  BY <1>1, <1>2, <1>3 DEF Ledger

\* Freeing some of the recorded pieces of an owner: what is forgotten was freed
\* or refused.
LEMMA ReleaseLedger ==
  ASSUME Types, Ledger, NEW o \in OwnerNames, NEW freed \in SUBSET held[o],
         NEW denied \in SUBSET (held[o] \ freed), NEW kept \in SUBSET (held[o] \ freed),
         held[o] \ freed \subseteq kept \cup denied,
         GiveBack({o} \X freed, {o} \X denied),
         held' = [held EXCEPT ![o] = kept]
  PROVE  /\ Ledger'
         /\ held' \in [OwnerNames -> SUBSET Nat]
         /\ held'[o] = kept
         /\ \A q \in OwnerNames \ {o} : held'[q] = held[q]
         /\ live' \subseteq live
         /\ refused' \subseteq refused \cup ({o} \X denied)
         /\ handed' = handed
<1>1. /\ held' \in [OwnerNames -> SUBSET Nat]
      /\ held'[o] = kept
      /\ \A q \in OwnerNames \ {o} : held'[q] = held[q]
  BY DEF Types
<1>2. /\ live' = live \ ({o} \X freed)
      /\ refused' = (refused \ ({o} \X freed)) \cup ({o} \X denied)
      /\ faults' = faults \cup ((({o} \X freed) \cup ({o} \X denied)) \ live)
      /\ handed' = handed
  BY DEF GiveBack
<1>3. faults' = {}
  <2>1. ({o} \X freed) \cup ({o} \X denied) \subseteq live
    BY DEF Ledger
  <2> QED
    BY <1>2, <2>1 DEF Ledger
<1>4. \A q \in OwnerNames : \A k \in held'[q] : <<q, k>> \in live'
  BY <1>1, <1>2, Zenon DEF Ledger
<1>5. ASSUME NEW p \in live'
      PROVE  \/ p \in refused' \cup handed'
             \/ \E q \in OwnerNames : \E k \in held'[q] : p = <<q, k>>
  <2>1. p \in live /\ p \notin {o} \X freed
    BY <1>2
  <2>2. CASE p \in refused \cup handed
    BY <1>2, <2>1, <2>2
  <2>3. CASE \E q \in OwnerNames : \E k \in held[q] : p = <<q, k>>
    <3> PICK q \in OwnerNames : \E k \in held[q] : p = <<q, k>>
      BY <2>3
    <3>1. PICK k \in held[q] : p = <<q, k>>
      OBVIOUS
    <3>2. CASE q # o
      BY <1>1, <3>1, <3>2
    <3>3. CASE q = o /\ k \in kept
      BY <1>1, <3>1, <3>3
    <3>4. CASE q = o /\ k \notin kept
      <4>1. k \in denied
        BY <2>1, <3>1, <3>4
      <4> QED
        BY <1>2, <3>1, <3>4, <4>1
    <3> QED
      BY <3>2, <3>3, <3>4
  <2> QED
    BY <2>1, <2>2, <2>3 DEF Ledger
<1> QED
  BY <1>1, <1>2, <1>3, <1>4, <1>5 DEF Ledger

\* Drop gives up every piece.
LEMMA DropEffect ==
  ASSUME Types, Ledger, NEW o \in OwnerNames, NEW freed, DropOwner(o, freed)
  PROVE  /\ Ledger'
         /\ held' \in [OwnerNames -> SUBSET Nat]
         /\ held'[o] = {}
         /\ \A q \in OwnerNames \ {o} : held'[q] = held[q]
         /\ live' \subseteq live
         /\ freed = held[o] \/ held[o] = {} => refused' \subseteq refused
         /\ handed' = handed
<1>1. /\ freed \in SUBSET held[o]
      /\ GiveBack({o} \X freed, {o} \X (held[o] \ freed))
      /\ held' = [held EXCEPT ![o] = {}]
  BY DEF DropOwner
<1>2. /\ Ledger'
      /\ held' \in [OwnerNames -> SUBSET Nat]
      /\ held'[o] = {}
      /\ \A q \in OwnerNames \ {o} : held'[q] = held[q]
      /\ live' \subseteq live
      /\ refused' \subseteq refused \cup ({o} \X (held[o] \ freed))
      /\ handed' = handed
  BY <1>1, ReleaseLedger, Zenon
<1> QED
  BY <1>2

\* try_release keeps the piece that was refused and those before it.
LEMMA TryEffect ==
  ASSUME Types, Ledger, NEW o \in OwnerNames, NEW freed, TryRelease(o, freed)
  PROVE  /\ Ledger'
         /\ held' \in [OwnerNames -> SUBSET Nat]
         /\ held'[o] = held[o] \ freed
         /\ \A q \in OwnerNames \ {o} : held'[q] = held[q]
         /\ live' \subseteq live
         /\ freed = held[o] => refused' \subseteq refused
         /\ handed' = handed
<1> DEFINE kept == held[o] \ freed
<1>1. /\ freed \in TryOutcomes(o)
      /\ GiveBack({o} \X freed, IF kept = {} THEN {} ELSE {<<o, Max(kept)>>})
      /\ held' = [held EXCEPT ![o] = kept]
  BY DEF TryRelease
<1>2. held[o] \in SUBSET Nat
  BY DEF Types
<1>3. freed \in SUBSET held[o]
  BY <1>1 DEF TryOutcomes
<1>4. CASE kept = {}
  <2>1. {o} \X {} = {}
    OBVIOUS
  <2>2. GiveBack({o} \X freed, {o} \X {})
    <3>1. GiveBack({o} \X freed, {})
      BY <1>1, <1>4
    <3> QED
      BY <2>1, <3>1
  <2>3. /\ Ledger'
        /\ held' \in [OwnerNames -> SUBSET Nat]
        /\ held'[o] = kept
        /\ \A q \in OwnerNames \ {o} : held'[q] = held[q]
        /\ live' \subseteq live
        /\ refused' \subseteq refused \cup ({o} \X {})
        /\ handed' = handed
    <3> HIDE DEF kept
    <3>1. {} \in SUBSET (held[o] \ freed) /\ kept \in SUBSET (held[o] \ freed)
      BY DEF kept
    <3>2. held[o] \ freed \subseteq kept \cup {}
      BY DEF kept
    <3> QED
      BY <1>1, <1>3, <2>2, <3>1, <3>2, ReleaseLedger, Zenon
  <2> QED
    BY <2>1, <2>3
<1>5. CASE kept # {}
  <2>1. PICK k \in held[o] : freed = {i \in held[o] : i > k}
    BY <1>1, <1>5 DEF TryOutcomes
  <2>2. k \in kept /\ \A i \in kept : k >= i
    BY <1>2, <2>1
  <2>3. Max(kept) \in kept
    <3> HIDE DEF kept
    <3> QED
      BY <2>2 DEF Max
  <2>4. {o} \X {Max(kept)} = {<<o, Max(kept)>>}
    <3> HIDE DEF kept
    <3> QED
      OBVIOUS
  <2>5. GiveBack({o} \X freed, {o} \X {Max(kept)})
    <3> HIDE DEF kept
    <3> QED
      BY <1>1, <1>5, <2>4
  <2>6. /\ Ledger'
        /\ held' \in [OwnerNames -> SUBSET Nat]
        /\ held'[o] = kept
        /\ \A q \in OwnerNames \ {o} : held'[q] = held[q]
        /\ live' \subseteq live
        /\ handed' = handed
    <3> HIDE DEF kept
    <3>1. {Max(kept)} \in SUBSET (held[o] \ freed) /\ kept \in SUBSET (held[o] \ freed)
      BY <2>3 DEF kept
    <3>2. held[o] \ freed \subseteq kept \cup {Max(kept)}
      BY DEF kept
    <3> QED
      BY <1>1, <1>3, <2>5, <3>1, <3>2, ReleaseLedger, Zenon
  <2> QED
    BY <1>5, <2>6
<1> QED
  BY <1>4, <1>5

-----------------------------------------------------------------------------
(* What the error paths release, and what they say about it.                *)

\* A path of destructors and releases that announces nothing.
Quiet(path) == \A j \in 1..Len(path) : path[j][1] \in {"try", "drop"}

\* The steps of two paths, one after the other.
LEMMA Joined ==
  ASSUME NEW s \in Seq(Tasks), NEW t \in Seq(Tasks)
  PROVE  /\ s \o t \in Seq(Tasks)
         /\ Len(s \o t) = Len(s) + Len(t)
         /\ \A i \in 1..Len(s) : (s \o t)[i] = s[i]
         /\ \A i \in 1..Len(t) : (s \o t)[Len(s) + i] = t[i]
         /\ \A i \in (Len(s) + 1)..Len(s \o t) : i - Len(s) \in 1..Len(t)
                                              /\ (s \o t)[i] = t[i - Len(s)]
<1>1. s \o t \in Seq(Tasks) /\ Len(s \o t) = Len(s) + Len(t)
  OBVIOUS
<1>2. \A i \in 1..Len(s) : (s \o t)[i] = s[i]
  OBVIOUS
<1>3. \A i \in 1..Len(t) : (s \o t)[Len(s) + i] = t[i]
  OBVIOUS
<1>4. \A i \in (Len(s) + 1)..Len(s \o t) : i - Len(s) \in 1..Len(t)
                                              /\ (s \o t)[i] = t[i - Len(s)]
  <2> TAKE i \in (Len(s) + 1)..Len(s \o t)
  <2>1. i - Len(s) \in 1..Len(t) /\ Len(s) + (i - Len(s)) = i
    BY <1>1
  <2> QED
    BY <1>3, <2>1
<1> QED
  BY <1>1, <1>2, <1>3, <1>4

\* A path that ends in destructors gives up what they give up.
LEMMA JoinedDiscards ==
  ASSUME NEW s \in Seq(Tasks), NEW t \in Seq(Tasks), NEW o,
         Discards(s, o) \/ Discards(t, o)
  PROVE  Discards(s \o t, o)
<1>1. CASE Discards(s, o)
  BY <1>1, Joined DEF Discards
<1>2. CASE Discards(t, o)
  <2>1. PICK i \in 1..Len(t) : t[i] \in {<<"drop", o>>, <<"once", o>>}
    BY <1>2 DEF Discards
  <2>2. Len(s) + i \in 1..Len(s \o t)
    BY Joined
  <2> QED
    BY <2>1, <2>2, Joined DEF Discards
<1> QED
  BY <1>1, <1>2

\* Two quiet paths make a quiet path.
LEMMA JoinedQuiet ==
  ASSUME NEW s \in Seq(Tasks), NEW t \in Seq(Tasks), Quiet(s), Quiet(t)
  PROVE  Quiet(s \o t)
<1> SUFFICES ASSUME NEW j \in 1..Len(s \o t) PROVE (s \o t)[j][1] \in {"try", "drop"}
  BY DEF Quiet
<1>1. CASE j \in 1..Len(s)
  BY <1>1, Joined DEF Quiet
<1>2. CASE j \in (Len(s) + 1)..Len(s \o t)
  BY <1>2, Joined DEF Quiet
<1> QED
  BY <1>1, <1>2, Joined

\* Destructors announce nothing and give up the owners they are listed for.
LEMMA DropsPath ==
  ASSUME NEW owners \in Seq(OwnerNames)
  PROVE  /\ Drops(owners) \in Seq(Tasks)
         /\ Quiet(Drops(owners))
         /\ \A i \in 1..Len(owners) : Discards(Drops(owners), owners[i])
<1>1. \A i \in 1..Len(owners) : <<"drop", owners[i]>> \in Tasks
  BY DEF Tasks
<1>2. DOMAIN owners = 1..Len(owners) /\ Len(owners) \in Nat
  OBVIOUS
<1>3. Drops(owners) \in Seq(Tasks) /\ Len(Drops(owners)) = Len(owners)
  <2> DEFINE f(i) == <<"drop", owners[i]>>
  <2>1. \A i \in 1..Len(owners) : f(i) \in Tasks
    BY <1>1
  <2>2. Drops(owners) = [i \in 1..Len(owners) |-> f(i)]
    BY <1>2 DEF Drops
  <2> HIDE DEF f
  <2>3. [i \in 1..Len(owners) |-> f(i)] \in Seq(Tasks)
    BY <1>2, <2>1
  <2>4. Len([i \in 1..Len(owners) |-> f(i)]) = Len(owners)
    BY <1>2
  <2> QED
    BY <2>2, <2>3, <2>4
<1>4. \A i \in 1..Len(owners) : Drops(owners)[i] = <<"drop", owners[i]>>
  BY <1>2 DEF Drops
<1>5. Quiet(Drops(owners))
  BY <1>3, <1>4 DEF Quiet
<1>6. \A i \in 1..Len(owners) : Discards(Drops(owners), owners[i])
  BY <1>3, <1>4, Zenon DEF Discards
<1> QED
  BY <1>3, <1>5, <1>6

\* Destructors of one, two, three and four owners.
LEMMA DropsOne ==
  ASSUME NEW a \in OwnerNames
  PROVE  /\ Drops(<<a>>) \in Seq(Tasks)
         /\ Quiet(Drops(<<a>>))
         /\ Discards(Drops(<<a>>), a)
<1> DEFINE owners == <<a>>
<1>1. owners \in Seq(OwnerNames) /\ Len(owners) = 1 /\ owners[1] = a
  OBVIOUS
<1> HIDE DEF owners
<1>2. /\ Drops(owners) \in Seq(Tasks)
      /\ Quiet(Drops(owners))
      /\ \A i \in 1..1 : Discards(Drops(owners), owners[i])
  BY <1>1, DropsPath
<1>3. Discards(Drops(owners), a)
  BY <1>1, <1>2
<1> QED
  BY <1>2, <1>3 DEF owners

LEMMA DropsTwo ==
  ASSUME NEW a \in OwnerNames, NEW b \in OwnerNames
  PROVE  /\ Drops(<<a, b>>) \in Seq(Tasks)
         /\ Quiet(Drops(<<a, b>>))
         /\ \A o \in {a, b} : Discards(Drops(<<a, b>>), o)
<1> DEFINE owners == <<a, b>>
<1>1. owners \in Seq(OwnerNames) /\ Len(owners) = 2 /\ owners[1] = a /\ owners[2] = b
  OBVIOUS
<1> HIDE DEF owners
<1>2. /\ Drops(owners) \in Seq(Tasks)
      /\ Quiet(Drops(owners))
      /\ \A i \in 1..2 : Discards(Drops(owners), owners[i])
  BY <1>1, DropsPath, Zenon
<1>3. \A o \in {a, b} : Discards(Drops(owners), o)
  BY <1>1, <1>2
<1> QED
  BY <1>2, <1>3 DEF owners

LEMMA DropsThree ==
  ASSUME NEW a \in OwnerNames, NEW b \in OwnerNames, NEW c \in OwnerNames
  PROVE  /\ Drops(<<a, b, c>>) \in Seq(Tasks)
         /\ Quiet(Drops(<<a, b, c>>))
         /\ \A o \in {a, b, c} : Discards(Drops(<<a, b, c>>), o)
<1> DEFINE owners == <<a, b, c>>
<1>1. /\ owners \in Seq(OwnerNames) /\ Len(owners) = 3
      /\ owners[1] = a /\ owners[2] = b /\ owners[3] = c
  OBVIOUS
<1> HIDE DEF owners
<1>2. /\ Drops(owners) \in Seq(Tasks)
      /\ Quiet(Drops(owners))
      /\ \A i \in 1..3 : Discards(Drops(owners), owners[i])
  BY <1>1, DropsPath
<1>3. \A o \in {a, b, c} : Discards(Drops(owners), o)
  BY <1>1, <1>2
<1> QED
  BY <1>2, <1>3 DEF owners

LEMMA DropsFour ==
  ASSUME NEW a \in OwnerNames, NEW b \in OwnerNames, NEW c \in OwnerNames,
         NEW d \in OwnerNames
  PROVE  /\ Drops(<<a, b, c, d>>) \in Seq(Tasks)
         /\ Quiet(Drops(<<a, b, c, d>>))
         /\ \A o \in {a, b, c, d} : Discards(Drops(<<a, b, c, d>>), o)
<1> DEFINE owners == <<a, b, c, d>>
<1>1. /\ owners \in Seq(OwnerNames) /\ Len(owners) = 4
      /\ owners[1] = a /\ owners[2] = b /\ owners[3] = c /\ owners[4] = d
  OBVIOUS
<1> HIDE DEF owners
<1>2. /\ Drops(owners) \in Seq(Tasks)
      /\ Quiet(Drops(owners))
      /\ \A i \in 1..4 : Discards(Drops(owners), owners[i])
  BY <1>1, DropsPath
<1>3. \A o \in {a, b, c, d} : Discards(Drops(owners), o)
  BY <1>1, <1>2
<1> QED
  BY <1>2, <1>3 DEF owners

\* The destructors of the owners that exist while the tables are built.
LEMMA HierarchyPath ==
  /\ HierarchyDropped \in Seq(Tasks)
  /\ Quiet(HierarchyDropped)
  /\ \A o \in {"tables", "stack", "kernel"} : Discards(HierarchyDropped, o)
BY DropsThree, Zenon DEF HierarchyDropped, OwnerNames

\* An error path that fits the error and the pieces held when it is taken.
Fits(error, path, has, lost) ==
  /\ path \in Seq(Tasks)
  /\ Orderly(path)
  /\ \A o \in OwnerNames : has[o] # {} => Discards(path, o)
  /\ \A j \in 1..Len(path) :
       path[j][1] = "marker" \/ (path[j][1] = "report" /\ error \in Truthful)
       => /\ lost = {}
          /\ \A o \in Announced(path[j]) :
               has[o] # {} => ReleasesBefore(path, j, o)
  /\ error \in Truthful /\ ~Reporting(path) =>
       lost = {} /\ \A o \in OwnerNames : has[o] = {}

\* A quiet path only has to give up what is held.
LEMMA QuietFits ==
  ASSUME NEW error, NEW path \in Seq(Tasks), NEW has, NEW lost, Quiet(path),
         \A o \in OwnerNames : has[o] # {} => Discards(path, o),
         error \in Truthful => lost = {} /\ \A o \in OwnerNames : has[o] = {}
  PROVE  Fits(error, path, has, lost)
<1>1. \A j \in 1..Len(path) : path[j][1] # "marker" /\ path[j][1] # "report"
  BY DEF Quiet
<1>2. Orderly(path)
  BY <1>1 DEF Orderly, Announces
<1> QED
  BY <1>1, <1>2 DEF Fits

\* ScratchPages::release: the source is released, then the answer is looked at.
LEMMA SourcePath ==
  ASSUME NEW error, NEW has, NEW lost,
         \A o \in OwnerNames : has[o] # {} => o = "source",
         error \in Truthful => lost = {}
  PROVE  Fits(error, SourceReleased, has, lost)
<1> DEFINE path == SourceReleased
<1>1. /\ path \in Seq(Tasks) /\ Len(path) = 2
      /\ path[1] = <<"once", "source">> /\ path[2] = <<"report", "Free">>
  BY DEF SourceReleased, Tasks, OwnerNames
<1> HIDE DEF path
<1>2. Orderly(path)
  BY <1>1 DEF Orderly, Announces
<1>3. \A o \in OwnerNames : has[o] # {} => Discards(path, o)
  BY <1>1 DEF Discards
<1>4. \A j \in 1..Len(path) : path[j][1] \in {"marker", "report"} =>
        \A o \in OwnerNames : has[o] # {} => ReleasesBefore(path, j, o)
  BY <1>1 DEF ReleasesBefore
<1>5. \A j \in 1..Len(path) : path[j][1] # "marker"
  BY <1>1
<1>6. Reporting(path)
  BY <1>1 DEF Reporting
<1>7. \A j \in 1..Len(path) : path[j][1] = "report" => Announced(path[j]) = OwnerNames
  BY <1>1 DEF Announced
<1>8. Fits(error, path, has, lost)
  BY <1>1, <1>2, <1>3, <1>4, <1>5, <1>6, <1>7 DEF Fits
<1> QED
  BY <1>8 DEF path

\* LoadWorkFailure: targets and source are released before the answer counts.
LEMMA TargetPath ==
  ASSUME NEW error, NEW has, NEW lost,
         \A o \in OwnerNames : has[o] # {} => o \in {"source", "kernel"},
         error \in Truthful => lost = {}
  PROVE  Fits(error, TargetFailure, has, lost)
<1> DEFINE path == TargetFailure
<1>1. /\ path \in Seq(Tasks) /\ Len(path) = 4
      /\ path[1] = <<"try", "kernel">> /\ path[2] = <<"once", "source">>
      /\ path[3] = <<"report", "Free">> /\ path[4] = <<"drop", "kernel">>
  BY DEF TargetFailure, Tasks, OwnerNames
<1> HIDE DEF path
<1>2. Orderly(path)
  <2>1. \A j \in 1..Len(path) : Announces(path, j) => j = 3
    BY <1>1 DEF Announces
  <2>2. \A i \in 1..(3 - 1) : path[i][1] \in {"try", "once"}
    BY <1>1
  <2> QED
    BY <2>1, <2>2 DEF Orderly
<1>3. \A o \in OwnerNames : has[o] # {} => Discards(path, o)
  <2>1. 2 \in 1..Len(path) /\ 4 \in 1..Len(path)
    BY <1>1
  <2>2. Discards(path, "source")
    BY <1>1, <2>1, Zenon DEF Discards
  <2>3. Discards(path, "kernel")
    BY <1>1, <2>1, Zenon DEF Discards
  <2> QED
    BY <2>2, <2>3
<1>4. \A j \in 1..Len(path) : path[j][1] \in {"marker", "report"} =>
        \A o \in OwnerNames : has[o] # {} => ReleasesBefore(path, j, o)
  <2>1. \A j \in 1..Len(path) : path[j][1] \in {"marker", "report"} => j = 3
    BY <1>1
  <2>2. 1 \in 1..(3 - 1) /\ 2 \in 1..(3 - 1)
    OBVIOUS
  <2>3. ReleasesBefore(path, 3, "source")
    BY <1>1, <2>2, Zenon DEF ReleasesBefore
  <2>4. ReleasesBefore(path, 3, "kernel")
    BY <1>1, <2>2, Zenon DEF ReleasesBefore
  <2> QED
    BY <2>1, <2>3, <2>4
<1>5. \A j \in 1..Len(path) : path[j][1] # "marker"
  BY <1>1
<1>6. Reporting(path)
  BY <1>1 DEF Reporting
<1>7. \A j \in 1..Len(path) : path[j][1] = "report" => Announced(path[j]) = OwnerNames
  BY <1>1 DEF Announced
<1>8. Fits(error, path, has, lost)
  BY <1>1, <1>2, <1>3, <1>4, <1>5, <1>6, <1>7 DEF Fits
<1> QED
  BY <1>8 DEF path

\* A refused source is followed by a release of the kernel.
LEMMA KernelPath ==
  LET path == <<<<"try", "kernel">>, <<"drop", "kernel">>>> IN
  path \in Seq(Tasks) /\ Quiet(path) /\ Discards(path, "kernel")
<1> DEFINE path == <<<<"try", "kernel">>, <<"drop", "kernel">>>>
<1>1. /\ path \in Seq(Tasks) /\ Len(path) = 2
      /\ path[1] = <<"try", "kernel">> /\ path[2] = <<"drop", "kernel">>
  BY DEF Tasks, OwnerNames
<1> HIDE DEF path
<1>2. Quiet(path)
  BY <1>1 DEF Quiet
<1>3. Discards(path, "kernel")
  BY <1>1 DEF Discards
<1> QED
  BY <1>1, <1>2, <1>3 DEF path

\* PendingBuffers first, then what exists beside them.
LEMMA PendingPath ==
  /\ PendingDropped \in Seq(Tasks)
  /\ Quiet(PendingDropped)
  /\ \A o \in {"buffers", "tables", "stack", "kernel"} : Discards(PendingDropped, o)
<1> DEFINE path == <<<<"try", "buffers">>, <<"drop", "buffers">>>>
<1>1. /\ path \in Seq(Tasks) /\ Len(path) = 2
      /\ path[1] = <<"try", "buffers">> /\ path[2] = <<"drop", "buffers">>
  BY DEF Tasks, OwnerNames
<1>2. PendingDropped = path \o HierarchyDropped
  BY DEF PendingDropped
<1> HIDE DEF path
<1>3. Quiet(path)
  BY <1>1 DEF Quiet
<1>4. Discards(path, "buffers")
  BY <1>1 DEF Discards
<1>5. PendingDropped \in Seq(Tasks)
  BY <1>1, <1>2, HierarchyPath, Joined
<1>6. Quiet(PendingDropped)
  BY <1>1, <1>2, <1>3, HierarchyPath, JoinedQuiet
<1>7. \A o \in {"buffers", "tables", "stack", "kernel"} : Discards(PendingDropped, o)
  BY <1>1, <1>2, <1>4, HierarchyPath, JoinedDiscards
<1> QED
  BY <1>5, <1>6, <1>7

\* Explicit releases, the marker that announces them, then destructors.
LEMMA MarkedPath ==
  ASSUME NEW error, NEW has, NEW s \in Seq(Tasks), NEW t \in Seq(Tasks),
         error \notin Truthful, Quiet(t), Len(s) \in Nat \ {0},
         s[Len(s)][1] = "marker",
         \A i \in 1..(Len(s) - 1) : s[i][1] = "try",
         \A o \in Announced(s[Len(s)]) : has[o] # {} =>
           \E i \in 1..(Len(s) - 1) : s[i] = <<"try", o>>,
         \A o \in OwnerNames : has[o] # {} => Discards(t, o)
  PROVE  Fits(error, s \o t, has, {})
<1> DEFINE path == s \o t
<1> DEFINE n == Len(s)
<1>1. /\ path \in Seq(Tasks) /\ n \in 1..Len(path)
      /\ \A i \in 1..n : path[i] = s[i]
      /\ \A i \in (n + 1)..Len(path) : path[i][1] \in {"try", "drop"}
  <2>1. \A i \in (n + 1)..Len(path) : i - n \in 1..Len(t) /\ path[i] = t[i - n]
    BY Joined
  <2>2. \A i \in (n + 1)..Len(path) : path[i][1] \in {"try", "drop"}
    BY <2>1 DEF Quiet
  <2>3. Len(t) \in Nat
    OBVIOUS
  <2> QED
    BY <2>2, <2>3, Joined
<1>2. \A o \in OwnerNames : has[o] # {} => Discards(path, o)
  BY JoinedDiscards
<1> HIDE DEF path
<1>3. \A j \in 1..Len(path) : path[j][1] \in {"marker", "report"} => j = n
  <2> SUFFICES ASSUME NEW j \in 1..Len(path), path[j][1] \in {"marker", "report"}, j # n
               PROVE  FALSE
    OBVIOUS
  <2>1. j \in 1..(n - 1) \/ j \in (n + 1)..Len(path)
    BY <1>1
  <2>2. CASE j \in 1..(n - 1)
    BY <1>1, <2>2
  <2>3. CASE j \in (n + 1)..Len(path)
    BY <1>1, <2>3, Zenon
  <2> QED
    BY <2>1, <2>2, <2>3
<1>4. \A i \in 1..(n - 1) : path[i] = s[i] /\ path[i][1] = "try"
  BY <1>1
<1>5. Orderly(path)
  BY <1>3, <1>4 DEF Orderly, Announces
<1>6. \A o \in Announced(path[n]) : has[o] # {} => ReleasesBefore(path, n, o)
  <2>1. path[n] = s[n]
    BY <1>1
  <2>2. \A o \in Announced(s[n]) : has[o] # {} =>
          \E i \in 1..(n - 1) : path[i] = <<"try", o>>
    BY <1>4, ZenonT(30)
  <2>3. ASSUME NEW o \in Announced(path[n]), has[o] # {}
        PROVE  \E i \in 1..(n - 1) : path[i] = <<"try", o>>
    BY <2>1, <2>2, <2>3, Zenon
  <2> QED
    BY <2>3, Zenon DEF ReleasesBefore
<1>7. \A j \in 1..Len(path) :
        path[j][1] = "marker" \/ (path[j][1] = "report" /\ error \in Truthful)
        => \A o \in Announced(path[j]) : has[o] # {} => ReleasesBefore(path, j, o)
  BY <1>3, <1>6
<1>8. Fits(error, path, has, {})
  BY <1>1, <1>2, <1>5, <1>7 DEF Fits
<1> QED
  BY <1>8 DEF path

\* PageTableFrameOwner::allocate has released its frames before the marker.
LEMMA RollbackPath ==
  ASSUME NEW has,
         \A o \in OwnerNames : has[o] # {} => o \in {"tables", "stack", "kernel"}
  PROVE  Fits("PageTable", RollbackTables, has, {})
<1> DEFINE a == <<<<"try", "tables">>>>
<1> DEFINE b == IF build = "table_failure" THEN <<<<"marker", "table_rollback">>>> ELSE <<>>
<1> DEFINE s == a \o b
<1>1. RollbackTables = s \o HierarchyDropped
  BY DEF RollbackTables
<1>2. a \in Seq(Tasks) /\ Len(a) = 1 /\ a[1] = <<"try", "tables">>
  BY DEF Tasks, OwnerNames
<1>3. \A o \in OwnerNames : has[o] # {} => Discards(HierarchyDropped, o)
  BY HierarchyPath
<1>4. "PageTable" \notin Truthful
  BY DEF Truthful
<1>5. CASE build = "table_failure"
  <2>1. b \in Seq(Tasks) /\ Len(b) = 1 /\ b[1] = <<"marker", "table_rollback">>
    BY <1>5 DEF Tasks, Markers
  <2> HIDE DEF a, b
  <2>2. s \in Seq(Tasks) /\ Len(s) = 2 /\ s[1] = a[1] /\ s[1 + 1] = b[1]
    BY <1>2, <2>1, Joined
  <2> HIDE DEF s
  <2>3. /\ s[2] = <<"marker", "table_rollback">>
        /\ \A i \in 1..(Len(s) - 1) : s[i] = <<"try", "tables">>
    BY <1>2, <2>1, <2>2
  <2>4. \A o \in Announced(s[Len(s)]) : has[o] # {} =>
          \E i \in 1..(Len(s) - 1) : s[i] = <<"try", o>>
    BY <1>2, <2>2, <2>3 DEF Announced
  <2>5. /\ Len(s) \in Nat \ {0} /\ s[Len(s)][1] = "marker"
        /\ \A i \in 1..(Len(s) - 1) : s[i][1] = "try"
    BY <2>2, <2>3
  <2>6. HierarchyDropped \in Seq(Tasks) /\ Quiet(HierarchyDropped)
    BY HierarchyPath
  <2>7. Fits("PageTable", s \o HierarchyDropped, has, {})
    BY <1>3, <1>4, <2>2, <2>4, <2>5, <2>6, MarkedPath, Zenon
  <2> QED
    BY <1>1, <2>7
<1>6. CASE build # "table_failure"
  <2>1. b \in Seq(Tasks) /\ Len(b) = 0
    BY <1>6
  <2> HIDE DEF a, b
  <2>2. s \in Seq(Tasks) /\ Len(s) = 1 /\ s[1] = a[1]
    BY <1>2, <2>1, Joined
  <2> HIDE DEF s
  <2>3. Quiet(s)
    BY <1>2, <2>2 DEF Quiet
  <2>4. RollbackTables \in Seq(Tasks) /\ Quiet(RollbackTables)
    BY <1>1, <2>2, <2>3, HierarchyPath, Joined, JoinedQuiet, Zenon
  <2>5. \A o \in OwnerNames : has[o] # {} => Discards(RollbackTables, o)
    BY <1>1, <1>3, <2>2, HierarchyPath, JoinedDiscards, Zenon
  <2> QED
    BY <1>4, <2>4, <2>5, QuietFits
<1> QED
  BY <1>5, <1>6

\* cpu-readiness-failure-test releases every owner before its marker.
LEMMA CpuFailurePath ==
  ASSUME NEW has,
         \A o \in OwnerNames : has[o] # {} => o \in {"tables", "stack", "kernel"}
  PROVE  Fits("CpuPolicy", CpuFailure, has, {})
<1> DEFINE s == <<<<"try", "tables">>, <<"try", "stack">>, <<"try", "kernel">>,
                  <<"marker", "cpu_rollback">>>>
<1>1. CpuFailure = s \o HierarchyDropped
  BY DEF CpuFailure
<1>2. /\ s \in Seq(Tasks) /\ Len(s) = 4
      /\ s[1] = <<"try", "tables">> /\ s[2] = <<"try", "stack">>
      /\ s[3] = <<"try", "kernel">> /\ s[4] = <<"marker", "cpu_rollback">>
  BY DEF Tasks, OwnerNames, Markers
<1> HIDE DEF s
<1>3. 1 \in 1..(4 - 1) /\ 2 \in 1..(4 - 1) /\ 3 \in 1..(4 - 1)
  OBVIOUS
<1>4. \A i \in 1..(Len(s) - 1) : s[i][1] = "try"
  BY <1>2
<1>5. \A o \in {"tables", "stack", "kernel"} : \E i \in 1..(Len(s) - 1) : s[i] = <<"try", o>>
  BY <1>2, <1>3
<1>6. \A o \in OwnerNames : has[o] # {} => Discards(HierarchyDropped, o)
  BY HierarchyPath
<1>7. Announced(s[Len(s)]) = OwnerNames /\ s[Len(s)][1] = "marker"
  BY <1>2 DEF Announced
<1>8. \A o \in Announced(s[Len(s)]) : has[o] # {} =>
        \E i \in 1..(Len(s) - 1) : s[i] = <<"try", o>>
  BY <1>5, <1>7, Zenon
<1>9. "CpuPolicy" \notin Truthful
  BY DEF Truthful
<1>10. HierarchyDropped \in Seq(Tasks) /\ Quiet(HierarchyDropped)
  BY HierarchyPath
<1>11. s \in Seq(Tasks) /\ Len(s) \in Nat \ {0}
  BY <1>2
<1>12. Fits("CpuPolicy", s \o HierarchyDropped, has, {})
  BY <1>4, <1>6, <1>7, <1>8, <1>9, <1>10, <1>11, MarkedPath, Zenon
<1> QED
  BY <1>1, <1>12

-----------------------------------------------------------------------------
(* Steps of the loader that are not on an error path.                       *)

\* Owners that may have pieces, by operation.
Holders(at) ==
  CASE at \in {"load", "release_probe"} -> {}
    [] at \in {"read", "plan"} -> {"source"}
    [] at \in Placing -> {"source", "kernel"}
    [] at \in {"probe", "stack", "release_kernel"} -> {"kernel"}
    [] at = "release_info" -> {"buffers", "kernel"}
    [] at = "plan_tables" -> {"stack", "kernel"}
    [] at \in Building \ {"plan_tables"} -> {"tables", "stack", "kernel"}
    [] OTHER -> {"buffers", "tables", "stack", "kernel"}

LEMMA HeldAt ==
  ASSUME Types, Stock, pc \in Working
  PROVE  \A o \in OwnerNames : held[o] # {} => o \in Holders(pc)
<1> USE DEF Placing, Building, Describing, Returning, Leaving, OwnerNames
<1>1. held["source"] # {} => pc \in {"read", "plan"} \cup Placing
  BY DEF Stock
<1>2. held["kernel"] # {} => pc \notin {"load", "read", "plan", "release_probe"}
  BY DEF Stock
<1>3. held["stack"] # {} => pc \in Building \cup Describing \cup Leaving
  BY DEF Stock
<1>4. held["tables"] # {} => pc \in (Building \ {"plan_tables"}) \cup Describing \cup Leaving
  BY DEF Stock
<1>5. held["buffers"] # {} => pc \in {"release_info"} \cup Describing \cup Leaving
  BY DEF Stock
<1> QED
  BY <1>1, <1>2, <1>3, <1>4, <1>5 DEF Holders, Working

\* An error path starts.
LEMMA Failing ==
  ASSUME IInv, pc \in Working, NEW error, NEW path,
         Fail(error, path), Fits(error, path, held', refused'),
         Ledger', held' \in [OwnerNames -> SUBSET Nat], handed' = handed,
         phase' \in {"provisional", "prepared", "rolled_back"}
  PROVE  IInv'
<1>1. /\ pc' = "unwind" /\ result' = error /\ todo' = path /\ clean' = TRUE
      /\ build' = build /\ markers' = markers
  BY DEF Fail
<1>2. pc \notin Over /\ pc \notin Left
  BY DEF Working, Over, Left, Placing, Building, Describing, Returning, Leaving
<1>3. /\ pc' \in Over /\ pc' \notin Working /\ pc' \notin Left /\ pc' \notin Returning
      /\ pc' \notin Building /\ pc' \notin Placing
  BY <1>1, Zenon DEF Working, Over, Left, Placing, Building, Describing, Returning, Leaving
<1>4. markers = {} /\ handed = {}
  BY <1>2, ZenonT(30) DEF IInv, Unwinding, Crossed
<1>5. Types'
  BY <1>1, <1>3 DEF IInv, Types, Fits
<1>6. Stock'
  BY <1>1, <1>3 DEF Stock
<1>7. Crossed'
  BY <1>1, <1>3, <1>4 DEF Crossed
<1>8. InStep'
  BY <1>1, <1>3, ZenonT(30) DEF InStep
<1>9. Unwinding'
  <2>1. pc' # "returned" /\ todo' \in Seq(Tasks)
    BY <1>1 DEF Fits
  <2>2. Orderly(todo')
    BY <1>1 DEF Fits
  <2>3. \A o \in OwnerNames : held'[o] # {} => Discards(todo', o)
    BY <1>1, Zenon DEF Fits
  <2>4. \A j \in 1..Len(todo') :
          /\ clean'
          /\ todo'[j][1] = "marker" \/ (todo'[j][1] = "report" /\ result' \in Truthful)
          => /\ refused' = {}
             /\ \A o \in Announced(todo'[j]) : held'[o] # {} => ReleasesBefore(todo', j, o)
    BY <1>1, ZenonT(30) DEF Fits
  <2>5. result' \in Truthful =>
          /\ ~clean' => Reporting(todo')
          /\ clean' /\ ~Reporting(todo') =>
               refused' = {} /\ \A o \in OwnerNames : held'[o] = {}
    BY <1>1 DEF Fits
  <2> QED
    BY <1>3, <2>1, <2>2, <2>3, <2>4, <2>5, ZenonT(30) DEF Unwinding
<1>10. RollbackMarkersTruthful'
  BY <1>1, <1>4 DEF RollbackMarkersTruthful
<1> QED
  BY <1>5, <1>6, <1>7, <1>8, <1>9, <1>10, Zenon DEF IInv

\* The next operation before the boundary follows.
LEMMA Moving ==
  ASSUME IInv, pc \in Working, NEW next \in Working, Goto(next),
         Ledger', held' \in [OwnerNames -> SUBSET Nat], handed' = handed,
         Stock', InStep'
  PROVE  IInv'
<1>1. pc' = next /\ UNCHANGED <<build, todo, clean, result, markers>>
  BY DEF Goto, control
<1>2. pc \notin Over /\ pc \notin Left
  BY DEF Working, Over, Left, Placing, Building, Describing, Returning, Leaving
<1>3. /\ pc' \in Working /\ pc' \notin Over /\ pc' \notin Left
      /\ pc' \notin {"jump", "kernel", "returned"}
  BY <1>1 DEF Working, Over, Left, Placing, Building, Describing, Returning, Leaving
<1>4. markers = {} /\ handed = {}
  BY <1>2 DEF IInv, Unwinding, Crossed
<1>5. Types'
  BY <1>1, <1>3 DEF IInv, Types
<1>6. Crossed'
  BY <1>3, <1>4, ZenonT(30) DEF Crossed
<1>7. Unwinding'
  BY <1>1, <1>3, <1>4 DEF Unwinding
<1>8. RollbackMarkersTruthful'
  BY <1>1, <1>4 DEF RollbackMarkersTruthful
<1> QED
  BY <1>5, <1>6, <1>7, <1>8 DEF IInv

\* Ownership as a whole is left alone.
LEMMA PagesStay ==
  ASSUME Types, Ledger, UNCHANGED pages
  PROVE  /\ Ledger' /\ held' \in [OwnerNames -> SUBSET Nat]
         /\ held' = held /\ refused' = refused /\ handed' = handed /\ live' = live
<1>1. UNCHANGED <<held, handed, live, refused, faults>>
  BY DEF pages
<1>2. Ledger'
  BY <1>1 DEF Ledger
<1> QED
  BY <1>1, <1>2 DEF Types

\* A page that is given back at once, or lost.
LEMMA TakeEffect ==
  ASSUME Types, Ledger, NEW page, NEW freed \in BOOLEAN, TakeAndReturn(page, freed)
  PROVE  /\ Ledger' /\ held' \in [OwnerNames -> SUBSET Nat]
         /\ held' = held /\ handed' = handed
         /\ freed => refused' = refused
<1>1. /\ UNCHANGED <<held, handed, faults>>
      /\ live' \subseteq live \cup {page} /\ live \subseteq live'
      /\ live' = live \/ page \in refused'
      /\ refused \subseteq refused'
      /\ freed => refused' = refused
  BY DEF TakeAndReturn
<1>2. Ledger'
  BY <1>1 DEF Ledger
<1> QED
  BY <1>1, <1>2 DEF Types

\* A check that touches no page and leaves the exit protocol where it is.
LEMMA CheckStep ==
  ASSUME IInv, NEW here \in Working \ {"final_map", "cross"}, NEW ok,
         NEW next \in Working, NEW error, NEW path,
         Check(here, ok, next, error, path), phase' = phase,
         Fits(error, path, held, refused),
         pc' = next /\ UNCHANGED <<held, refused, build>> => Stock',
         pc' = next => InStep'
  PROVE  IInv'
<1>1. /\ pc = here /\ (IF ok THEN Goto(next) ELSE Fail(error, path))
      /\ UNCHANGED pages
  BY DEF Check
<1>2. /\ Ledger' /\ held' \in [OwnerNames -> SUBSET Nat]
      /\ held' = held /\ refused' = refused /\ handed' = handed
  BY <1>1, PagesStay DEF IInv
<1>3. CASE ok
  <2>1. Goto(next) /\ pc' = next /\ build' = build
    BY <1>1, <1>3 DEF Goto
  <2>2. Stock' /\ InStep'
    BY <1>2, <2>1
  <2> QED
    BY <1>1, <1>2, <2>1, <2>2, Moving, ZenonT(30)
<1>4. CASE ~ok
  <2>1. Fail(error, path)
    BY <1>1, <1>4
  <2>2. phase' \in {"provisional", "prepared"}
    BY <1>1 DEF IInv, InStep, Working, Placing, Building, Describing, Returning, Leaving
  <2> QED
    BY <1>1, <1>2, <2>1, <2>2, Failing, ZenonT(30)
<1> QED
  BY <1>3, <1>4

\* The calls of boot services that are not part of the exit protocol.
LEMMA OtherCallStays == OtherCall \/ UNCHANGED boundary => phase' = phase
BY DEF OtherCall, boundary

\* Reading and planning: only the source is held.
LEMMA ReadChecks ==
  ASSUME IInv, NEW ok \in BOOLEAN,
         ReadKernel(ok) \/ PlanTargets(ok)
  PROVE  IInv'
<1> USE DEF Working, Placing, Building, Describing, Returning, Leaving
<1>0. Types /\ Stock /\ InStep /\ (pc \in Working => refused = {})
  BY DEF IInv, Stock
<1>1. CASE ReadKernel(ok)
  <2>1. /\ Check("read", ok, "plan", "Read", SourceReleased)
        /\ pc = "read" /\ phase' = phase
    BY <1>1, OtherCallStays, ZenonT(30) DEF ReadKernel, Check
  <2>2. \A o \in OwnerNames : held[o] # {} => o = "source"
    BY <1>0, <2>1, HeldAt DEF Holders
  <2>3. Fits("Read", SourceReleased, held, refused)
    BY <1>0, <2>1, <2>2, SourcePath, ZenonT(30)
  <2>4. pc' = "plan" /\ UNCHANGED <<held, refused, build>> => Stock'
    BY <1>0, <2>1 DEF Stock
  <2>5. pc' = "plan" => InStep'
    BY <1>0, <2>1 DEF InStep, Over
  <2> QED
    BY <2>1, <2>3, <2>4, <2>5, CheckStep
<1>2. CASE PlanTargets(ok)
  <2>1. /\ Check("plan", ok, "allocate", "Plan", SourceReleased)
        /\ pc = "plan" /\ phase' = phase
    BY <1>2, OtherCallStays, ZenonT(30) DEF PlanTargets, Check
  <2>2. \A o \in OwnerNames : held[o] # {} => o = "source"
    BY <1>0, <2>1, HeldAt DEF Holders
  <2>3. Fits("Plan", SourceReleased, held, refused)
    BY <1>0, <2>1, <2>2, SourcePath
  <2>4. pc' = "allocate" /\ UNCHANGED <<held, refused, build>> => Stock'
    <3>1. 0 \in 0..(Segments - 1) /\ 1..0 = {}
      BY BootPipelineAssumption
    <3> QED
      BY <1>0, <2>1, <3>1, Zenon DEF Stock, Handoff
  <2>5. pc' = "allocate" => InStep'
    BY <1>0, <2>1 DEF InStep, Over
  <2> QED
    BY <2>1, <2>3, <2>4, <2>5, CheckStep, Zenon
<1> QED
  BY <1>1, <1>2, ZenonT(30)

\* Zeroing, copying, verifying: targets and source are held.
LEMMA TargetChecks ==
  ASSUME IInv, NEW ok \in BOOLEAN,
         ZeroTargets(ok) \/ CopyTargets(ok) \/ VerifyTargets(ok) \/ RecheckSource(ok)
  PROVE  IInv'
<1> USE DEF Working, Placing, Building, Describing, Returning, Leaving
<1>0. Types /\ Stock /\ InStep /\ (pc \in Working => refused = {})
  BY DEF IInv, Stock
<1>1. CASE ZeroTargets(ok)
  <2>1. /\ Check("zero", ok, "copy", "Zero", TargetFailure)
        /\ pc = "zero" /\ phase' = phase
    BY <1>1, OtherCallStays, ZenonT(30) DEF ZeroTargets, Check
  <2>2. \A o \in OwnerNames : held[o] # {} => o \in {"source", "kernel"}
    BY <1>0, <2>1, HeldAt, ZenonT(30) DEF Holders
  <2>3. Fits("Zero", TargetFailure, held, refused)
    BY <1>0, <2>1, <2>2, TargetPath, SMTT(30)
  <2>4. pc' = "copy" /\ UNCHANGED <<held, refused, build>> => Stock'
    BY <1>0, <2>1 DEF Stock
  <2>5. pc' = "copy" => InStep'
    BY <1>0, <2>1 DEF InStep, Over
  <2> QED
    BY <2>1, <2>3, <2>4, <2>5, CheckStep
<1>2. CASE CopyTargets(ok)
  <2>1. /\ Check("copy", ok, "verify", "Copy", TargetFailure)
        /\ pc = "copy" /\ phase' = phase
    BY <1>2, OtherCallStays, ZenonT(30) DEF CopyTargets, Check
  <2>2. \A o \in OwnerNames : held[o] # {} => o \in {"source", "kernel"}
    BY <1>0, <2>1, HeldAt, Zenon DEF Holders
  <2>3. Fits("Copy", TargetFailure, held, refused)
    BY <1>0, <2>1, <2>2, TargetPath, ZenonT(30)
  <2>4. pc' = "verify" /\ UNCHANGED <<held, refused, build>> => Stock'
    BY <1>0, <2>1, ZenonT(30) DEF Stock
  <2>5. pc' = "verify" => InStep'
    BY <1>0, <2>1 DEF InStep, Over
  <2> QED
    BY <2>1, <2>3, <2>4, <2>5, CheckStep
<1>3. CASE VerifyTargets(ok)
  <2>1. /\ Check("verify", ok, "recheck", "Verify", TargetFailure)
        /\ pc = "verify" /\ phase' = phase
    BY <1>3, OtherCallStays, ZenonT(30) DEF VerifyTargets, Check
  <2>2. \A o \in OwnerNames : held[o] # {} => o \in {"source", "kernel"}
    BY <1>0, <2>1, HeldAt, Zenon DEF Holders
  <2>3. Fits("Verify", TargetFailure, held, refused)
    BY <1>0, <2>1, <2>2, TargetPath, SMTT(30)
  <2>4. pc' = "recheck" /\ UNCHANGED <<held, refused, build>> => Stock'
    BY <1>0, <2>1 DEF Stock
  <2>5. pc' = "recheck" => InStep'
    BY <1>0, <2>1 DEF InStep, Over
  <2> QED
    BY <2>1, <2>3, <2>4, <2>5, CheckStep
<1>4. CASE RecheckSource(ok)
  <2>1. /\ Check("recheck", ok, "metadata", "Verify", TargetFailure)
        /\ pc = "recheck" /\ phase' = phase
    BY <1>4, OtherCallStays, ZenonT(30) DEF RecheckSource, Check
  <2>2. \A o \in OwnerNames : held[o] # {} => o \in {"source", "kernel"}
    BY <1>0, <2>1, HeldAt DEF Holders
  <2>3. Fits("Verify", TargetFailure, held, refused)
    BY <1>0, <2>1, <2>2, TargetPath, ZenonT(30)
  <2>4. pc' = "metadata" /\ UNCHANGED <<held, refused, build>> => Stock'
    BY <1>0, <2>1, ZenonT(30) DEF Stock
  <2>5. pc' = "metadata" => InStep'
    BY <1>0, <2>1 DEF InStep, Over
  <2> QED
    BY <2>1, <2>3, <2>4, <2>5, CheckStep, ZenonT(30)
<1> QED
  BY <1>1, <1>2, <1>3, <1>4, SMTT(30)

\* Building the tables: the stack and the tables are held with the kernel.
LEMMA HierarchyChecks ==
  ASSUME IInv, NEW ok \in BOOLEAN,
         MaterializeTables(ok) \/ VerifyTables(ok) \/ ClassifyHierarchy(ok) \/ CheckCr3First
  PROVE  IInv'
<1> USE DEF Working, Placing, Building, Describing, Returning, Leaving
<1>0. Types /\ Stock /\ InStep /\ (pc \in Working => refused = {})
  BY DEF IInv, Stock
<1>p. /\ HierarchyDropped \in Seq(Tasks) /\ Quiet(HierarchyDropped)
      /\ \A o \in {"tables", "stack", "kernel"} : Discards(HierarchyDropped, o)
  BY HierarchyPath
<1>t. \A error \in {"PageTable", "CpuPolicy", "Cr3Stability", "Reserve", "BootInfo"} :
        error \notin Truthful
  BY DEF Truthful
<1>1. CASE MaterializeTables(ok)
  <2>1. /\ Check("materialize", ok, "verify_tables", "PageTable", HierarchyDropped)
        /\ pc = "materialize" /\ phase' = phase
    BY <1>1, OtherCallStays, ZenonT(30) DEF MaterializeTables, Check
  <2>2. \A o \in OwnerNames : held[o] # {} => Discards(HierarchyDropped, o)
    BY <1>0, <1>p, <2>1, HeldAt, ZenonT(30) DEF Holders
  <2>3. Fits("PageTable", HierarchyDropped, held, refused)
    BY <1>p, <1>t, <2>2, QuietFits, SMTT(30)
  <2>4. pc' = "verify_tables" /\ UNCHANGED <<held, refused, build>> => Stock'
    BY <1>0, <2>1 DEF Stock, Handoff
  <2>5. pc' = "verify_tables" => InStep'
    BY <1>0, <2>1, Zenon DEF InStep, Over
  <2> QED
    BY <2>1, <2>3, <2>4, <2>5, CheckStep
<1>2. CASE VerifyTables(ok)
  <2>1. /\ Check("verify_tables", ok, "cpu", "PageTable", HierarchyDropped)
        /\ pc = "verify_tables" /\ phase' = phase
    BY <1>2, OtherCallStays, ZenonT(30) DEF VerifyTables, Check
  <2>2. \A o \in OwnerNames : held[o] # {} => Discards(HierarchyDropped, o)
    BY <1>0, <1>p, <2>1, HeldAt, ZenonT(30) DEF Holders
  <2>3. Fits("PageTable", HierarchyDropped, held, refused)
    BY <1>p, <1>t, <2>2, QuietFits
  <2>4. pc' = "cpu" /\ UNCHANGED <<held, refused, build>> => Stock'
    BY <1>0, <2>1 DEF Stock, Handoff
  <2>5. pc' = "cpu" => InStep'
    BY <1>0, <2>1 DEF InStep, Over
  <2> QED
    BY <2>1, <2>3, <2>4, <2>5, CheckStep, ZenonT(30)
<1>3. CASE ClassifyHierarchy(ok)
  <2>1. /\ Check("classify", ok, "cr3_first", "CpuPolicy", HierarchyDropped)
        /\ pc = "classify" /\ phase' = phase
    BY <1>3, OtherCallStays, ZenonT(30) DEF ClassifyHierarchy, Check
  <2>2. \A o \in OwnerNames : held[o] # {} => Discards(HierarchyDropped, o)
    BY <1>0, <1>p, <2>1, HeldAt, ZenonT(30) DEF Holders
  <2>3. Fits("CpuPolicy", HierarchyDropped, held, refused)
    BY <1>p, <1>t, <2>2, QuietFits, SMTT(30)
  <2>4. pc' = "cr3_first" /\ UNCHANGED <<held, refused, build>> => Stock'
    BY <1>0, <2>1 DEF Stock, Handoff
  <2>5. pc' = "cr3_first" => InStep'
    BY <1>0, <2>1 DEF InStep, Over
  <2> QED
    BY <2>1, <2>3, <2>4, <2>5, CheckStep
<1>4. CASE CheckCr3First
  <2>1. /\ Check("cr3_first", cr3 = token, "buffers", "Cr3Stability", HierarchyDropped)
        /\ pc = "cr3_first" /\ phase' = phase
    BY <1>4, OtherCallStays, ZenonT(30) DEF CheckCr3First, Check
  <2>2. \A o \in OwnerNames : held[o] # {} => Discards(HierarchyDropped, o)
    BY <1>0, <1>p, <2>1, HeldAt, ZenonT(30) DEF Holders
  <2>3. Fits("Cr3Stability", HierarchyDropped, held, refused)
    BY <1>p, <1>t, <2>2, QuietFits, SMTT(30)
  <2>4. pc' = "buffers" /\ UNCHANGED <<held, refused, build>> => Stock'
    BY <1>0, <2>1 DEF Stock, Handoff
  <2>5. pc' = "buffers" => InStep'
    BY <1>0, <2>1 DEF InStep, Over
  <2> QED
    BY <2>1, <2>3, <2>4, <2>5, CheckStep
<1> QED
  BY <1>1, <1>2, <1>3, <1>4, SMTT(30)

\* Everything but the source is held when the exit is prepared.
LEMMA LeavingChecks ==
  ASSUME IInv, NEW ok \in BOOLEAN,
         ConfirmReservation(ok) \/ CheckCr3Second \/ BuildExitReady
  PROVE  IInv'
<1> USE DEF Working, Placing, Building, Describing, Returning, Leaving
<1>0. Types /\ Stock /\ InStep /\ (pc \in Working => refused = {})
  BY DEF IInv, Stock
<1>p. /\ AllDropped \in Seq(Tasks) /\ Quiet(AllDropped)
      /\ \A o \in {"tables", "buffers", "stack", "kernel"} : Discards(AllDropped, o)
  BY DropsFour, Zenon DEF AllDropped, OwnerNames
<1>t. \A error \in {"PageTable", "CpuPolicy", "Cr3Stability", "Reserve", "BootInfo"} :
        error \notin Truthful
  BY DEF Truthful
<1>1. CASE ConfirmReservation(ok)
  <2>1. /\ Check("confirm", ok, "cr3_second", "Reserve", AllDropped)
        /\ pc = "confirm" /\ phase' = phase
    BY <1>1, OtherCallStays, ZenonT(30) DEF ConfirmReservation, Check
  <2>2. \A o \in OwnerNames : held[o] # {} => Discards(AllDropped, o)
    BY <1>0, <1>p, <2>1, HeldAt, ZenonT(30) DEF Holders
  <2>3. Fits("Reserve", AllDropped, held, refused)
    BY <1>p, <1>t, <2>2, QuietFits, SMTT(30)
  <2>4. pc' = "cr3_second" /\ UNCHANGED <<held, refused, build>> => Stock'
    BY <1>0, <2>1 DEF Stock, Handoff
  <2>5. pc' = "cr3_second" => InStep'
    BY <1>0, <2>1 DEF InStep, Over
  <2> QED
    BY <2>1, <2>3, <2>4, <2>5, CheckStep
<1>2. CASE CheckCr3Second
  <2>1. /\ Check("cr3_second", cr3 = token, "ready", "Cr3Stability", AllDropped)
        /\ pc = "cr3_second" /\ phase' = phase
    BY <1>2, OtherCallStays, ZenonT(30) DEF CheckCr3Second, Check
  <2>2. \A o \in OwnerNames : held[o] # {} => Discards(AllDropped, o)
    BY <1>0, <1>p, <2>1, HeldAt, Zenon DEF Holders
  <2>3. Fits("Cr3Stability", AllDropped, held, refused)
    BY <1>p, <1>t, <2>2, QuietFits, Zenon
  <2>4. pc' = "ready" /\ UNCHANGED <<held, refused, build>> => Stock'
    BY <1>0, <2>1, Zenon DEF Stock, Handoff
  <2>5. pc' = "ready" => InStep'
    BY <1>0, <2>1, ZenonT(30) DEF InStep, Over
  <2> QED
    BY <2>1, <2>3, <2>4, <2>5, CheckStep
<1>3. CASE BuildExitReady
  <2>0. PICK complete \in BOOLEAN : Check("ready", complete, "watchdog", "BootInfo", AllDropped)
    BY <1>3, Zenon DEF BuildExitReady
  <2>1. pc = "ready" /\ phase' = phase
    BY <1>3, OtherCallStays, ZenonT(30) DEF BuildExitReady, Check
  <2>2. \A o \in OwnerNames : held[o] # {} => Discards(AllDropped, o)
    BY <1>0, <1>p, <2>1, HeldAt, Zenon DEF Holders
  <2>3. Fits("BootInfo", AllDropped, held, refused)
    BY <1>p, <1>t, <2>2, QuietFits, ZenonT(30)
  <2>4. pc' = "watchdog" /\ UNCHANGED <<held, refused, build>> => Stock'
    BY <1>0, <2>1 DEF Stock, Handoff
  <2>5. pc' = "watchdog" => InStep'
    BY <1>0, <2>1 DEF InStep, Over
  <2> QED
    BY <2>0, <2>1, <2>3, <2>4, <2>5, CheckStep
<1> QED
  BY <1>1, <1>2, <1>3

\* into_loaded_kernel: the early return drops the kernel, then the source.
LEMMA MetadataCheck ==
  ASSUME IInv, NEW ok \in BOOLEAN, MatchMetadata(ok)
  PROVE  IInv'
<1> USE DEF Working, Placing, Building, Describing, Returning, Leaving
<1>0. Types /\ Ledger /\ Stock /\ InStep /\ (pc \in Working => refused = {})
  BY DEF IInv, Stock
<1>1. PICK good \in BOOLEAN : Check("metadata", good, "release_source", "Metadata",
                                    Drops(<<"kernel", "source">>))
  BY Zenon DEF MatchMetadata
<1>2. pc = "metadata" /\ phase' = phase /\ refused = {}
  BY <1>0, <1>1, OtherCallStays, ZenonT(30) DEF MatchMetadata, Check
<1>3. Drops(<<"kernel", "source">>) \in Seq(Tasks) /\ Quiet(Drops(<<"kernel", "source">>))
      /\ \A o \in OwnerNames : held[o] # {} => Discards(Drops(<<"kernel", "source">>), o)
  BY <1>0, <1>2, HeldAt, DropsTwo, ZenonT(30) DEF Holders, OwnerNames
<1>4. Fits("Metadata", Drops(<<"kernel", "source">>), held, refused)
  BY <1>3, QuietFits, Zenon DEF Truthful
<1>5. pc' = "release_source" /\ UNCHANGED <<held, refused, build>> => Stock'
  BY <1>0, <1>2, Zenon DEF Stock, Handoff
<1>6. pc' = "release_source" => InStep'
  BY <1>0, <1>2 DEF InStep, Over
<1>7. "release_source" \in Working
  OBVIOUS
<1> QED
  BY <1>1, <1>2, <1>4, <1>5, <1>6, <1>7, CheckStep, ZenonT(30)

\* The ownership probe comes when only the kernel is held.
LEMMA ProbeCheck ==
  ASSUME IInv, NEW ok \in BOOLEAN, ProbeOwnership(ok)
  PROVE  IInv'
<1> USE DEF Working, Placing, Building, Describing, Returning, Leaving
<1>0. Types /\ Ledger /\ Stock /\ InStep /\ (pc \in Working => refused = {})
  BY DEF IInv, Stock
<1>1. PICK good \in BOOLEAN :
        Check("probe", good, (IF Handoff THEN "stack" ELSE "buffers"), "OwnershipProbe",
              Drops(<<"kernel">>))
  BY Zenon DEF ProbeOwnership
<1>2. pc = "probe" /\ phase' = phase /\ refused = {}
  BY <1>0, <1>1, OtherCallStays, ZenonT(30) DEF ProbeOwnership, Check
<1>3. Drops(<<"kernel">>) \in Seq(Tasks) /\ Quiet(Drops(<<"kernel">>))
      /\ \A o \in OwnerNames : held[o] # {} => Discards(Drops(<<"kernel">>), o)
  BY <1>0, <1>2, HeldAt, DropsOne, ZenonT(30) DEF Holders, OwnerNames
<1>4. Fits("OwnershipProbe", Drops(<<"kernel">>), held, refused)
  BY <1>3, QuietFits DEF Truthful
<1>5. /\ pc' = (IF Handoff THEN "stack" ELSE "buffers")
      /\ UNCHANGED <<held, refused, build>>
      => Stock'
  <2>1. 0 \in 0..3 /\ 1..0 = {}
    BY SMTT(30)
  <2>2. CASE Handoff
    BY <1>0, <1>2, <2>2, Zenon DEF Stock, Handoff
  <2>3. CASE ~Handoff
    BY <1>0, <1>2, <2>1, <2>3, ZenonT(30) DEF Stock, Handoff
  <2> QED
    BY <2>2, <2>3
<1>6. pc' = (IF Handoff THEN "stack" ELSE "buffers") => InStep'
  BY <1>0, <1>2 DEF InStep, Over
<1>7. (IF Handoff THEN "stack" ELSE "buffers") \in Working
  OBVIOUS
<1> DEFINE next == IF Handoff THEN "stack" ELSE "buffers"
<1>8. /\ Check("probe", good, next, "OwnershipProbe", Drops(<<"kernel">>))
      /\ next \in Working /\ (pc' = next => InStep')
      /\ (pc' = next /\ UNCHANGED <<held, refused, build>> => Stock')
  BY <1>1, <1>5, <1>6, <1>7
<1> HIDE DEF next
<1> QED
  BY <1>2, <1>4, <1>8, CheckStep, Zenon

\* The page tables are planned when the stack exists.
LEMMA PlanTablesCheck ==
  ASSUME IInv, NEW ok \in BOOLEAN, PlanTables(ok)
  PROVE  IInv'
<1> USE DEF Working, Placing, Building, Describing, Returning, Leaving
<1>0. Types /\ Ledger /\ Stock /\ InStep /\ (pc \in Working => refused = {})
  BY DEF IInv, Stock
<1>1. PICK good \in BOOLEAN : Check("plan_tables", good, "tables", "PageTable",
                                    Drops(<<"stack", "kernel">>))
  BY DEF PlanTables
<1>2. pc = "plan_tables" /\ phase' = phase /\ refused = {}
  BY <1>0, <1>1, OtherCallStays, ZenonT(30) DEF PlanTables, Check
<1>3. Drops(<<"stack", "kernel">>) \in Seq(Tasks) /\ Quiet(Drops(<<"stack", "kernel">>))
      /\ \A o \in OwnerNames : held[o] # {} => Discards(Drops(<<"stack", "kernel">>), o)
  BY <1>0, <1>2, HeldAt, DropsTwo, ZenonT(30) DEF Holders, OwnerNames
<1>4. Fits("PageTable", Drops(<<"stack", "kernel">>), held, refused)
  BY <1>3, QuietFits DEF Truthful
<1>5. pc' = "tables" /\ UNCHANGED <<held, refused, build>> => Stock'
  <2>1. 0 \in 0..(Frames - 1) /\ 1..0 = {}
    BY BootPipelineAssumption
  <2> QED
    BY <1>0, <1>2, <2>1, Zenon DEF Stock, Handoff
<1>6. pc' = "tables" => InStep'
  BY <1>0, <1>2 DEF InStep, Over
<1>7. "tables" \in Working
  OBVIOUS
<1> QED
  BY <1>1, <1>2, <1>4, <1>5, <1>6, <1>7, CheckStep, Zenon

\* Framebuffer and reservations.
LEMMA DescribeCheck ==
  ASSUME IInv, NEW ok \in BOOLEAN, DescribeMemory(ok)
  PROVE  IInv'
<1> USE DEF Working, Placing, Building, Describing, Returning, Leaving
<1>0. Types /\ Ledger /\ Stock /\ InStep /\ (pc \in Working => refused = {})
  BY DEF IInv, Stock
<1>1. PICK good \in BOOLEAN : Check("describe", good, "map", "Gop", PendingDropped)
  BY DEF DescribeMemory
<1>2. pc = "describe" /\ phase' = phase /\ refused = {}
  BY <1>0, <1>1, OtherCallStays, ZenonT(30) DEF DescribeMemory, Check
<1>3. PendingDropped \in Seq(Tasks) /\ Quiet(PendingDropped)
      /\ \A o \in OwnerNames : held[o] # {} => Discards(PendingDropped, o)
  BY <1>0, <1>2, HeldAt, PendingPath, Zenon DEF Holders, OwnerNames
<1>4. Fits("Gop", PendingDropped, held, refused)
  BY <1>3, QuietFits, Zenon DEF Truthful
<1>5. pc' = "map" /\ UNCHANGED <<held, refused, build>> => Stock'
  BY <1>0, <1>2, ZenonT(30) DEF Stock, Handoff
<1>6. pc' = "map" => InStep'
  BY <1>0, <1>2 DEF InStep, Over
<1>7. "map" \in Working
  OBVIOUS
<1> QED
  BY <1>1, <1>2, <1>4, <1>5, <1>6, <1>7, CheckStep, Zenon

\* The conversion is where the three builds part.
LEMMA ConvertCheck ==
  ASSUME IInv, NEW ok \in BOOLEAN, ConvertMap(ok)
  PROVE  IInv'
<1> USE DEF Working, Placing, Building, Describing, Returning, Leaving
<1>0. Types /\ Ledger /\ Stock /\ InStep /\ (pc \in Working => refused = {})
  BY DEF IInv, Stock
<1>1. PICK good \in BOOLEAN : Check("convert", good, (CASE build = "release" -> "release_info"
           [] build = "exit" -> "ready"
           [] OTHER -> "confirm"), "Convert", PendingDropped)
  BY DEF ConvertMap
<1>2. pc = "convert" /\ phase' = phase /\ refused = {}
  BY <1>0, <1>1, OtherCallStays, ZenonT(30) DEF ConvertMap, Check
<1>3. PendingDropped \in Seq(Tasks) /\ Quiet(PendingDropped)
      /\ \A o \in OwnerNames : held[o] # {} => Discards(PendingDropped, o)
  BY <1>0, <1>2, HeldAt, PendingPath, ZenonT(30) DEF Holders, OwnerNames
<1>4. Fits("Convert", PendingDropped, held, refused)
  BY <1>3, QuietFits DEF Truthful
<1>5. pc' = (CASE build = "release" -> "release_info"
           [] build = "exit" -> "ready"
           [] OTHER -> "confirm") /\ UNCHANGED <<held, refused, build>> => Stock'
  <2>1. CASE build = "release"
    BY <1>0, <1>2, <2>1 DEF Stock, Handoff
  <2>2. CASE build = "exit"
    BY <1>0, <1>2, <2>2 DEF Stock, Handoff
  <2>3. CASE build \in {"handoff", "table_failure", "cpu_failure"}
    <3>1. build # "release" /\ build # "exit"
      BY <2>3
    <3> QED
      BY <1>0, <1>2, <2>3, <3>1 DEF Stock, Handoff
  <2> QED
    BY <1>0, <2>1, <2>2, <2>3 DEF Types
<1>6. pc' = (CASE build = "release" -> "release_info"
           [] build = "exit" -> "ready"
           [] OTHER -> "confirm") => InStep'
  BY <1>0, <1>2 DEF InStep, Over
<1>7. (CASE build = "release" -> "release_info"
           [] build = "exit" -> "ready"
           [] OTHER -> "confirm") \in Working
  OBVIOUS
<1> DEFINE next == CASE build = "release" -> "release_info"
                     [] build = "exit" -> "ready"
                     [] OTHER -> "confirm"
<1>8. /\ Check("convert", good, next, "Convert", PendingDropped)
      /\ next \in Working /\ (pc' = next => InStep')
      /\ (pc' = next /\ UNCHANGED <<held, refused, build>> => Stock')
  BY <1>1, <1>5, <1>6, <1>7
<1> HIDE DEF next
<1> QED
  BY <1>2, <1>4, <1>8, CheckStep, Zenon

\* The CPU policy; cpu-readiness-failure-test releases every owner explicitly.
LEMMA CpuCheck ==
  ASSUME IInv, NEW ok \in BOOLEAN, ValidateCpu(ok)
  PROVE  IInv'
<1> USE DEF Working, Placing, Building, Describing, Returning, Leaving
<1>0. Types /\ Ledger /\ Stock /\ InStep /\ (pc \in Working => refused = {})
  BY DEF IInv, Stock
<1> DEFINE path == IF build = "cpu_failure" THEN CpuFailure ELSE HierarchyDropped
<1>1. PICK good \in BOOLEAN : Check("cpu", good, "classify", "CpuPolicy", path)
  BY Zenon DEF ValidateCpu
<1>2. pc = "cpu" /\ phase' = phase /\ refused = {}
  BY <1>0, <1>1, OtherCallStays, ZenonT(30) DEF ValidateCpu, Check
<1>3. \A o \in OwnerNames : held[o] # {} => o \in {"tables", "stack", "kernel"}
  BY <1>0, <1>2, HeldAt DEF Holders
<1>4. Fits("CpuPolicy", path, held, refused)
  <2>1. CASE build = "cpu_failure"
    BY <1>2, <1>3, <2>1, CpuFailurePath, Zenon
  <2>2. CASE build # "cpu_failure"
    BY <1>3, <2>2, HierarchyPath, QuietFits, Zenon DEF Truthful
  <2> QED
    BY <2>1, <2>2
<1> HIDE DEF path
<1>5. pc' = "classify" /\ UNCHANGED <<held, refused, build>> => Stock'
  BY <1>0, <1>2, Zenon DEF Stock, Handoff
<1>6. pc' = "classify" => InStep'
  BY <1>0, <1>2 DEF InStep, Over
<1> QED
  BY <1>1, <1>2, <1>4, <1>5, <1>6, CheckStep, Zenon

\* The source buffer is allocated first.
LEMMA OpenStep ==
  ASSUME IInv, NEW ok \in BOOLEAN, OpenKernel(ok)
  PROVE  IInv'
<1> USE DEF Working, Placing, Building, Describing, Returning, Leaving
<1>0. Types /\ Ledger /\ Stock /\ InStep /\ (pc \in Working => refused = {})
  BY DEF IInv, Stock
<1>1. pc = "load" /\ phase = "provisional" /\ \A o \in OwnerNames : held[o] = {}
  BY <1>0, HeldAt, Zenon DEF OpenKernel, InStep, Holders
<1>2. CASE ok
  <2>1. Acquire("source", 1) /\ Goto("read") /\ phase' = phase
    BY <1>2 DEF OpenKernel, Acquire, Allocate, OtherCall
  <2>2. /\ Ledger' /\ held' \in [OwnerNames -> SUBSET Nat]
        /\ held' = [held EXCEPT !["source"] = held["source"] \cup {1}]
        /\ UNCHANGED <<handed, refused>>
    BY <1>0, <2>1, AcquireEffect DEF OwnerNames
  <2>3. held'["source"] = {1} /\ \A o \in OwnerNames \ {"source"} : held'[o] = {}
    BY <1>0, <1>1, <2>2 DEF Types, OwnerNames
  <2>4. pc' = "read" /\ refused' = {} /\ build' = build
    BY <1>0, <1>1, <2>1, <2>2, ZenonT(30) DEF Goto
  <2>5. Stock'
    BY <2>3, <2>4 DEF Stock, OwnerNames
  <2>6. InStep'
    BY <1>1, <2>1, <2>4 DEF InStep, Over
  <2> QED
    BY <1>1, <2>1, <2>2, <2>5, <2>6, Moving, ZenonT(30)
<1>3. CASE ~ok
  <2>1. Fail("Open", <<>>) /\ UNCHANGED pages /\ phase' = phase
    BY <1>3 DEF OpenKernel, OtherCall
  <2>2. /\ Ledger' /\ held' \in [OwnerNames -> SUBSET Nat]
        /\ held' = held /\ refused' = refused /\ handed' = handed
    BY <1>0, <2>1, PagesStay
  <2>3. <<>> \in Seq(Tasks) /\ Quiet(<<>>)
    BY DEF Quiet
  <2>4. Fits("Open", <<>>, held', refused')
    BY <1>0, <1>1, <2>2, <2>3, QuietFits, Zenon
  <2> QED
    BY <1>1, <2>1, <2>2, <2>4, Failing, ZenonT(30)
<1> QED
  BY <1>2, <1>3

\* A failed allocation starts the error path that fits what is held.
LEMMA AllocationFails ==
  ASSUME IInv,
         AllocateTargetFails \/ AllocateStackFails \/ AllocateFrameFails
           \/ AllocateBufferFails
  PROVE  IInv'
<1> USE DEF Working, Placing, Building, Describing, Returning, Leaving
<1>0. Types /\ Ledger /\ Stock /\ InStep /\ (pc \in Working => refused = {})
  BY DEF IInv, Stock
<1>1. pc \in {"allocate", "stack", "tables", "buffers"} /\ UNCHANGED pages /\ phase' = phase
  BY DEF AllocateTargetFails, AllocateStackFails, AllocateFrameFails,
         AllocateBufferFails, OtherCall
<1>2. /\ Ledger' /\ held' \in [OwnerNames -> SUBSET Nat]
      /\ held' = held /\ refused' = {} /\ handed' = handed
  BY <1>0, <1>1, PagesStay
<1>3. phase' = "provisional"
  BY <1>0, <1>1 DEF InStep
<1>4. CASE AllocateTargetFails
  <2>1. pc = "allocate" /\ Fail("Alloc", TargetFailure)
    BY <1>4 DEF AllocateTargetFails
  <2>2. \A o \in OwnerNames : held[o] # {} => o \in {"source", "kernel"}
    BY <1>0, <2>1, HeldAt DEF Holders
  <2>3. Fits("Alloc", TargetFailure, held', refused')
    BY <1>2, <2>2, TargetPath, Zenon
  <2> QED
    BY <1>1, <1>2, <1>3, <2>1, <2>3, Failing, ZenonT(30)
<1>5. CASE AllocateStackFails
  <2>1. pc = "stack" /\ Fail("StackAlloc", Drops(<<"kernel">>))
    BY <1>5 DEF AllocateStackFails
  <2>2. \A o \in OwnerNames : held[o] # {} => o = "kernel"
    BY <1>0, <2>1, HeldAt DEF Holders
  <2>3. Fits("StackAlloc", Drops(<<"kernel">>), held', refused')
    BY <1>2, <2>2, DropsOne, QuietFits, Zenon DEF Truthful, OwnerNames
  <2> QED
    BY <1>1, <1>2, <1>3, <2>1, <2>3, Failing, ZenonT(30)
<1>6. CASE AllocateFrameFails
  <2>1. pc = "tables" /\ Fail("PageTable", RollbackTables)
    BY <1>6 DEF AllocateFrameFails
  <2>2. \A o \in OwnerNames : held[o] # {} => o \in {"tables", "stack", "kernel"}
    BY <1>0, <2>1, HeldAt DEF Holders
  <2>3. Fits("PageTable", RollbackTables, held', refused')
    BY <1>2, <2>2, RollbackPath
  <2> QED
    BY <1>1, <1>2, <1>3, <2>1, <2>3, Failing, ZenonT(30)
<1>7. CASE AllocateBufferFails
  <2>1. pc = "buffers" /\ Fail("BufferAlloc", PendingDropped)
    BY <1>7 DEF AllocateBufferFails
  <2>2. \A o \in OwnerNames : held[o] # {} => Discards(PendingDropped, o)
    BY <1>0, <2>1, HeldAt, PendingPath DEF Holders
  <2>3. Fits("BufferAlloc", PendingDropped, held', refused')
    BY <1>2, <2>2, PendingPath, QuietFits, Zenon DEF Truthful
  <2> QED
    BY <1>1, <1>2, <1>3, <2>1, <2>3, Failing, ZenonT(30)
<1> QED
  BY <1>4, <1>5, <1>6, <1>7, SMTT(30)

\* Misplaced allocations are given back at once; a refused target free turns
\* the error into Free.
LEMMA MisplacedStep ==
  ASSUME IInv, NEW ok \in BOOLEAN, AllocateTargetMismatch(ok) \/ RejectStack(ok)
  PROVE  IInv'
<1> USE DEF Working, Placing, Building, Describing, Returning, Leaving
<1>0. Types /\ Ledger /\ Stock /\ InStep /\ (pc \in Working => refused = {})
  BY Zenon DEF IInv, Stock
<1>1. CASE AllocateTargetMismatch(ok)
  <2> DEFINE error == IF ok THEN "Alloc" ELSE "Free"
  <2>1. /\ pc = "allocate" /\ TakeAndReturn(<<"kernel", 0>>, ok)
        /\ Fail(error, TargetFailure)
    BY <1>1, Zenon DEF AllocateTargetMismatch
  <2>2. /\ Ledger' /\ held' \in [OwnerNames -> SUBSET Nat]
        /\ held' = held /\ handed' = handed /\ (ok => refused' = refused)
    BY <1>0, <2>1, TakeEffect
  <2>3. \A o \in OwnerNames : held[o] # {} => o \in {"source", "kernel"}
    BY <1>0, <2>1, HeldAt, Zenon DEF Holders
  <2>4. error \in Truthful => refused' = {}
    BY <1>0, <2>1, <2>2, Zenon DEF Truthful
  <2> HIDE DEF error
  <2>5. Fits(error, TargetFailure, held', refused')
    BY <2>2, <2>3, <2>4, TargetPath, Zenon
  <2>6. phase' = "provisional"
    BY <1>0, <2>1, Zenon DEF InStep, TakeAndReturn, OtherCall
  <2> QED
    BY <2>1, <2>2, <2>5, <2>6, Failing, ZenonT(30)
<1>2. CASE RejectStack(ok)
  <2>1. /\ pc = "stack" /\ TakeAndReturn(<<"stack", 1>>, ok)
        /\ Fail("StackAlloc", Drops(<<"kernel">>))
    BY <1>2, Zenon DEF RejectStack
  <2>2. /\ Ledger' /\ held' \in [OwnerNames -> SUBSET Nat]
        /\ held' = held /\ handed' = handed
    BY <1>0, <2>1, TakeEffect
  <2>3. \A o \in OwnerNames : held[o] # {} => o = "kernel"
    BY <1>0, <2>1, HeldAt DEF Holders
  <2>4. Fits("StackAlloc", Drops(<<"kernel">>), held', refused')
    BY <2>2, <2>3, DropsOne, QuietFits, ZenonT(30) DEF Truthful, OwnerNames
  <2>5. phase' = "provisional"
    BY <1>0, <2>1, Zenon DEF InStep, TakeAndReturn, OtherCall
  <2> QED
    BY <2>1, <2>2, <2>4, <2>5, Failing, ZenonT(30)
<1> QED
  BY <1>1, <1>2

\* The stack is one allocation.
LEMMA StackStep ==
  ASSUME IInv, AllocateStack
  PROVE  IInv'
<1> USE DEF Working, Placing, Building, Describing, Returning, Leaving
<1>0. Types /\ Ledger /\ Stock /\ InStep /\ (pc \in Working => refused = {})
  BY Zenon DEF IInv, Stock
<1>1. pc = "stack" /\ Acquire("stack", 1) /\ Goto("plan_tables") /\ phase' = phase
  BY Zenon DEF AllocateStack, Acquire, Allocate, OtherCall
<1>2. /\ Ledger' /\ held' \in [OwnerNames -> SUBSET Nat]
      /\ held' = [held EXCEPT !["stack"] = held["stack"] \cup {1}]
      /\ UNCHANGED <<handed, refused>>
  BY <1>0, <1>1, AcquireEffect DEF OwnerNames
<1>3. \A o \in OwnerNames \ {"kernel"} : held[o] = {}
  BY <1>0, <1>1, HeldAt, Zenon DEF Holders
<1>4. held'["stack"] = {1} /\ \A o \in OwnerNames \ {"stack"} : held'[o] = held[o]
  BY <1>0, <1>2, <1>3, Zenon DEF Types, OwnerNames
<1>5. pc' = "plan_tables" /\ refused' = {} /\ build' = build /\ Handoff
  BY <1>0, <1>1, <1>2, Zenon DEF Goto, Stock
<1>6. Stock'
  BY <1>0, <1>1, <1>3, <1>4, <1>5, ZenonT(30) DEF Stock, OwnerNames, Handoff
<1>7. InStep'
  BY <1>0, <1>1, <1>5, Zenon DEF InStep, Over
<1> QED
  BY <1>1, <1>2, <1>6, <1>7, Moving, ZenonT(30)

\* The source is freed once; a refusal ends the load.
LEMMA ReleaseSourceStep ==
  ASSUME IInv, NEW ok \in BOOLEAN, ReleaseSource(ok)
  PROVE  IInv'
<1> USE DEF Working, Placing, Building, Describing, Returning, Leaving
<1>0. Types /\ Ledger /\ Stock /\ InStep /\ (pc \in Working => refused = {})
  BY DEF IInv, Stock
<1> DEFINE freed == IF ok THEN held["source"] ELSE {}
<1>1. pc = "release_source" /\ DropOwner("source", freed) /\ phase' = phase
  BY OtherCallStays, ZenonT(30) DEF ReleaseSource, DropOwner, GiveBack
<1>2. /\ Ledger' /\ held' \in [OwnerNames -> SUBSET Nat]
      /\ held'["source"] = {} /\ handed' = handed
      /\ \A o \in OwnerNames \ {"source"} : held'[o] = held[o]
      /\ freed = held["source"] \/ held["source"] = {} => refused' \subseteq refused
  BY <1>0, <1>1, DropEffect, Zenon DEF OwnerNames
<1>3. \A o \in OwnerNames : held[o] # {} => o \in {"source", "kernel"}
  BY <1>0, <1>1, HeldAt, Zenon DEF Holders
<1>4. CASE ok
  <2>1. Goto("probe") /\ pc' = "probe" /\ build' = build /\ refused' = {}
    BY <1>0, <1>1, <1>2, <1>4 DEF ReleaseSource, Goto
  <2>2. Stock'
    BY <1>0, <1>1, <1>2, <1>3, <2>1, Zenon DEF Stock, OwnerNames, Handoff
  <2>3. InStep'
    BY <1>0, <1>1, <2>1, ZenonT(30) DEF InStep, Over
  <2> QED
    BY <1>1, <1>2, <2>1, <2>2, <2>3, Moving, ZenonT(30)
<1>5. CASE ~ok
  <2> DEFINE path == <<<<"try", "kernel">>, <<"drop", "kernel">>>>
  <2>1. Fail("SourceFree", path)
    BY <1>5 DEF ReleaseSource
  <2>2. path \in Seq(Tasks) /\ Quiet(path) /\ Discards(path, "kernel")
    BY KernelPath, Zenon
  <2> HIDE DEF path
  <2>3. Fits("SourceFree", path, held', refused')
    BY <1>2, <1>3, <2>2, QuietFits, ZenonT(30) DEF Truthful
  <2>4. phase' = "provisional"
    BY <1>0, <1>1, Zenon DEF InStep
  <2> QED
    BY <1>1, <1>2, <2>1, <2>3, <2>4, Failing, ZenonT(30)
<1> QED
  BY <1>4, <1>5

\* The boot information is released before the kernel.
LEMMA ReleaseInfoStep ==
  ASSUME IInv, NEW freed \in SUBSET held["buffers"], ReleaseInfo(freed)
  PROVE  IInv'
<1> USE DEF Working, Placing, Building, Describing, Returning, Leaving
<1>0. Types /\ Ledger /\ Stock /\ InStep /\ (pc \in Working => refused = {})
  BY ZenonT(30) DEF IInv, Stock
<1>1. pc = "release_info" /\ TryRelease("buffers", freed) /\ phase' = phase
  BY OtherCallStays, ZenonT(30) DEF ReleaseInfo, TryRelease, GiveBack
<1>2. /\ Ledger' /\ held' \in [OwnerNames -> SUBSET Nat]
      /\ held'["buffers"] = held["buffers"] \ freed /\ handed' = handed
      /\ \A o \in OwnerNames \ {"buffers"} : held'[o] = held[o]
      /\ freed = held["buffers"] => refused' \subseteq refused
  BY <1>0, <1>1, TryEffect, Zenon DEF OwnerNames
<1>3. \A o \in OwnerNames : held[o] # {} => o \in {"buffers", "kernel"}
  BY <1>0, <1>1, HeldAt, Zenon DEF Holders
<1>4. CASE freed = held["buffers"]
  <2>1. Goto("release_kernel") /\ pc' = "release_kernel" /\ build' = build /\ refused' = {} /\ ~Handoff
    BY <1>0, <1>1, <1>2, <1>4, ZenonT(30) DEF ReleaseInfo, Goto, Stock
  <2>2. held'["buffers"] = {}
    BY <1>2, <1>4
  <2>3. Stock'
    BY <1>0, <1>1, <1>2, <1>3, <2>1, <2>2, ZenonT(30) DEF Stock, OwnerNames, Handoff
  <2>4. InStep'
    BY <1>0, <1>1, <2>1, Zenon DEF InStep, Over
  <2> QED
    BY <1>1, <1>2, <2>1, <2>3, <2>4, Moving, ZenonT(30)
<1>5. CASE freed # held["buffers"]
  <2>1. Fail("InfoFree", Drops(<<"buffers", "kernel">>))
    BY <1>5, Zenon DEF ReleaseInfo
  <2>2. \A o \in OwnerNames : held'[o] # {} => o \in {"buffers", "kernel"}
    BY <1>2, <1>3, <1>5
  <2>3. Fits("InfoFree", Drops(<<"buffers", "kernel">>), held', refused')
    BY <2>2, DropsTwo, QuietFits, ZenonT(30) DEF Truthful, OwnerNames
  <2>4. phase' = "prepared"
    BY <1>0, <1>1, ZenonT(30) DEF InStep
  <2> QED
    BY <1>1, <1>2, <2>1, <2>3, <2>4, Failing, ZenonT(30)
<1> QED
  BY <1>4, <1>5, ZenonT(30)

\* The kernel is the last owner that is released.
LEMMA ReleaseKernelStep ==
  ASSUME IInv, NEW freed \in SUBSET held["kernel"], ReleaseKernel(freed)
  PROVE  IInv'
<1> USE DEF Working, Placing, Building, Describing, Returning, Leaving
<1>0. Types /\ Ledger /\ Stock /\ InStep /\ (pc \in Working => refused = {})
  BY Zenon DEF IInv, Stock
<1>1. pc = "release_kernel" /\ TryRelease("kernel", freed) /\ phase' = phase
  BY OtherCallStays, Zenon DEF ReleaseKernel, TryRelease, GiveBack
<1>2. /\ Ledger' /\ held' \in [OwnerNames -> SUBSET Nat]
      /\ held'["kernel"] = held["kernel"] \ freed /\ handed' = handed
      /\ \A o \in OwnerNames \ {"kernel"} : held'[o] = held[o]
      /\ freed = held["kernel"] => refused' \subseteq refused
  BY <1>0, <1>1, TryEffect DEF OwnerNames
<1>3. \A o \in OwnerNames : held[o] # {} => o \in {"kernel"}
  BY <1>0, <1>1, HeldAt, Zenon DEF Holders
<1>4. CASE freed = held["kernel"]
  <2>1. Goto("release_probe") /\ pc' = "release_probe" /\ build' = build /\ refused' = {} /\ ~Handoff
    BY <1>0, <1>1, <1>2, <1>4, ZenonT(30) DEF ReleaseKernel, Goto, Stock
  <2>2. held'["kernel"] = {}
    BY <1>2, <1>4
  <2>3. Stock'
    BY <1>0, <1>1, <1>2, <1>3, <2>1, <2>2, ZenonT(30) DEF Stock, OwnerNames, Handoff
  <2>4. InStep'
    BY <1>0, <1>1, <2>1 DEF InStep, Over
  <2> QED
    BY <1>1, <1>2, <2>1, <2>3, <2>4, Moving, ZenonT(30)
<1>5. CASE freed # held["kernel"]
  <2>1. Fail("Release", Drops(<<"kernel">>))
    BY <1>5, ZenonT(30) DEF ReleaseKernel
  <2>2. \A o \in OwnerNames : held'[o] # {} => o \in {"kernel"}
    BY <1>2, <1>3, <1>5
  <2>3. Fits("Release", Drops(<<"kernel">>), held', refused')
    BY <2>2, DropsOne, QuietFits, Zenon DEF Truthful, OwnerNames
  <2>4. phase' = "prepared"
    BY <1>0, <1>1 DEF InStep
  <2> QED
    BY <1>1, <1>2, <2>1, <2>3, <2>4, Failing, ZenonT(30)
<1> QED
  BY <1>4, <1>5

\* The last step without a failure: everything was released, and the probe
\* must not lose the page it takes.
LEMMA ProbeReleaseStep ==
  ASSUME IInv, NEW ok \in BOOLEAN, NEW freed \in BOOLEAN, ProbeRelease(ok, freed)
  PROVE  IInv'
<1> USE DEF Working, Placing, Building, Describing, Returning, Leaving
<1>0. Types /\ Ledger /\ Stock /\ InStep /\ (pc \in Working => refused = {})
  BY Zenon DEF IInv, Stock
<1> DEFINE error == IF ok /\ freed THEN "Ok" ELSE "ReleaseProbe"
<1>1. /\ pc = "release_probe" /\ TakeAndReturn(<<"kernel", 1>>, freed)
      /\ Fail(error, Drops(<<"kernel">>))
  BY Zenon DEF ProbeRelease
<1>2. /\ Ledger' /\ held' \in [OwnerNames -> SUBSET Nat]
      /\ held' = held /\ handed' = handed /\ (freed => refused' = refused)
  BY <1>0, <1>1, TakeEffect
<1>3. \A o \in OwnerNames : held[o] = {}
  BY <1>0, <1>1, HeldAt, Zenon DEF Holders
<1>4. error \in Truthful => refused' = {}
  BY <1>0, <1>1, <1>2 DEF Truthful
<1> HIDE DEF error
<1>5. Fits(error, Drops(<<"kernel">>), held', refused')
  BY <1>2, <1>3, <1>4, DropsOne, QuietFits, Zenon DEF OwnerNames
<1>6. phase' = "prepared"
  BY <1>0, <1>1 DEF InStep, TakeAndReturn, OtherCall
<1> QED
  BY <1>1, <1>2, <1>5, <1>6, Failing, ZenonT(30)

\* The provisional map.
LEMMA CaptureMapStep ==
  ASSUME IInv, NEW status, CaptureMap(status)
  PROVE  IInv'
<1> USE DEF Working, Placing, Building, Describing, Returning, Leaving
<1>0. Types /\ Ledger /\ Stock /\ InStep /\ (pc \in Working => refused = {})
  BY Zenon DEF IInv, Stock
<1>1. /\ pc = "map" /\ UNCHANGED pages /\ Exit!CaptureProvisional(status)
      /\ CASE phase' = "prepared" -> Goto("convert")
           [] phase' = "rolled_back" -> Fail("Map", PendingDropped)
           [] OTHER -> Goto("map")
  BY DEF CaptureMap
<1>2. phase' \in {"provisional", "prepared", "rolled_back"}
  BY <1>1 DEF Exit!CaptureProvisional, Exit!Capture, Exit!MapCall
<1>3. /\ Ledger' /\ held' \in [OwnerNames -> SUBSET Nat]
      /\ held' = held /\ refused' = {} /\ handed' = handed
  BY <1>0, <1>1, PagesStay
<1>4. CASE phase' = "prepared"
  <2>1. Goto("convert") /\ pc' = "convert" /\ build' = build
    BY <1>1, <1>4 DEF Goto
  <2>2. Stock'
    BY <1>0, <1>1, <1>3, <2>1, ZenonT(30) DEF Stock, Handoff
  <2>3. InStep'
    BY <1>4, <2>1 DEF InStep, Over
  <2> QED
    BY <1>1, <1>3, <2>1, <2>2, <2>3, Moving, ZenonT(30)
<1>5. CASE phase' = "provisional"
  <2>1. Goto("map") /\ pc' = "map" /\ build' = build
    BY <1>1, <1>5 DEF Goto
  <2>2. Stock'
    BY <1>0, <1>1, <1>3, <2>1 DEF Stock, Handoff
  <2>3. InStep'
    BY <1>5, <2>1 DEF InStep, Over
  <2> QED
    BY <1>1, <1>3, <2>1, <2>2, <2>3, Moving, ZenonT(30)
<1>6. CASE phase' = "rolled_back"
  <2>1. Fail("Map", PendingDropped)
    BY <1>1, <1>6
  <2>2. \A o \in OwnerNames : held'[o] # {} => Discards(PendingDropped, o)
    BY <1>0, <1>1, <1>3, HeldAt, PendingPath, ZenonT(30) DEF Holders
  <2>3. Fits("Map", PendingDropped, held', refused')
    BY <2>2, PendingPath, QuietFits DEF Truthful
  <2> QED
    BY <1>1, <1>2, <1>3, <2>1, <2>3, Failing, ZenonT(30)
<1> QED
  BY <1>2, <1>4, <1>5, <1>6, Zenon

\* ExitReady drops its fields, the stack and the tables.
LEMMA ReadyPath ==
  /\ ReadyDropped \in Seq(Tasks)
  /\ Quiet(ReadyDropped)
  /\ \A o \in {"buffers", "tables", "stack", "kernel"} : Discards(ReadyDropped, o)
BY DropsFour, ZenonT(30) DEF ReadyDropped, OwnerNames

\* The watchdog call is the last that may come before the final map.
LEMMA WatchdogStep ==
  ASSUME IInv, NEW ok \in BOOLEAN, DisableWatchdog(ok)
  PROVE  IInv'
<1> USE DEF Working, Placing, Building, Describing, Returning, Leaving
<1>0. Types /\ Ledger /\ Stock /\ InStep /\ (pc \in Working => refused = {})
  BY DEF IInv, Stock
<1>1. /\ pc = "watchdog" /\ UNCHANGED pages /\ Exit!FinishPreparation(ok)
      /\ IF ok THEN Goto("final_map") ELSE Fail("BootInfo", ReadyDropped)
  BY DEF DisableWatchdog, Check
<1>2. phase' = IF ok THEN "final" ELSE "rolled_back"
  BY <1>1 DEF Exit!FinishPreparation
<1>3. /\ Ledger' /\ held' \in [OwnerNames -> SUBSET Nat]
      /\ held' = held /\ refused' = {} /\ handed' = handed
  BY <1>0, <1>1, PagesStay
<1>4. CASE ok
  <2>1. Goto("final_map") /\ pc' = "final_map" /\ build' = build
    BY <1>1, <1>4, Zenon DEF Goto
  <2>2. Stock'
    BY <1>0, <1>1, <1>3, <2>1, Zenon DEF Stock, Handoff
  <2>3. InStep'
    BY <1>2, <1>4, <2>1, Zenon DEF InStep, Over
  <2> QED
    BY <1>1, <1>3, <2>1, <2>2, <2>3, Moving, ZenonT(30)
<1>5. CASE ~ok
  <2>1. Fail("BootInfo", ReadyDropped)
    BY <1>1, <1>5
  <2>2. \A o \in OwnerNames : held'[o] # {} => Discards(ReadyDropped, o)
    BY <1>0, <1>1, <1>3, HeldAt, ReadyPath, ZenonT(30) DEF Holders
  <2>3. Fits("BootInfo", ReadyDropped, held', refused')
    BY <2>2, ReadyPath, QuietFits DEF Truthful
  <2> QED
    BY <1>1, <1>2, <1>3, <1>5, <2>1, <2>3, Failing, ZenonT(30)
<1> QED
  BY <1>4, <1>5

\* The final map is captured while every owner can still be dropped.
LEMMA FinalMapStep ==
  ASSUME IInv, NEW status, CaptureFinalMap(status)
  PROVE  IInv'
<1> USE DEF Working, Placing, Building, Describing, Returning, Leaving
<1>0. Types /\ Ledger /\ Stock /\ InStep /\ (pc \in Working => refused = {})
  BY Zenon DEF IInv, Stock
<1>1. /\ pc = "final_map" /\ UNCHANGED pages /\ Exit!CaptureFinal(status)
      /\ CASE phase' = "exit" -> Goto("cross")
           [] phase' = "rolled_back" -> Fail("Map", ReadyDropped)
           [] OTHER -> Goto("final_map")
  BY DEF CaptureFinalMap
<1>2. phase' \in {"final", "exit", "rolled_back"}
  BY <1>1 DEF Exit!CaptureFinal, Exit!Capture, Exit!MapCall
<1>3. /\ Ledger' /\ held' \in [OwnerNames -> SUBSET Nat]
      /\ held' = held /\ refused' = {} /\ handed' = handed
  BY <1>0, <1>1, PagesStay
<1>4. CASE phase' = "exit"
  <2>1. Goto("cross") /\ pc' = "cross" /\ build' = build
    BY <1>1, <1>4 DEF Goto
  <2>2. Stock'
    BY <1>0, <1>1, <1>3, <2>1, ZenonT(30) DEF Stock, Handoff
  <2>3. InStep'
    BY <1>4, <2>1 DEF InStep, Over
  <2> QED
    BY <1>1, <1>3, <2>1, <2>2, <2>3, Moving, ZenonT(30)
<1>5. CASE phase' = "final"
  <2>1. Goto("final_map") /\ pc' = "final_map" /\ build' = build
    BY <1>1, <1>5 DEF Goto
  <2>2. Stock'
    BY <1>0, <1>1, <1>3, <2>1, ZenonT(30) DEF Stock, Handoff
  <2>3. InStep'
    BY <1>5, <2>1 DEF InStep, Over
  <2> QED
    BY <1>1, <1>3, <2>1, <2>2, <2>3, Moving, ZenonT(30)
<1>6. CASE phase' = "rolled_back"
  <2>1. Fail("Map", ReadyDropped)
    BY <1>1, <1>6
  <2>2. \A o \in OwnerNames : held'[o] # {} => Discards(ReadyDropped, o)
    BY <1>0, <1>1, <1>3, HeldAt, ReadyPath DEF Holders
  <2>3. Fits("Map", ReadyDropped, held', refused')
    BY <2>2, ReadyPath, QuietFits DEF Truthful
  <2> QED
    BY <1>1, <1>2, <1>3, <1>6, <2>1, <2>3, Failing, ZenonT(30)
<1> QED
  BY <1>2, <1>4, <1>5, <1>6, ZenonT(30)

=============================================================================
