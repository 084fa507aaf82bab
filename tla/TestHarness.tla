----------------------------- MODULE TestHarness ------------------------------
(***************************************************************************)
(* The commands of xtask that build, stage and boot the system              *)
(* (crates/xtask/src/uefi.rs and kernel.rs), one after the other on one      *)
(* disk.  A command is the sequence of its file and process operations; the *)
(* disk survives it, whether it ended, failed at any operation or was       *)
(* interrupted between two.  QEMU is a process of its own: it may exit, or   *)
(* not, while wait_for_child polls it, reaches its timeout and kills it.    *)
(*                                                                         *)
(* A path is a sequence of names under target/.  A file is the command that *)
(* wrote it and a form: for a kernel "good", or what is wrong with it; for   *)
(* a loader the BuildMode; "short" for a file written in part.              *)
(***************************************************************************)
EXTENDS TestContract, SequencesExt, TLC

CONSTANTS
  Commands,     \* how many commands are given
  HEADLESS_TIMEOUT, \* in polls
  Logs(_)       \* serial logs a run expecting these markers may leave

VARIABLES
  number,       \* of the current command
  command,      \* its name
  steps,        \* operations it has still to do
  result,       \* "running", "ok", "failed" or "interrupted"
  disk,         \* path -> file, for the files there are
  template,     \* version of the OVMF VARS template
  hash,         \* the version prepare_run hashed
  child,        \* QEMU
  waiting,      \* what wait_for_child does next
  clock,        \* polls since QEMU was started
  outcome,      \* what it returned
  serial,       \* the log judged last
  refused       \* process operations the host refused in this command

diskVars == <<disk, template, hash>>
childVars == <<child, waiting, clock, outcome, serial, refused>>
vars == <<number, command, steps, result, diskVars, childVars>>

-----------------------------------------------------------------------------
(* Paths.                                                                    *)

KernelArtifact == <<"artifact", "kernel">>
LoaderArtifact == <<"artifact", "loader">>
primary_stage == <<"kernel", "unnamedos-kernel.elf">>
higher_stage_path == <<"kernel", "unnamedos-kernel-higher-half.elf">>
esp_root == <<"esp">>
esp_stage == <<"esp", "KERNEL.ELF">>
esp_boot == <<"esp", "BOOTX64.EFI">>
higher_build_root(label) == <<"unnamedos-build", label>>
HigherArtifact(label) == Append(higher_build_root(label), "kernel")
vars_copy(root) == root \o <<"run", "OVMF_VARS.fd">>

-----------------------------------------------------------------------------
(* Operations, and the commands as sequences of them.                        *)

Op(do, at, arg) == [do |-> do, at |-> at, arg |-> arg]
Clear(at) == Op("remove", at, <<>>)
Cargo(at, mode) == Op("cargo", at, <<mode>>)
Check(do, at) == Op(do, at, <<>>)
Copy(from, at) == Op("copy", at, from)

clear_kernel_staging == <<Clear(primary_stage), Clear(esp_stage)>>

stage_kernel ==
  clear_kernel_staging
    \o <<Check("validate", KernelArtifact),
         Copy(KernelArtifact, primary_stage), Copy(KernelArtifact, esp_stage),
         Op("digest", primary_stage, KernelArtifact), Op("digest", esp_stage, KernelArtifact)>>


build_and_stage_kernel ==
  clear_kernel_staging
    \o <<Clear(KernelArtifact), Cargo(KernelArtifact, "kernel"),
         Check("normalize", KernelArtifact)>>
    \o stage_kernel

build_higher_bytes(label) ==
  <<Clear(higher_build_root(label)), Cargo(HigherArtifact(label), "kernel"),
    Check("normalize", HigherArtifact(label)), Check("validate", HigherArtifact(label)),
    Check("audit", HigherArtifact(label))>>

stage_higher_bytes(label) ==
  <<Clear(higher_stage_path), Copy(HigherArtifact(label), higher_stage_path),
    Op("digest", higher_stage_path, HigherArtifact(label))>>

stage_esp ==
  <<Clear(esp_boot), Check("present", LoaderArtifact), Copy(LoaderArtifact, esp_boot),
    Op("same_length", esp_boot, LoaderArtifact)>>

build_and_stage(mode) ==
  <<Clear(LoaderArtifact), Cargo(LoaderArtifact, mode)>> \o stage_esp

verify_boot_esp == <<Check("present", esp_boot), Check("present", esp_stage)>>

prepare_fixture(root, fixture) ==
  <<Copy(esp_boot, Append(root, "BOOTX64.EFI"))>>
    \o (IF fixture = "none" THEN <<>>
        ELSE <<Copy(primary_stage, Append(root, "KERNEL.ELF"))>>)
    \o (IF fixture \in {"corrupt", "policy"}
        THEN <<Op("rewrite", Append(root, "KERNEL.ELF"), <<fixture>>)>> ELSE <<>>)

prepare_run(root) ==
  <<Clear(Append(root, "run")), Check("hash", root), Check("copy_vars", vars_copy(root)),
    Check("same_vars", vars_copy(root))>>

\* spawn, wait_for_child, verify_vars_source_unchanged, then the verdict.
execute_scenario(root) ==
  <<Check("spawn", root), Check("wait", root), Check("vars", root), Check("judge", root)>>

Mode ==
  [test_uefi |-> "QemuTest", test_exit_boot_services |-> "ExitBootServices",
   test_kernel_handoff |-> "KernelHandoff",
   test_page_tables |-> "PageTableAllocationFailure",
   test_cpu_readiness |-> "CpuReadinessFailure"]

Scenarios ==
  [test_uefi |-> test_uefi, test_exit_boot_services |-> test_exit_boot_services,
   test_kernel_handoff |-> test_kernel_handoff, test_page_tables |-> test_page_tables,
   test_cpu_readiness |-> test_cpu_readiness]

Tests == DOMAIN Scenarios

\* The directory of a test's scenario, and the scenario of a directory.
Root(test, s) == <<test, s.fixture>>
ScenarioOf(root) == CHOOSE s \in ToSet(Scenarios[root[1]]) : Root(root[1], s) = root

RunScenario(test, s) ==
  prepare_fixture(Root(test, s), s.fixture) \o prepare_run(Root(test, s))
    \o execute_scenario(Root(test, s))

TestSteps(test) ==
  build_and_stage_kernel \o build_and_stage(Mode[test])
    \o (IF test = "test_kernel_handoff"
        THEN <<Check("validate", primary_stage), Check("audit", primary_stage),
               Check("audit", esp_boot)>> ELSE <<>>)
    \o <<Check("resolve", <<>>), Clear(<<test>>)>>
    \o FlattenSeq([i \in 1..Len(Scenarios[test]) |-> RunScenario(test, Scenarios[test][i])])

Program ==
  [build_kernel |-> build_and_stage_kernel,
   build_uefi |-> build_and_stage("Normal"),
   build_boot |-> <<Clear(esp_root)>> \o build_and_stage_kernel
                    \o build_and_stage("Normal") \o verify_boot_esp,
   inspect_kernel |-> <<Check("validate", primary_stage), Check("audit", primary_stage)>>,
   build_higher_kernel |-> build_higher_bytes("higher-half")
                             \o stage_higher_bytes("higher-half"),
   inspect_higher_kernel |-> <<Check("validate", higher_stage_path),
                               Check("audit", higher_stage_path)>>,
   verify_higher_kernel_reproducible |->
     build_higher_bytes("higher-repro-a") \o build_higher_bytes("higher-repro-b")
       \o <<Op("identical", HigherArtifact("higher-repro-a"),
               HigherArtifact("higher-repro-b"))>>
       \o stage_higher_bytes("higher-repro-a"),
   run_uefi |-> build_and_stage_kernel \o build_and_stage("Normal")
                  \o <<Check("resolve", <<>>)>> \o prepare_run(<<>>)
                  \o <<Check("spawn", <<>>), Check("status", <<>>), Check("vars", <<>>),
                       Check("success", <<>>)>>]
  @@ [test \in Tests |-> TestSteps(test)]

-----------------------------------------------------------------------------
(* How an operation ends, and what it does to the disk.                      *)

Running(does) == result = "running" /\ Head(steps).do \in does
At == Head(steps).at
Arg == Head(steps).arg

Advance ==
  /\ steps' = Tail(steps)
  /\ result' = IF Tail(steps) = <<>> THEN "ok" ELSE "running"

Stop == steps' = <<>> /\ result' = "failed"

\* The operation succeeds when the check holds, or ends the command with an error.
AdvanceIf(check) == IF check THEN Advance ELSE Stop

File(form) == [by |-> number, form |-> form]
Under(dir) == {p \in DOMAIN disk : IsPrefix(dir, p)}
Drop(paths) == [p \in DOMAIN disk \ paths |-> disk[p]]
Put(p, file) == (p :> file) @@ disk
Holds(p, forms) == p \in DOMAIN disk /\ disk[p].form \in forms

\* Copies whose result the code compares with the source: the model lets them come
\* out short although the copy reported success.
Compared == {primary_stage, esp_stage, esp_boot, higher_stage_path}

\* Disks an operation that fails, or is interrupted, may leave.
Damaged ==
  CASE Head(steps).do = "remove" -> {Drop(some) : some \in SUBSET Under(At)}
    [] Head(steps).do \in {"cargo", "copy", "copy_vars", "rewrite", "normalize"} ->
         {disk, Drop({At}), Put(At, File("short"))}
    [] OTHER -> {disk}

-----------------------------------------------------------------------------
(* One action per kind of operation.                                         *)

\* What a build leaves when cargo reports success: the artifact of this command, no
\* file where one was expected, or, when one was there, that file.
Built(mode) ==
  LET forms == IF mode = "kernel" THEN {"good", "gnu", "foreign", "broken"}
               ELSE {mode, "empty"}
  IN {disk} \cup {Put(At, File(form)) : form \in forms}

Removes ==
  Running({"remove"}) /\ Advance /\ disk' = Drop(Under(At)) /\ UNCHANGED <<template, hash>>

Builds ==
  Running({"cargo"}) /\ Advance /\ disk' \in Built(Arg[1]) /\ UNCHANGED <<template, hash>>

normalize_rust_elf_os_abi ==
  /\ Running({"normalize"})
  /\ AdvanceIf(Holds(At, {"good", "gnu", "broken"}))
  /\ disk' = IF Holds(At, {"gnu"}) THEN Put(At, [disk[At] EXCEPT !.form = "good"]) ELSE disk
  /\ UNCHANGED <<template, hash>>

Copies ==
  /\ Running({"copy"})
  /\ AdvanceIf(Arg \in DOMAIN disk)
  /\ IF Arg \in DOMAIN disk
     THEN disk' \in {Put(At, disk[Arg])}
                      \cup (IF At \in Compared THEN {Put(At, File("short"))} ELSE {})
     ELSE disk' = disk
  /\ UNCHANGED <<template, hash>>

\* A digest that differs takes the staged copies away again.
Digests ==
  /\ Running({"digest"})
  /\ AdvanceIf(disk[At] = disk[Arg])
  /\ IF disk[At] = disk[Arg] THEN disk' = disk
     ELSE disk' \in {Drop(some) : some \in SUBSET (IF At = higher_stage_path THEN {At}
                                                   ELSE {primary_stage, esp_stage})}
  /\ UNCHANGED <<template, hash>>

Rewrites ==
  /\ Running({"rewrite"})
  /\ Advance
  /\ disk' = Put(At, [disk[At] EXCEPT !.form = Arg[1]])
  /\ UNCHANGED <<template, hash>>

\* prepare_run hashes the template, copies it and hashes the copy.
HashesTemplate ==
  Running({"hash"}) /\ Advance /\ hash' = template /\ UNCHANGED <<disk, template>>

CopiesTemplate ==
  /\ Running({"copy_vars"})
  /\ Advance
  /\ disk' \in {Put(At, File(template)), Put(At, File("short"))}
  /\ UNCHANGED <<template, hash>>

\* The operations that only read: the contract check, the length and hash checks.
Checks ==
  /\ result = "running"
  /\ \/ Running({"validate"}) /\ AdvanceIf(Holds(At, {"good"}))
     \/ Running({"present"}) /\ AdvanceIf(At \in DOMAIN disk /\ ~Holds(At, {"empty"}))
     \/ Running({"same_length"}) /\ AdvanceIf(disk[At] = disk[Arg])
     \/ Running({"same_vars"}) /\ AdvanceIf(Holds(At, {hash}))
     \/ Running({"vars"}) /\ AdvanceIf(template = hash)
     \/ Running({"success"}) /\ AdvanceIf(outcome = Exited(0))
     \/ Running({"audit", "identical", "resolve"}) /\ Advance
  /\ UNCHANGED diskVars

Judges ==
  /\ Running({"judge"})
  /\ \E log \in Logs(ScenarioOf(At).expected_markers) :
       /\ serial' = log
       /\ AdvanceIf(Verdict(outcome, log, ScenarioOf(At)) = "Ok")
  /\ UNCHANGED <<diskVars, child, waiting, clock, outcome, refused>>

FileStep ==
  /\ \/ Removes \/ Builds \/ normalize_rust_elf_os_abi \/ Copies \/ Digests \/ Rewrites
     \/ HashesTemplate \/ CopiesTemplate \/ Checks
  /\ UNCHANGED childVars

-----------------------------------------------------------------------------
(* QEMU and the process that waits for it.                                   *)

Qemu(state, code) == [state |-> state, code |-> code]

Spawns ==
  /\ Running({"spawn"})
  /\ Advance
  /\ child' = Qemu("running", NoCode)
  /\ waiting' = "poll"
  /\ clock' = 0
  /\ UNCHANGED <<outcome, serial, refused, diskVars>>

QemuExits ==
  /\ child.state = "running"
  /\ \E code \in {0, 1, QEMU_SUCCESS_EXIT_CODE, QEMU_FAILURE_EXIT_CODE, NoCode} :
       child' = Qemu("exited", code)
  /\ UNCHANGED <<number, command, steps, result, diskVars, waiting, clock, outcome, serial,
                 refused>>

\* run_uefi waits without a limit.
AwaitsStatus ==
  /\ Running({"status"})
  /\ child.state = "exited"
  /\ Advance
  /\ outcome' = Exited(child.code)
  /\ child' = Qemu("reaped", child.code)
  /\ UNCHANGED <<waiting, clock, serial, refused, diskVars>>

PollsExited ==
  /\ Running({"wait"}) /\ waiting = "poll"
  /\ child.state = "exited"
  /\ Advance
  /\ outcome' = Exited(child.code)
  /\ child' = Qemu("reaped", child.code)
  /\ UNCHANGED <<waiting, clock, serial, refused, diskVars>>

\* Faulty: waits as long as QEMU runs.
PollsRunning_forever ==
  /\ Running({"wait"}) /\ waiting = "poll"
  /\ child.state = "running"
  /\ clock' = IF clock < HEADLESS_TIMEOUT THEN clock + 1 ELSE clock
  /\ UNCHANGED <<steps, result, waiting, child, outcome, serial, refused, diskVars>>

PollsRunning ==
  /\ Running({"wait"}) /\ waiting = "poll"
  /\ child.state = "running"
  /\ IF clock < HEADLESS_TIMEOUT THEN clock' = clock + 1 /\ UNCHANGED waiting
     ELSE waiting' = "kill" /\ UNCHANGED clock
  /\ UNCHANGED <<steps, result, child, outcome, serial, refused, diskVars>>

PollFails ==
  /\ Running({"wait"}) /\ waiting = "poll"
  /\ waiting' = "kill_anyway"
  /\ UNCHANGED <<steps, result, child, clock, outcome, serial, refused, diskVars>>

\* A process that has exited by then keeps its code.
Killed == IF child.state = "running" THEN Qemu("exited", NoCode) ELSE child

\* Faulty: the timeout does not wait for the process it killed.
Kills_only ==
  /\ Running({"wait"}) /\ waiting \in {"kill", "kill_anyway"}
  /\ child' = Killed
  /\ IF waiting = "kill" THEN Advance ELSE Stop
  /\ outcome' = Timeout
  /\ UNCHANGED <<waiting, clock, serial, refused, diskVars>>

Kills ==
  /\ Running({"wait"}) /\ waiting \in {"kill", "kill_anyway"}
  /\ waiting' = IF waiting = "kill" THEN "reap" ELSE "reap_anyway"
  /\ child' = Killed
  /\ UNCHANGED <<steps, result, clock, outcome, serial, refused, diskVars>>

\* The error of the first kill ends the command, that of the other is ignored.
KillRefused ==
  /\ Running({"wait"}) /\ waiting \in {"kill", "kill_anyway"}
  /\ refused' = refused \cup {"kill"}
  /\ IF waiting = "kill" THEN Stop /\ UNCHANGED waiting
     ELSE waiting' = "reap_anyway" /\ UNCHANGED <<steps, result>>
  /\ UNCHANGED <<child, clock, outcome, serial, diskVars>>

Reaps ==
  /\ Running({"wait"}) /\ waiting \in {"reap", "reap_anyway"}
  /\ child.state = "exited"
  /\ child' = Qemu("reaped", child.code)
  /\ IF waiting = "reap" THEN Advance /\ outcome' = Timeout ELSE Stop /\ UNCHANGED outcome
  /\ UNCHANGED <<waiting, clock, serial, refused, diskVars>>

ReapFails ==
  /\ Running({"wait"}) /\ waiting \in {"reap", "reap_anyway"}
  /\ refused' = refused \cup {"wait"}
  /\ Stop
  /\ UNCHANGED <<child, waiting, clock, outcome, serial, diskVars>>

-----------------------------------------------------------------------------
(* Commands one after the other.                                             *)

Idle == Qemu("none", NoCode)

Init ==
  /\ number = 0 /\ command = "none" /\ steps = <<>> /\ result = "ok"
  /\ disk = <<>> /\ template = "shipped" /\ hash = "none"
  /\ child = Idle /\ waiting = "poll" /\ clock = 0 /\ outcome = Timeout
  /\ serial = <<>> /\ refused = {}

Begin ==
  /\ result # "running"
  /\ number < Commands
  /\ number' = number + 1
  /\ \E c \in DOMAIN Program : command' = c /\ steps' = Program[c]
  /\ result' = "running"
  /\ child' = Idle /\ waiting' = "poll" /\ clock' = 0 /\ outcome' = Timeout
  /\ serial' = <<>> /\ refused' = {}
  /\ UNCHANGED diskVars

\* A file operation reports an error.
IoError ==
  /\ result = "running"
  /\ ~Running({"wait", "status", "success"})
  /\ Stop
  /\ disk' \in Damaged
  /\ UNCHANGED <<number, command, template, hash, childVars>>

Interrupt ==
  /\ result = "running"
  /\ steps' = <<>> /\ result' = "interrupted"
  /\ disk' \in Damaged
  /\ UNCHANGED <<number, command, template, hash, childVars>>

\* Another program, or QEMU, writes the template.
TemplateChanges ==
  /\ result = "running"
  /\ template = "shipped" /\ template' = "changed"
  /\ UNCHANGED <<number, command, steps, result, disk, hash, childVars>>

Rest == number = Commands /\ result # "running" /\ UNCHANGED vars

CommandStep ==
  /\ \/ FileStep \/ Judges \/ Spawns \/ AwaitsStatus \/ PollsExited \/ PollsRunning
     \/ Kills \/ Reaps
  /\ UNCHANGED <<number, command>>

HostFails == (PollFails \/ KillRefused \/ ReapFails) /\ UNCHANGED <<number, command>>

Next ==
  Begin \/ CommandStep \/ HostFails \/ QemuExits \/ IoError \/ Interrupt \/ TemplateChanges
    \/ Rest

Spec == Init /\ [][Next]_vars /\ WF_vars(CommandStep)

-----------------------------------------------------------------------------
(* Properties.                                                               *)

\* The file is there, whole, in this form and built by the current command.
Fresh(p, form) == p \in DOMAIN disk /\ disk[p] = File(form)

StagesKernel == {"build_kernel", "build_boot", "run_uefi"} \cup Tests
StagesHigher == {"build_higher_kernel", "verify_higher_kernel_reproducible"}

LastScenario == Scenarios[command][Len(Scenarios[command])]


\* A command that ended, with whatever result, has left no QEMU behind, running or
\* unreaped, unless the host refused to kill it or to wait for it (wait_for_child).
NoQemuLeftBehind ==
  result \in {"ok", "failed"} /\ refused = {} => child.state \in {"none", "reaped"}

\* Every command but the interactive run_uefi ends, even when the loader in QEMU never
\* does: the timeout of wait_for_child ends the wait.  The exception is a poll that
\* failed followed by a kill that failed: the wait after it has no limit.
EveryCommandEnds ==
  (result = "running" /\ command # "run_uefi")
    ~> (result # "running" \/ (waiting = "reap_anyway" /\ "kill" \in refused))
=============================================================================
