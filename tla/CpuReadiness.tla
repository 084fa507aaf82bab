----------------------------- MODULE CpuReadiness ------------------------------
(***************************************************************************)
(* Is the processor one the new page tables can run on?                     *)
(* cpu_probe::capture reads what the processor reports, leaf by leaf;       *)
(* RawCpuSnapshot::validate and classify_for_hierarchy                      *)
(* (crates/memory-layout/src/cpu.rs) judge the snapshot.                    *)
(*                                                                         *)
(* The processor itself is the variable `cpu'.  A CPUID leaf beyond the     *)
(* maximum returns anything, and reading IA32_EFER without MSRs or long     *)
(* mode faults: the snapshot is only worth what capture asked for in the    *)
(* right order.  Register bits are members of a set; physical addresses     *)
(* are scaled, PAGE_SIZE standing for 4096.                                 *)
(***************************************************************************)
EXTENDS Integers, Sequences, FiniteSets

CONSTANTS
  PAGE_SIZE,
  SUPPORTED_PHYSICAL_END,
  MIN_PHYSICAL_ADDRESS_BITS,
  MAX_PHYSICAL_ADDRESS_BITS,
  Cpus,              \* processors
  Hierarchies        \* owned frames and highest mapped end to classify

CpuEnd(bits) == 2^bits

ASSUME CpuReadinessAssumption ==
  /\ PAGE_SIZE \in Nat \ {0} /\ SUPPORTED_PHYSICAL_END \in Nat
  /\ MIN_PHYSICAL_ADDRESS_BITS \in Nat /\ MAX_PHYSICAL_ADDRESS_BITS \in Nat
  /\ \A h \in Hierarchies :
       /\ h.owned \in Seq(Nat) /\ h.root \in Nat /\ h.highest \in Nat
       /\ \A i \in 1..Len(h.owned) : h.owned[i] % PAGE_SIZE = 0
  /\ \A c \in Cpus : /\ c.max_basic \in Nat /\ c.max_extended \in Nat
                     /\ c.cr3 \in Nat /\ c.widths.physical \in Nat
  /\ \A bits \in MIN_PHYSICAL_ADDRESS_BITS..MAX_PHYSICAL_ADDRESS_BITS : CpuEnd(bits) \in Nat

VARIABLES
  cpu,        \* what the processor is and how firmware left it
  snapshot,   \* RawCpuSnapshot
  cpuPhase,
  faulted,    \* an instruction the processor does not have was executed
  hierarchy,  \* tables to run on
  readiness   \* ActivationReadiness

cpuVars == <<cpu, snapshot, cpuPhase, faulted, hierarchy, readiness>>

Unread == [none |-> TRUE]

-----------------------------------------------------------------------------
(* The probe.                                                                *)

\* Faulty: IA32_EFER is read before CPUID has shown that it exists.
ReadsEferUnchecked(basic, extended) == TRUE

ReadsEfer(basic, extended) == "Msr" \in basic /\ "LongMode" \in extended

\* A leaf that does not exist is not read and counts as empty.
capture ==
  LET basic == IF cpu.max_basic >= 1 THEN cpu.basic ELSE {}
      structured == IF cpu.max_basic >= 7 THEN cpu.structured ELSE {}
      extended == IF cpu.max_extended >= 1 THEN cpu.extended ELSE {}
      widths == IF cpu.max_extended >= 8 THEN cpu.widths ELSE [physical |-> 0, linear |-> 0]
      hasEfer == cpu.max_basic >= 1 /\ "Msr" \in cpu.basic
                 /\ cpu.max_extended >= 1 /\ "LongMode" \in cpu.extended
  IN /\ cpuPhase = "capture"
     /\ snapshot' = [max_basic |-> cpu.max_basic, max_extended |-> cpu.max_extended,
                     basic |-> basic, structured |-> structured,
                     extended |-> extended, widths |-> widths,
                     control |-> cpu.control, cr3 |-> cpu.cr3,
                     efer |-> IF ReadsEfer(basic, extended) THEN cpu.efer ELSE {}]
     /\ faulted' = (ReadsEfer(basic, extended) /\ ~hasEfer)
     /\ cpuPhase' = "validate"
     /\ UNCHANGED <<cpu, hierarchy, readiness>>

-----------------------------------------------------------------------------
(* The judgement.                                                            *)

la57_supported(s) == s.max_basic >= 7 /\ "La57" \in s.structured

\* CR3 holds a page below the end of physical memory, and in its low bits two
\* cache flags, or a PCID when those are on; bit 0 stands for the flags.
ValidCr3(s) ==
  /\ s.cr3 < CpuEnd(s.widths.physical)
  /\ "Pcide" \in s.control \/ s.cr3 % PAGE_SIZE \in {0, 1}
  /\ s.cr3 \div PAGE_SIZE # 0

ValidSnapshot(s) ==
  /\ s.max_basic >= 1 /\ s.max_extended >= 8
  /\ {"LongMode", "Nx"} \subseteq s.extended /\ {"Msr", "Pae"} \subseteq s.basic
  /\ {"Pg", "Pae"} \subseteq s.control /\ {"Lma", "Lme"} \subseteq s.efer
  /\ "La57" \notin s.control
  /\ s.widths.physical \in MIN_PHYSICAL_ADDRESS_BITS..MAX_PHYSICAL_ADDRESS_BITS
  /\ s.widths.linear \in {48, 57}
  /\ s.widths.linear = 57 => la57_supported(s)
  /\ ValidCr3(s)

validate ==
  /\ cpuPhase = "validate"
  /\ cpuPhase' = IF ValidSnapshot(snapshot) THEN "classify" ELSE "refused"
  /\ UNCHANGED <<cpu, snapshot, faulted, hierarchy, readiness>>

Compatible(s, h) ==
  LET end == CpuEnd(s.widths.physical)
  IN /\ h.owned # <<>> /\ Head(h.owned) = h.root /\ h.root # 0
     /\ h.highest # 0 /\ h.highest <= SUPPORTED_PHYSICAL_END
     /\ h.highest <= end
     /\ h.root + PAGE_SIZE <= end
     /\ \A i \in 1..Len(h.owned) : h.owned[i] + PAGE_SIZE <= end

Hardening(on) == IF on THEN "Enabled" ELSE "MustEnableBeforeActivation"

classify_for_hierarchy ==
  /\ cpuPhase = "classify"
  /\ \E h \in Hierarchies :
       /\ hierarchy' = h
       /\ IF Compatible(snapshot, h)
          THEN /\ cpuPhase' = "ready"
               /\ readiness' =
                    [current_root |-> snapshot.cr3 - (snapshot.cr3 % PAGE_SIZE),
                     token |-> snapshot.cr3, proposed_root |-> h.root,
                     physical_address_bits |-> snapshot.widths.physical,
                     nxe |-> Hardening("Nxe" \in snapshot.efer),
                     write_protect |-> Hardening("Wp" \in snapshot.control),
                     pge |-> "Pge" \in snapshot.control,
                     pcid |-> "Pcide" \in snapshot.control]
          ELSE cpuPhase' = "incompatible" /\ UNCHANGED readiness
  /\ UNCHANGED <<cpu, snapshot, faulted>>

CpuInit ==
  /\ cpu \in Cpus /\ cpuPhase = "capture" /\ faulted = FALSE
  /\ snapshot = Unread /\ hierarchy = Unread /\ readiness = Unread

CpuRest == cpuPhase \in {"refused", "incompatible", "ready"} /\ UNCHANGED cpuVars

CpuNext == capture \/ validate \/ classify_for_hierarchy \/ CpuRest

CpuSpec == CpuInit /\ [][CpuNext]_cpuVars

-----------------------------------------------------------------------------
(* Properties.                                                               *)

\* The processor runs four-level paging in long mode and can enforce NX; a
\* leaf it does not have says nothing about it.
Suitable ==
  /\ cpu.max_basic >= 1 /\ {"Msr", "Pae"} \subseteq cpu.basic
  /\ cpu.max_extended >= 1 /\ {"LongMode", "Nx"} \subseteq cpu.extended
  /\ {"Pg", "Pae"} \subseteq cpu.control /\ "La57" \notin cpu.control
  /\ {"Lma", "Lme"} \subseteq cpu.efer

\* capture, validate and classify_for_hierarchy together call a hierarchy
\* ready only on a processor that really has what the new tables need, with
\* every table and every mapped byte below the last physical address it can
\* form, and the token names the CR3 it runs on.  No instruction the processor
\* lacks is executed on the way, and a suitable four-level processor with
\* sensible widths is not turned away by what a missing leaf returns.
ReadinessIsEarned ==
  /\ ~faulted
  /\ cpuPhase = "ready" =>
       /\ Suitable /\ cpu.max_extended >= 8
       /\ readiness.token = cpu.cr3
       /\ readiness.current_root \in PAGE_SIZE..CpuEnd(cpu.widths.physical) - 1
       /\ \A i \in 1..Len(hierarchy.owned), b \in 0..PAGE_SIZE - 1 :
            hierarchy.owned[i] + b < CpuEnd(cpu.widths.physical)
       /\ hierarchy.highest - 1 \in 0..CpuEnd(cpu.widths.physical) - 1
       /\ readiness.nxe = "Enabled" <=> "Nxe" \in cpu.efer
  /\ cpuPhase = "refused" =>
       ~(/\ Suitable /\ cpu.max_extended >= 8
         /\ cpu.widths.linear = 48
         /\ cpu.widths.physical
              \in MIN_PHYSICAL_ADDRESS_BITS..MAX_PHYSICAL_ADDRESS_BITS
         /\ cpu.cr3 \in {PAGE_SIZE * n : n \in 1..(CpuEnd(cpu.widths.physical) \div PAGE_SIZE) - 1})
=============================================================================
