---------------------------- MODULE MCLoaderChecks -----------------------------
(***************************************************************************)
(* Four parts of the loader that share no state, explored side by side:     *)
(* the read of the kernel file (KernelRead), the judgement of the processor *)
(* (CpuReadiness), the extension area (Extensions) and the BootInfo value   *)
(* (BootInfoChain).  `part' names the one that runs; the others stay where  *)
(* they start, on one fixed input.                                          *)
(***************************************************************************)
EXTENDS KernelRead, CpuReadiness, Extensions, BootInfoChain

VARIABLE part

\* Framebuffers at the first bytes of a page, at the end of one and near the end
\* of the address space; sizes that are too small, exact, larger and beyond 2^64.
MCGops ==
  [physical_address: {0, 3, 13, 29}, byte_length: {0, 2, 6, 17, 18},
   width: {0, 1, 3}, height: {0, 1, 3}, pixels_per_scanline: {1, 3, 7},
   pixel_format: {"Rgb", "Bgr", "RgbMask", "BgrMask", "OtherMask", "BltOnly"}]

-----------------------------------------------------------------------------
(* Processors: every combination of leaves and features in the usual state,  *)
(* and every state, width and CR3 with the usual features.  Fields of a leaf *)
(* a processor lacks keep their value: CPUID would return it as garbage.     *)

Usual ==
  [max_basic |-> 7, max_extended |-> 8, basic |-> {"Msr", "Pae"}, structured |-> {},
   extended |-> {"LongMode", "Nx"}, widths |-> [physical |-> 4, linear |-> 48],
   control |-> {"Pg", "Pae"}, efer |-> {"Lma", "Lme"}, cr3 |-> 8]

MCCpus ==
  {[Usual EXCEPT !.max_basic = b, !.max_extended = e, !.basic = f,
                 !.structured = s, !.extended = x, !.widths.linear = l] :
     b \in {0, 1, 7}, e \in {0, 1, 8}, f \in SUBSET {"Msr", "Pae"},
     s \in {{}, {"La57"}}, x \in SUBSET {"LongMode", "Nx"}, l \in {48, 57}}
  \cup
  {[Usual EXCEPT !.control = c, !.efer = f, !.cr3 = r] :
     c \in SUBSET {"Pg", "Pae", "La57", "Pcide", "Wp"},
     f \in SUBSET {"Lma", "Lme", "Nxe"}, r \in {0, 3, 4, 5, 6, 15, 16}}
  \cup
  {[Usual EXCEPT !.widths = [physical |-> p, linear |-> l], !.structured = s, !.cr3 = r] :
     p \in 2..5, l \in {39, 48, 57}, s \in {{}, {"La57"}}, r \in 3..17}

MCHierarchies ==
  [owned: {<<>>, <<0>>, <<4>>, <<4, 8>>, <<4, 12>>, <<12, 4>>, <<4, 16>>},
   root: {0, 4, 12}, highest: {0, 1, 8, 9, 12, 13, 16, 17}]

-----------------------------------------------------------------------------
(* Extensions: headers of this and another kind, version and size, in areas  *)
(* of up to four records; ownership records with each field off by one;      *)
(* frame lists that repeat, omit or misplace a frame; a map whose table      *)
(* range ends in the middle of them.                                         *)

MCAreas ==
  [abi_major: {1, 2, 3}, declared_total_size: {16 + n : n \in {0, 8, 15, 16, 18}},
   length: {0, 8, 15, 16, 18}]

MCHeaders ==
  [kind: {1, 2}, version: {1, 2}, header_size: {4}, total_size: {0, 4, 5, 6, 8, 12},
   required: BOOLEAN, unknown_flags: {FALSE}]
  \cup [kind: {1}, version: {1}, header_size: {4, 6}, total_size: {8},
        required: {TRUE}, unknown_flags: BOOLEAN]

Sound ==
  [hierarchy_version |-> 1, paging_level_count |-> 4, state |-> "final",
   page_size |-> 4, root_physical_frame |-> 8,
   owned_frame_list_physical_address |-> 4, owned_frame_count |-> 2,
   descriptor_stride |-> 4, physical_address_cap |-> 32, reserved |-> FALSE]

MCOwnerships ==
  {Sound,
   [Sound EXCEPT !.root_physical_frame = 28, !.owned_frame_count = 1],
   [Sound EXCEPT !.hierarchy_version = 2], [Sound EXCEPT !.paging_level_count = 5],
   [Sound EXCEPT !.state = "other"], [Sound EXCEPT !.page_size = 8],
   [Sound EXCEPT !.physical_address_cap = 64], [Sound EXCEPT !.reserved = TRUE],
   [Sound EXCEPT !.root_physical_frame = 0], [Sound EXCEPT !.root_physical_frame = 9],
   [Sound EXCEPT !.root_physical_frame = 32], [Sound EXCEPT !.root_physical_frame = 60],
   [Sound EXCEPT !.owned_frame_list_physical_address = 0],
   [Sound EXCEPT !.owned_frame_list_physical_address = 5],
   [Sound EXCEPT !.owned_frame_list_physical_address = 26],
   [Sound EXCEPT !.owned_frame_list_physical_address = 60],
   [Sound EXCEPT !.owned_frame_count = 0], [Sound EXCEPT !.descriptor_stride = 2],
   [Sound EXCEPT !.descriptor_stride = 5]}

MCFrameLists ==
  UNION {[1..n -> {0, 8, 9, 12, 28, 32}] : n \in 0..2}

MCMemoryMaps ==
  SUBSET {[kind |-> "page_table", physical_start |-> 8, page_count |-> 1],
          [kind |-> "page_table", physical_start |-> 12, page_count |-> 5],
          [kind |-> "page_table", physical_start |-> 8, page_count |-> 14],
          [kind |-> "usable", physical_start |-> 8, page_count |-> 2]}

-----------------------------------------------------------------------------
(* The four side by side.                                                    *)

allVars == <<part, readVars, cpuVars, walkVars, chainVars>>

Init ==
  /\ part \in {"read", "cpu", "extensions", "chain"}
  /\ ReadInit /\ (part # "read" => length = 0)
  /\ CpuInit /\ (part # "cpu" => cpu = Usual)
  /\ WalkInit
  /\ part # "extensions" =>
       area = [abi_major |-> 1, declared_total_size |-> 16, length |-> 0]
  /\ ChainInit

Reading == part = "read" /\ UNCHANGED <<part, cpuVars, walkVars, chainVars>>

Next ==
  \/ Reading /\ ReadNext
  \/ part = "cpu" /\ CpuNext /\ UNCHANGED <<part, readVars, walkVars, chainVars>>
  \/ part = "extensions" /\ WalkNext /\ UNCHANGED <<part, readVars, cpuVars, chainVars>>
  \/ part = "chain" /\ ChainNext /\ UNCHANGED <<part, readVars, cpuVars, walkVars>>

\* The fairness is that of ReadSpec.
Spec == Init /\ [][Next]_allVars /\ WF_allVars(Reading /\ Proceeds)
=============================================================================
