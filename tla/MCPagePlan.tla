----------------------------- MODULE MCPagePlan -----------------------------
(* Tables of three entries, so 81 virtual pages with the upper half at 27.     *)
(* Every sequence of up to three insertions from a set of requests, some of    *)
(* which break the policy, overlap or alias each other, in both modes.         *)
EXTENDS PagePlan

MCRange(from, pages) == [start |-> from, end |-> from + pages]

MCMap(v, p, pages, permissions, kind) ==
  [virtual |-> MCRange(v, pages), mapped |-> TRUE, physical |-> MCRange(p, pages),
   permissions |-> permissions, kind |-> kind,
   cache |-> IF kind \in {"Mmio", "Framebuffer"} THEN "Uncached" ELSE "WriteBack"]

MCGuard(v, pages) ==
  [MCMap(v, 0, pages, {}, "Guard") EXCEPT !.mapped = FALSE]

MCRegion ==
  [DirectMap |-> [start |-> 27, end |-> 35], Mmio |-> [start |-> 36, end |-> 38],
   Framebuffer |-> [start |-> 38, end |-> 40], KernelImage |-> [start |-> 53, end |-> 57],
   KernelLocal |-> [start |-> 75, end |-> 80]]

MCRequests ==
  {MCMap(53, 2, 2, KERNEL_RX, "KernelText"), MCMap(53, 3, 1, KERNEL_RX, "KernelText"),
   MCMap(55, 4, 1, KERNEL_R, "KernelRodata"), MCMap(54, 5, 2, KERNEL_RW, "KernelData"),
   MCMap(53, 2, 1, {"READ", "WRITE", "EXECUTE", "GLOBAL"}, "KernelText"),
   MCMap(76, 5, 2, KERNEL_RW, "BootstrapStack"), MCMap(78, 3, 2, KERNEL_RW, "BootstrapStack"),
   MCMap(29, 2, 1, KERNEL_R, "BootInfo"), MCMap(31, 4, 1, KERNEL_R, "BootMemoryMap"),
   MCMap(32, 5, 1, KERNEL_RW, "PageTable"),
   MCMap(27, 0, 2, KERNEL_RW, "DirectMap"), MCMap(30, 3, 3, KERNEL_RW, "DirectMap"),
   MCMap(30, 3, 3, KERNEL_RX, "DirectMap"), MCMap(30, 2, 1, KERNEL_R, "DirectMap"),
   MCMap(36, 7, 1, KERNEL_RW, "Mmio"), MCMap(39, 6, 1, KERNEL_RW, "Framebuffer"),
   MCMap(3, 3, 1, KERNEL_RX, "TransitionIdentity"),
   MCMap(0, 0, 1, KERNEL_RX, "TransitionIdentity"),
   MCMap(5, 5, 2, KERNEL_RW, "TransitionIdentity"),
   MCMap(26, 4, 2, KERNEL_RW, "TransitionIdentity"),
   MCGuard(75, 1), MCGuard(77, 1), MCGuard(35, 1)}

MCCallers ==
  [mode: Modes, requests: UNION {[1..n -> MCRequests] : n \in 1..3}]
=============================================================================
