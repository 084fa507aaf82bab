---------------------------- MODULE MCPageTables ----------------------------
(* Tables of three entries.  MCPlacements is every placement of a trampoline   *)
(* page and a stack of two pages in the low half; in a few of them, those of   *)
(* MCDisturbed, entries are changed to words that point up, down, sideways and *)
(* out of the hierarchy.                                                       *)
EXTENDS PageTables

MCRegion ==
  [DirectMap |-> [start |-> 27, end |-> 63], Mmio |-> [start |-> 63, end |-> 64],
   Framebuffer |-> [start |-> 64, end |-> 65], KernelImage |-> [start |-> 66, end |-> 70],
   KernelLocal |-> [start |-> 76, end |-> 80]]

MCPlacements == {for_transition(t, s) : t \in 0..27, s \in 0..26}

MCDisturbed == {{1, 3}, {4, 2}, {8, 6}}

MCFrameLists == {<<30, 28, 34, 29, 33, 27, 31, 32>>}

MCFlags ==
  {{"PRESENT", "WRITABLE"}, {"PRESENT", "GLOBAL"}, {"PRESENT", "WRITABLE", "GLOBAL"},
   {"PRESENT", "WRITABLE", "USER"}, {"WRITABLE"}}

MCWords ==
  {Zero} \cup [address: {30, 28, 34, 29, 33}, flags: {{"PRESENT", "WRITABLE"}}]
    \cup [address: {4, 29}, flags: MCFlags]
    \cup [address: {4}, flags: {{"PRESENT", "WRITABLE", "GLOBAL", "NO_EXECUTE"},
                                {"PRESENT", "GLOBAL", "HUGE_PAGE"},
                                {"PRESENT", "GLOBAL", "OTHER"}}]
    \cup [address: {40}, flags: {{"PRESENT", "WRITABLE"}}]
=============================================================================
