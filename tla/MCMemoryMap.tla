----------------------------- MODULE MCMemoryMap -----------------------------
(* Seven pages below the end of the address space, up to three raw            *)
(* descriptors in any order and up to two reservations anywhere.              *)
EXTENDS MemoryMap

MCRaw(types, starts, pages) ==
  [type: types, start: starts, pages: pages, attributes: {0}]

MCPlain == MCRaw({"conventional", "boot_services_data"}, {0, 4, 8}, 1..2)

\* An empty, an unaligned and an overflowing descriptor, and one that differs
\* in its attributes only.
MCOdd ==
  MCRaw({"loader_data"}, {4}, {0}) \cup MCRaw({"loader_data"}, {5}, {1})
    \cup MCRaw({"loader_data"}, {14}, {1})
    \cup {[type |-> "conventional", start |-> 4, pages |-> 2, attributes |-> 1]}

MCWhole == MCRaw({"conventional", "loader_data"}, {0, 4, 8}, {2})

MCRawMaps ==
  {<<>>} \cup {<<d>> : d \in MCPlain \cup MCOdd}
    \cup {<<d, e>> : d \in MCPlain, e \in MCPlain \cup MCOdd}
    \cup {<<d, e, f>> : d \in MCWhole, e \in MCWhole, f \in MCWhole}

MCKernel(starts, pages) ==
  [kind: {"kernel_image"}, source: {"KernelImage"}, start: starts, pages: pages]

MCFramebuffer ==
  [kind: {"framebuffer"}, source: {"Framebuffer"}, start: {2, 10}, pages: {2}]

MCReservations == MCKernel({0, 2, 6, 8}, {1, 3}) \cup MCFramebuffer

MCReservationLists ==
  {<<>>, <<[kind |-> "kernel_image", source |-> "KernelImage", start |-> 3, pages |-> 1]>>}
    \cup {<<r>> : r \in MCReservations}
    \cup {<<r, s>> : r \in MCReservations, s \in MCReservations}
    \cup {<<r, s, s>> : r \in MCFramebuffer, s \in MCKernel({0}, {1})}
=============================================================================
