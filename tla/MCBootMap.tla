------------------------------ MODULE MCBootMap ------------------------------
(* Fifteen pages: two kernel segments at their fixed place, and the other      *)
(* allocations behind them in every rotation, with and without a gap.          *)
EXTENDS BootMap

\* Page of the k-th of seven objects, rotated by r, with a free page at gap.
MCPage(k, r, gap) ==
  LET p == (k + r) % 7 IN 2 * (5 + p + (IF p >= gap THEN 1 ELSE 0))

MCAt(a) == [start |-> a, pages |-> 1]

MCFramebuffers ==
  [start: {1}, length: {2}] \cup [start: {24}, length: {6}]
    \cup [start: {11}, length: {1}] \cup [start: {30}, length: {2}]

MCLayout(r, gap, f, handoff) ==
  [segments |-> <<[start |-> 4, pages |-> 2], MCAt(8)>>,
   raw_map |-> MCAt(MCPage(0, r, gap)),
   conversion_scratch |-> MCAt(MCPage(1, r, gap)),
   converted_map |-> MCAt(MCPage(2, r, gap)),
   boot_info |-> MCAt(MCPage(3, r, gap)),
   framebuffer |-> f,
   stack |-> IF handoff THEN <<MCAt(MCPage(4, r, gap))>> ELSE <<>>,
   frames |-> IF handoff THEN <<MCPage(6, r, gap), MCPage(5, r, gap)>> ELSE <<>>]

MCLayouts ==
  {MCLayout(r, gap, f, handoff) :
     r \in 0..6, gap \in {2, 4, 7}, f \in MCFramebuffers, handoff \in BOOLEAN}

MCRaw(type, from, to) ==
  [type |-> type, start |-> from, pages |-> (to - from) \div 2, attributes |-> 0]

MCRawMaps ==
  {<<MCRaw("loader_data", 0, 28)>>}
    \cup {<<MCRaw(t, cut, 28), MCRaw("conventional", 0, 6), MCRaw("loader_data", 6, cut)>> :
            t \in {"boot_services_data", "conventional"}, cut \in {12, 16, 20, 24}}
    \cup {<<MCRaw("conventional", 0, 14), MCRaw("conventional", 16, 28)>>}

MCReservationLists == {reservations_for(l) : l \in MCLayouts}
=============================================================================
