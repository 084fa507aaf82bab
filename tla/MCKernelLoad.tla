---------------------------- MODULE MCKernelLoad ----------------------------
(* Sixteen pages of two bytes, a window of five pages, a file of three bytes   *)
(* in two pages below, inside or above the window, up to three segments with   *)
(* room for two, some of them at the very end of the address space.            *)
EXTENDS KernelLoad

MCSegment(offset, size, memory_size, target, flags) ==
  [file_offset |-> offset, file_size |-> size, memory_size |-> memory_size,
   target |-> target, flags |-> flags]

MCSegments ==
  {MCSegment(o, f, m, t, x) :
     o \in {0, 1}, f \in {0, 2}, m \in {1, 2, 3}, t \in {4, 6, 10}, x \in {5, 6}}
    \cup {MCSegment(0, 1, 0, 4, 5), MCSegment(0, 2, 4, 2, 5), MCSegment(2, 2, 2, 8, 5),
          MCSegment(31, 1, 1, 8, 5), MCSegment(0, 3, 3, 7, 6), MCSegment(0, 3, 5, 8, 6),
          MCSegment(0, 3, 10, 4, 5), MCSegment(0, 1, 1, 30, 6), MCSegment(0, 1, 2, 30, 6),
          MCSegment(1, 1, 7, 8, 4)}

MCSources ==
  {[page_start |-> p, page_count |-> 2, file_length |-> 3] : p \in {0, 8, 16}}

MCImages ==
  [entry: {4, 6}, segments: {<<>>} \cup [1..1 -> MCSegments] \cup [1..2 -> MCSegments],
   source: MCSources]
    \cup [entry: {4}, source: [page_start: {30}, page_count: {1}, file_length: {2}],
          segments: [1..1 -> MCSegments]]
    \cup [entry: {4}, source: MCSources,
          segments: {<<MCSegment(0, 2, 2, 4, 5), MCSegment(0, 1, 1, 6, 6),
                       MCSegment(0, 1, 1, 12, 6)>>}]
=============================================================================
