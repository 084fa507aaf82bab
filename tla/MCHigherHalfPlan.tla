-------------------------- MODULE MCHigherHalfPlan --------------------------
(* Pages of four bytes; 32 low and 32 high addresses around a hole; a window *)
(* of four pages.  The files are a good one for each contract with one or    *)
(* two fields changed: to zero, to the next value, to the edge of a range,   *)
(* of the file or of the address space.                                      *)
EXTENDS HigherHalfPlan

MCHeader(offset) ==
  [class |-> 2, endianness |-> 1, ident_version |-> 1, os_abi |-> 0, object_type |-> 2,
   machine |-> 62, elf_version |-> 1, header_size |-> 5, program_header_size |-> 1,
   section_header_size |-> 1, entry |-> 8 + offset, program_header_offset |-> 5,
   section_header_offset |-> 22]

MCSegment(file_offset, address, offset, file_size, memory_size, flags) ==
  [segment_type |-> 1, flags |-> flags, file_offset |-> file_offset,
   virtual_address |-> address + offset, physical_address |-> address,
   file_size |-> file_size, memory_size |-> memory_size, alignment |-> 4]

MCFile(offset) ==
  [length |-> 24, magic |-> TRUE, header |-> MCHeader(offset),
   programs |-> <<MCSegment(12, 8, offset, 3, 3, 5), MCSegment(16, 12, offset, 2, 4, 4),
                  MCSegment(20, 16, offset, 1, 5, 6)>>,
   sections |-> <<[type |-> 2, size |-> 4, file_offset |-> 10, entry_size |-> 2,
                   symbols |-> <<0, 1>>]>>]

Edit(part, index, field, value) ==
  [part |-> part, index |-> index, field |-> field, value |-> value]

HeaderEdits ==
  {Edit("header", 0, f, 3) :
     f \in {"class", "endianness", "ident_version", "os_abi", "object_type", "machine",
            "elf_version", "header_size", "program_header_size", "section_header_size"}}
    \cup {Edit("header", 0, "entry", v) : v \in {9, 16, 40, 112}}
    \cup {Edit("header", 0, "program_header_offset", v) : v \in {21, 22, 126}}
    \cup {Edit("header", 0, "section_header_offset", v) : v \in {23, 24, 127}}

FileEdits ==
  {Edit("file", 0, "length", v) : v \in {3, 4, 20, 21, 23}}
    \cup {Edit("file", 0, "magic", FALSE)}
    \cup {Edit("file", 0, "sections", s) : s \in
            {<<>>, <<[type |-> 9, size |-> 0, file_offset |-> 0, entry_size |-> 0,
                      symbols |-> <<>>]>>,
             <<[type |-> 1, size |-> 9, file_offset |-> 0, entry_size |-> 0,
                symbols |-> <<>>],
               [type |-> 4, size |-> 2, file_offset |-> 0, entry_size |-> 0,
                symbols |-> <<>>]>>}}
    \cup {Edit("symbols", 0, f, 3) : f \in {"size", "entry_size"}}
    \cup {Edit("symbols", 0, "file_offset", v) : v \in {20, 21, 125}}
    \cup {Edit("symbols", 0, "symbols", s) : s \in {<<0, 0>>, <<1, 1>>}}
    \cup {Edit("add", 0, "segment", s) : s \in
            {MCSegment(12, 20, o, 0, 4, 4) : o \in {0, 100}}
              \cup {[MCSegment(0, 0, 0, 0, 0, 0) EXCEPT !.segment_type = t] : t \in {4, 7}}}
    \cup {Edit("swap", i, "with_next", TRUE) : i \in {1, 2}}
    \cup {Edit("remove", 0, "first", TRUE)}

ProgramEdits ==
  UNION {{Edit("program", i, "segment_type", v) : v \in {2, 3, 4}}
           \cup {Edit("program", i, "flags", v) : v \in {1, 2, 4, 5, 6, 7}}
           \cup {Edit("program", i, "file_offset", v) : v \in {0, 13, 24, 126}}
           \cup {Edit("program", i, "virtual_address", v) : v \in {8, 16, 28, 96, 108, 124}}
           \cup {Edit("program", i, "physical_address", v) : v \in {4, 8, 20, 24, 124}}
           \cup {Edit("program", i, "file_size", v) : v \in {0, 4, 9}}
           \cup {Edit("program", i, "memory_size", v) : v \in {0, 4, 8, 9, 90, 111}}
           \cup {Edit("program", i, "alignment", v) : v \in {1, 2, 3, 8}}
           \cup {Edit("move", i, "both", v) : v \in {4, 9, 14, 20, 24}} : i \in 1..3}

MCEdits == HeaderEdits \cup FileEdits \cup ProgramEdits

Apply(f, e) ==
  LET n == Len(f.programs)
  IN CASE e.part = "header" -> [f EXCEPT !.header[e.field] = e.value]
       [] e.part = "file" -> [f EXCEPT ![e.field] = e.value]
       [] e.part = "symbols" ->
            IF f.sections = <<>> THEN f ELSE [f EXCEPT !.sections[1][e.field] = e.value]
       [] e.part = "add" -> [f EXCEPT !.programs = Append(f.programs, e.value)]
       [] e.part = "remove" -> [f EXCEPT !.programs = Tail(f.programs)]
       [] e.index + (IF e.part = "swap" THEN 1 ELSE 0) > n -> f
       [] e.part = "program" -> [f EXCEPT !.programs[e.index][e.field] = e.value]
       [] e.part = "move" ->
            [f EXCEPT !.programs[e.index].physical_address = e.value,
                      !.programs[e.index].virtual_address =
                        e.value + f.programs[e.index].virtual_address
                          - f.programs[e.index].physical_address]
       [] e.part = "swap" ->
            [f EXCEPT !.programs[e.index] = f.programs[e.index + 1],
                      !.programs[e.index + 1] = f.programs[e.index]]

MCBase == {MCFile(offset) : offset \in {0, 100}}
MCOnce == MCBase \cup {Apply(f, e) : f \in MCBase, e \in MCEdits}
MCFiles ==
  {f \in MCOnce \cup {Apply(f, e) : f \in MCOnce, e \in ProgramEdits \cup FileEdits} :
     \A i \in 1..Len(f.programs) : f.programs[i].virtual_address \in 0..127}
=============================================================================
