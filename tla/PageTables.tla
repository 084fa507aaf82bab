------------------------------ MODULE PageTables ------------------------------
(***************************************************************************)
(* The inactive page tables of the bootstrap transition                     *)
(* (crates/bootloader/src/page_tables.rs): for_transition plans them,       *)
(* materialize writes the plan into owned frames, and verify reads every    *)
(* entry back before the hierarchy may be used.                             *)
(*                                                                         *)
(* A 64-bit entry is a record of its address field and its set of flag      *)
(* bits; "OTHER" stands for a bit no valid entry has.  Between the writing  *)
(* and the reading the memory may come to hold other words in up to         *)
(* MaxFaults places, and every access may fail.                             *)
(***************************************************************************)
EXTENDS PagePlan

CONSTANTS
  FrameLists,   \* frames the firmware may hand out, in order
  Words,        \* what a disturbed entry may hold
  Disturbed,    \* first pages of the two mappings whose tables are disturbed
  MaxFaults     \* bound on the disturbed entries

VARIABLES
  phase,        \* "planning", "writing", "written", "reading", "verified", "failed"
  frames,       \* frames of the owner, one per planned table
  memory,       \* memory[frame][index]
  table,        \* slot that is written or read next
  reachable,    \* slots seen as a child so far
  faults,       \* entries disturbed so far
  reason        \* why the tables were given up

tvars == <<phase, frames, memory, table, reachable, faults, reason>>

Word == [address: Nat, flags: SUBSET {"PRESENT", "WRITABLE", "USER", "WRITE_THROUGH",
          "CACHE_DISABLE", "HUGE_PAGE", "GLOBAL", "NO_EXECUTE", "OTHER"}]

Zero == [address |-> 0, flags |-> {}]

ASSUME PageTablesAssumption ==
  /\ \A f \in FrameLists :
       /\ f \in Seq(Nat) /\ Len(f) = TABLES
       /\ \A i, j \in 1..TABLES : f[i] = f[j] => i = j
       /\ \A i \in 1..TABLES : f[i] \in 1..(SUPPORTED_PHYSICAL_END - 1)
  /\ Words \subseteq Word
  /\ MaxFaults \in Nat

\* The insertions for_transition makes, the trampoline page first.
for_transition(trampoline_page, stack_start) ==
  LET identity(from, pages, permissions) ==
        [virtual |-> [start |-> from, end |-> from + pages], mapped |-> TRUE,
         physical |-> [start |-> from, end |-> from + pages],
         permissions |-> permissions, cache |-> "WriteBack",
         kind |-> "TransitionIdentity"]
  IN [mode |-> "Transitional",
      requests |-> <<identity(trampoline_page, 1, KERNEL_RX),
                     identity(stack_start, BOOTSTRAP_STACK_PAGES, KERNEL_RW)>>]

encoded_value(entry) ==
  [address |-> IF entry.kind = "TableSlot" THEN frames[entry.value + 1] ELSE entry.value,
   flags |-> entry.flags]

-----------------------------------------------------------------------------
(* Checks of verify_materialized.                                            *)

validate_entry_bits(value, expected) ==
  /\ "PRESENT" \in value.flags
  /\ value.flags \cap {"USER", "HUGE_PAGE", "OTHER"} = {}
  /\ value.address < SUPPORTED_PHYSICAL_END
  /\ ~ /\ \E e \in expected : e.kind = "PhysicalFrame"
       /\ "WRITABLE" \in value.flags
       /\ "NO_EXECUTE" \notin value.flags

levels_are_parent_child(slot, child) ==
  plan.tables[slot + 1].level = plan.tables[child + 1].level + 1

\* Slots above a slot; a parent has a smaller slot than its children.
Ancestors[slot \in 0..TABLES] ==
  IF slot = 0 \/ slot >= Len(plan.tables) THEN {}
  ELSE {plan.tables[slot + 1].parent_slot} \cup Ancestors[plan.tables[slot + 1].parent_slot]

OwnedSlots(address) == {slot \in 0..(Len(frames) - 1) : frames[slot + 1] = address}

\* Verdict on the child that a non-zero table entry points at.
CheckChild(slot, actual, entry) ==
  LET child == CHOOSE s \in OwnedSlots(actual.address) : TRUE
  IN IF OwnedSlots(actual.address) = {} THEN "UnownedChild"
     ELSE IF child # entry.value /\ (child = slot \/ child \in Ancestors[slot]) THEN "Cycle"
     ELSE IF ~levels_are_parent_child(slot, child) THEN "WrongTableLevel"
     ELSE IF child # entry.value THEN "WrongChild"
     ELSE "Ok"

ValueMatches(actual, entry) == actual = encoded_value(entry)

CheckEntry(slot, index) ==
  LET actual == memory[frames[slot + 1]][index]
      expected == find_entry(plan, slot, index)
  IN IF actual = Zero
       THEN IF \E e \in expected : e.kind = "PhysicalFrame" THEN "EntryMismatch" ELSE "Ok"
     ELSE IF ~validate_entry_bits(actual, expected) THEN "InvalidBits"
     ELSE IF expected = {} THEN "UnexpectedNonZero"
     ELSE LET entry == CHOOSE e \in expected : TRUE
              verdict == IF entry.kind = "TableSlot" THEN CheckChild(slot, actual, entry)
                         ELSE "Ok"
          IN IF verdict = "Ok" /\ ~ValueMatches(actual, entry) THEN "EntryMismatch"
             ELSE verdict

\* Children that a scan without complaint has marked reachable.
ChildrenSeen(slot) ==
  UNION {{e.value : e \in {f \in find_entry(plan, slot, i) : f.kind = "TableSlot"}} :
           i \in {j \in TableIndices : memory[frames[slot + 1]][j] # Zero}}

\* Faulty: only the removals are checked at the end.
AllReachableUnchecked == TRUE

AllReachable == 1..(Len(plan.tables) - 1) \subseteq reachable

RemovalsMatch ==
  \A i \in 1..Len(plan.removals) :
    LET r == plan.removals[i]
    IN memory[frames[r.table_slot + 1]][r.index]
         = [address |-> frames[r.expected_target + 1], flags |-> r.expected_flags]

-----------------------------------------------------------------------------
(* Actions.                                                                  *)

TablesInit ==
  /\ Init
  /\ phase = "planning"
  /\ frames = <<>>
  /\ memory = <<>>
  /\ table = 0
  /\ reachable = {}
  /\ faults = 0
  /\ reason = "none"

Planning ==
  /\ Plan
  /\ UNCHANGED tvars

\* The owner has allocated and zeroed one distinct frame per planned table.
allocate ==
  /\ phase = "planning"
  /\ stage = "built"
  /\ \E list \in FrameLists :
       /\ frames' = SubSeq(list, 1, Len(plan.tables))
       /\ memory' = [f \in {list[i] : i \in 1..Len(plan.tables)} |->
                       [index \in TableIndices |-> Zero]]
  /\ phase' = "writing"
  /\ UNCHANGED <<table, reachable, faults, reason>>
  /\ UNCHANGED vars

\* An error drops the tables, whose owner frees the frames.
GiveUp(why) ==
  /\ phase' = "failed"
  /\ reason' = why
  /\ UNCHANGED <<frames, memory, table, reachable, faults>>
  /\ UNCHANGED vars

\* All entries of one table are written, the empty ones as zero.
materialize ==
  /\ phase = "writing"
  /\ table < Len(plan.tables)
  /\ \/ /\ memory' = [memory EXCEPT ![frames[table + 1]] =
                        [index \in TableIndices |->
                           IF find_entry(plan, table, index) = {} THEN Zero
                           ELSE encoded_value(CHOOSE e \in find_entry(plan, table, index) : TRUE)]]
        /\ table' = table + 1
        /\ UNCHANGED <<phase, frames, reachable, faults, reason>>
        /\ UNCHANGED vars
     \/ GiveUp("Access")

Materialized ==
  /\ phase = "writing"
  /\ table = Len(plan.tables)
  /\ phase' = "written"
  /\ UNCHANGED <<frames, memory, table, reachable, faults, reason>>
  /\ UNCHANGED vars

\* The memory holds something else than was written.
Disturb ==
  /\ phase = "written"
  /\ {mappings[i].virtual.start : i \in 1..Len(mappings)} \in Disturbed
  /\ faults < MaxFaults
  /\ \E slot \in 0..(Len(frames) - 1), index \in TableIndices, word \in Words :
       /\ memory[frames[slot + 1]][index] # word
       /\ memory' = [memory EXCEPT ![frames[slot + 1]][index] = word]
  /\ faults' = faults + 1
  /\ UNCHANGED <<phase, frames, table, reachable, reason>>
  /\ UNCHANGED vars

verify ==
  /\ phase = "written"
  /\ phase' = "reading"
  /\ table' = 0
  /\ reachable' = {0}
  /\ UNCHANGED <<frames, memory, faults, reason>>
  /\ UNCHANGED vars

\* One table: the first entry that is not as planned ends the verification.
verify_table ==
  /\ phase = "reading"
  /\ table < Len(plan.tables)
  /\ LET bad == {index \in TableIndices : CheckEntry(table, index) # "Ok"}
     IN \/ GiveUp("Access")
        \/ /\ bad # {}
           /\ GiveUp(CheckEntry(table, CHOOSE i \in bad : \A j \in bad : i <= j))
        \/ /\ bad = {}
           /\ table' = table + 1
           /\ reachable' = reachable \cup ChildrenSeen(table)
           /\ UNCHANGED <<phase, frames, memory, faults, reason>>
           /\ UNCHANGED vars

verify_end ==
  /\ phase = "reading"
  /\ table = Len(plan.tables)
  /\ IF ~AllReachable THEN GiveUp("UnreachableTable")
     ELSE IF ~RemovalsMatch THEN GiveUp("RemovalMismatch")
     ELSE \/ plan.removals # <<>> /\ GiveUp("Access")
          \/ /\ phase' = "verified"
             /\ UNCHANGED <<frames, memory, table, reachable, faults, reason>>
             /\ UNCHANGED vars

TablesEnded ==
  /\ stage = "refused" \/ phase \in {"verified", "failed"}
  /\ UNCHANGED <<vars, tvars>>

TablesNext ==
  \/ Planning \/ allocate \/ materialize \/ Materialized \/ Disturb
  \/ verify \/ verify_table \/ verify_end \/ TablesEnded

TablesSpec == TablesInit /\ [][TablesNext]_<<vars, tvars>>

-----------------------------------------------------------------------------
(* Properties.                                                               *)

\* What the processor makes of one entry: a page fault unless it is present.
Present(frame, index) ==
  {w \in {memory[frame][index]} : "PRESENT" \in w.flags}

\* The words a processor meets on its way to a page, from the root frame; a
\* walk that leaves the planned tables ends there.
HardwareWalk(page) ==
  LET index == virtual_address_indices(page)
      step(walks, i) ==
        UNION {{Append(walk, w) : w \in
                  IF walk = <<>> THEN Present(frames[1], index[i])
                  ELSE IF walk[Len(walk)].address \in DOMAIN memory
                    THEN Present(walk[Len(walk)].address, index[i]) ELSE {}} : walk \in walks}
  IN step(step(step(step({<<>>}, 1), 2), 3), 4)

\* Tables that passed verify translate like the mapping plan, whatever was
\* done to the memory before: a processor given the root frame reaches the
\* mapped frames only, each writable or executable as its mapping says, never
\* as a user or huge page, and faults on every other page.
VerifiedTablesTranslateThePlan ==
  phase = "verified" =>
    \A page \in VirtualPages :
      /\ {walk[4].address : walk \in HardwareWalk(page)} = translate(page)
      /\ \A walk \in HardwareWalk(page), m \in Covering(page) :
           /\ (\A i \in 1..4 : "WRITABLE" \in walk[i].flags) = ("WRITE" \in m.permissions)
           /\ (\E i \in 1..4 : "NO_EXECUTE" \in walk[i].flags) = ("EXECUTE" \notin m.permissions)
           /\ \A i \in 1..4 : walk[i].flags \cap {"USER", "HUGE_PAGE", "OTHER"} = {}

\* The fixed capacities are enough for every placement of the trampoline and
\* the stack: for_transition fails only where a page is frame zero, beyond the
\* identity limit, or part of both.  What materialize then wrote passes verify
\* unless an access fails or the memory was disturbed.
EveryPlacementIsUsable ==
  /\ phase = "failed" => faults > 0 \/ reason = "Access"
  /\ stage = "refused" =>
       \/ error = "ZeroPhysicalFrame" /\ \E i \in 1..Len(mappings) : mappings[i].physical.start = 0
       \/ /\ error = "Layout"
          /\ caller.requests # <<>>
          /\ LET m == Head(caller.requests)
             IN \/ m.virtual.end > TRANSITION_IDENTITY_END
                \/ \E i \in 1..Len(mappings) : overlaps(mappings[i].virtual, m.virtual)
=============================================================================
