------------------------------- MODULE PagePlan -------------------------------
(***************************************************************************)
(* The plan of an address space (crates/memory-layout/src/lib.rs,          *)
(* page_table.rs): a MappingPlan collects page ranges under the layout      *)
(* policy, then ConstructionPlan::build turns them, one page per step, into *)
(* a four-level table plan that still names no frames.                      *)
(*                                                                         *)
(* Addresses are page numbers: the range types admit page boundaries only.  *)
(* COUNT stands for the 512 entries of a table, so there are COUNT^4        *)
(* virtual pages; the hole between the canonical halves has no numbers.     *)
(***************************************************************************)
EXTENDS Naturals, Sequences, FiniteSets

CONSTANTS
  Callers,                   \* plans the loader may ask for: mode and insertions
  COUNT,                     \* TableIndex::COUNT
  HIGH_CANONICAL_START,
  SUPPORTED_PHYSICAL_END,
  BOOTSTRAP_PHYSICAL_START,
  BOOTSTRAP_PHYSICAL_END,
  TRANSITION_IDENTITY_END,
  BOOTSTRAP_STACK_PAGES,     \* BOOTSTRAP_STACK_BYTES in pages
  Region,                    \* region_range: virtual range of each AddressRegion
  CAPACITY,                  \* mappings of a MappingPlan
  TABLES, ENTRIES, REMOVALS  \* capacities of a ConstructionPlan

TableIndices == 0..(COUNT - 1)

VirtualEnd == COUNT * COUNT * COUNT * COUNT
VirtualPages == 0..(VirtualEnd - 1)
RegionKinds == {"DirectMap", "Mmio", "Framebuffer", "KernelImage", "KernelLocal"}
Modes == {"Transitional", "Final"}
Permissions == SUBSET {"READ", "WRITE", "EXECUTE", "USER", "GLOBAL"}
MappingKinds ==
  {"KernelText", "KernelRodata", "KernelData", "BootstrapStack", "BootInfo",
   "BootMemoryMap", "PageTable", "DirectMap", "Framebuffer", "Mmio",
   "TransitionIdentity", "Guard"}

Ranges == [start: Nat, end: Nat]
Requests ==
  [virtual: Ranges, mapped: BOOLEAN, physical: Ranges,
   permissions: Permissions, cache: {"WriteBack", "Uncached"}, kind: MappingKinds]

ASSUME PagePlanAssumption ==
  /\ COUNT \in Nat \ {0}
  /\ HIGH_CANONICAL_START \in VirtualPages
  /\ HIGH_CANONICAL_START % (COUNT * COUNT * COUNT) = 0
  /\ SUPPORTED_PHYSICAL_END \in Nat
  /\ BOOTSTRAP_STACK_PAGES \in Nat \ {0, 1}
  /\ Region["DirectMap"].end - Region["DirectMap"].start = SUPPORTED_PHYSICAL_END
  /\ \A r \in RegionKinds :
       /\ Region[r].start >= HIGH_CANONICAL_START
       /\ Region[r].end <= VirtualEnd
       /\ \A q \in RegionKinds \ {r} :
            Region[q].end <= Region[r].start \/ Region[r].end <= Region[q].start
  /\ \A n \in {CAPACITY, TABLES, ENTRIES, REMOVALS} : n \in Nat
  /\ Callers \subseteq [mode: Modes, requests: Seq(Requests)]

KERNEL_RX == {"READ", "EXECUTE", "GLOBAL"}
KERNEL_R == {"READ", "GLOBAL"}
KERNEL_RW == {"READ", "WRITE", "GLOBAL"}

VARIABLES
  caller,     \* mode and the insertions still to make
  mappings,   \* the MappingPlan's entries
  stage,      \* "mapping", "building", "built" or "refused"
  cursor,     \* mapping and page build has come to
  plan,       \* the ConstructionPlan: tables, entries, removals
  error       \* why the plan was refused

vars == <<caller, mappings, stage, cursor, plan, error>>

-----------------------------------------------------------------------------
(* Ranges.                                                                   *)

length(r) == r.end - r.start
contains(r, a) == r.start <= a /\ a < r.end
contains_range(r, q) == r.start <= q.start /\ q.end <= r.end
overlaps(r, q) == r.start < q.end /\ q.start < r.end

VirtualRangeOk(r) ==
  /\ r.start < r.end
  /\ r.end <= VirtualEnd
  /\ r.start < HIGH_CANONICAL_START => r.end <= HIGH_CANONICAL_START

PhysicalRangeOk(r) ==
  /\ r.start < r.end
  /\ r.end <= SUPPORTED_PHYSICAL_END

-----------------------------------------------------------------------------
(* The mapping plan.                                                         *)

from_bits_ok(p) ==
  /\ "READ" \in p
  /\ ~({"WRITE", "EXECUTE"} \subseteq p)

\* Region, permissions and cache that a kind fixes completely.
Fixed ==
  [k \in {"KernelText", "KernelRodata", "KernelData", "BootstrapStack", "BootInfo",
          "BootMemoryMap", "PageTable", "Framebuffer", "Mmio"} |->
     [region |-> CASE k \in {"KernelText", "KernelRodata", "KernelData"} -> "KernelImage"
                   [] k = "BootstrapStack" -> "KernelLocal"
                   [] k \in {"Framebuffer", "Mmio"} -> k
                   [] OTHER -> "DirectMap",
      permissions |-> CASE k = "KernelText" -> KERNEL_RX
                        [] k \in {"KernelRodata", "BootInfo", "BootMemoryMap"} -> KERNEL_R
                        [] OTHER -> KERNEL_RW,
      cache |-> IF k \in {"Framebuffer", "Mmio"} THEN "Uncached" ELSE "WriteBack"]]

validate_mapping_policy(m) ==
  /\ from_bits_ok(m.permissions)
  /\ "USER" \notin m.permissions
  /\ m.kind \in {"KernelText", "KernelRodata", "KernelData"} =>
       /\ m.physical.start >= BOOTSTRAP_PHYSICAL_START
       /\ m.physical.end <= BOOTSTRAP_PHYSICAL_END
  /\ m.kind \in {"DirectMap", "BootInfo", "BootMemoryMap", "PageTable"} =>
       /\ Region["DirectMap"].start + m.physical.start = m.virtual.start
       /\ Region["DirectMap"].start + m.physical.end = m.virtual.end
  /\ m.kind = "BootstrapStack" =>
       /\ length(m.physical) = BOOTSTRAP_STACK_PAGES
       /\ m.physical.end <= TRANSITION_IDENTITY_END
  /\ m.kind = "TransitionIdentity" =>
       /\ m.virtual = m.physical
       /\ m.virtual.end <= TRANSITION_IDENTITY_END
  /\ m.kind \in {"DirectMap", "TransitionIdentity"} =>
       /\ m.permissions \in {KERNEL_RX, KERNEL_R, KERNEL_RW}
       /\ m.cache = "WriteBack"
  /\ m.kind = "DirectMap" => contains_range(Region["DirectMap"], m.virtual)
  /\ m.kind \in DOMAIN Fixed =>
       /\ contains_range(Region[Fixed[m.kind].region], m.virtual)
       /\ m.permissions = Fixed[m.kind].permissions
       /\ m.cache = Fixed[m.kind].cache
  /\ m.kind # "Guard"

\* Faulty: an alias is compared with the first page of the other range only.
alias_first_page(a, b) ==
  /\ a.mapped /\ b.mapped
  /\ contains(a.physical, b.physical.start)
  /\ ("WRITE" \in a.permissions) # ("WRITE" \in b.permissions)

\* Two mappings of one frame: one writable and the other executable, or only
\* one of them writable.
alias_refused(a, b) ==
  /\ a.mapped /\ b.mapped
  /\ overlaps(a.physical, b.physical)
  /\ \/ "WRITE" \in a.permissions /\ "EXECUTE" \in b.permissions
     \/ "WRITE" \in b.permissions /\ "EXECUTE" \in a.permissions
     \/ ("WRITE" \in a.permissions) # ("WRITE" \in b.permissions)

\* Faulty: only an exact repetition of a range counts as an overlap.
virtual_overlap_same_start(a, b) == a.virtual.start = b.virtual.start

virtual_overlap(a, b) == overlaps(a.virtual, b.virtual)

insert_ok(m) ==
  /\ \A i \in 1..Len(mappings) :
       ~virtual_overlap(mappings[i], m) /\ ~alias_refused(mappings[i], m)
  /\ Len(mappings) < CAPACITY

\* The entries stay sorted by virtual start: those that lie before m keep their
\* place, the others move up by one.
inserted(m) ==
  LET position == Cardinality({i \in 1..Len(mappings) :
                     \A j \in 1..i : mappings[j].virtual.start < m.virtual.start})
  IN [i \in 1..(Len(mappings) + 1) |->
        IF i <= position THEN mappings[i]
        ELSE IF i = position + 1 THEN m ELSE mappings[i - 1]]

insert_guard_ok(m) == contains_range(Region["KernelLocal"], m.virtual)

insert_mapping_ok(m) ==
  /\ PhysicalRangeOk(m.physical)
  /\ length(m.virtual) = length(m.physical)
  /\ validate_mapping_policy(m)

\* The least of a set of positions, or nothing.
FirstOf(positions) == {i \in positions : \A j \in positions : i <= j}

\* The physical page of a virtual page, or nothing.
translate(page) ==
  LET hits == FirstOf({i \in 1..Len(mappings) : contains(mappings[i].virtual, page)})
  IN {mappings[i].physical.start + (page - mappings[i].virtual.start) :
        i \in {j \in hits : mappings[j].mapped}}

\* The low mappings are one RX page and one RW stack and nothing else.  They
\* add up to MAX_TRANSITION_IDENTITY_BYTES, so the limit on the sum refuses
\* nothing more.
validate_transition ==
  LET low == SelectSeq(mappings, LAMBDA e : e.virtual.start < HIGH_CANONICAL_START)
      trampoline(e) == e.permissions = KERNEL_RX /\ length(e.virtual) = 1
      stack(e) ==
        e.permissions = KERNEL_RW /\ length(e.virtual) = BOOTSTRAP_STACK_PAGES
  IN /\ \A i \in 1..Len(low) :
          /\ low[i].kind = "TransitionIdentity"
          /\ trampoline(low[i]) \/ stack(low[i])
     /\ Len(SelectSeq(low, trampoline)) = 1
     /\ Len(SelectSeq(low, stack)) = 1

validate_final ==
  \A i \in 1..Len(mappings) :
    /\ mappings[i].kind # "TransitionIdentity"
    /\ mappings[i].virtual.start >= HIGH_CANONICAL_START
    /\ mappings[i].kind = "BootstrapStack" =>
         \E j \in 1..Len(mappings) :
           /\ mappings[j].kind = "Guard"
           /\ mappings[j].virtual.start + 1 = mappings[i].virtual.start
           /\ mappings[j].virtual.end = mappings[i].virtual.start

-----------------------------------------------------------------------------
(* The construction plan.  Slot n is tables[n + 1]; the root is slot 0.       *)

INTERMEDIATE == {"PRESENT", "WRITABLE"}

\* Faulty: a page that may not be executed lacks the NO_EXECUTE bit.
leaf_without_no_execute(permissions, cache) ==
  {"PRESENT", "GLOBAL"}
    \cup (IF "WRITE" \in permissions THEN {"WRITABLE"} ELSE {})
    \cup (IF cache = "Uncached" THEN {"WRITE_THROUGH", "CACHE_DISABLE"} ELSE {})

for_leaf(permissions, cache) ==
  {"PRESENT", "GLOBAL"}
    \cup (IF "WRITE" \in permissions THEN {"WRITABLE"} ELSE {})
    \cup (IF "EXECUTE" \in permissions THEN {} ELSE {"NO_EXECUTE"})
    \cup (IF cache = "Uncached" THEN {"WRITE_THROUGH", "CACHE_DISABLE"} ELSE {})

\* The code shifts by 12, 21, 30 and 39 bits.
virtual_address_indices(page) ==
  LET pt == page \div COUNT
      pd == pt \div COUNT
  IN <<pd \div COUNT, pd % COUNT, pt % COUNT, page % COUNT>>

EmptyPlan ==
  [tables |-> <<[level |-> 4, parent_slot |-> 0, parent_index |-> 0]>>,
   entries |-> <<>>, removals |-> <<>>, slot |-> 0, error |-> "none"]

\* The first entry at an index of a table, or nothing.
find_entry(p, slot, index) ==
  LET hits == {i \in 1..Len(p.entries) :
                 p.entries[i].table_slot = slot /\ p.entries[i].index = index}
  IN {p.entries[i] : i \in FirstOf(hits)}

Failed(p, why) == [p EXCEPT !.error = why]

push_entry(p, entry) ==
  IF Len(p.entries) = ENTRIES THEN Failed(p, "EntryCapacityExhausted")
  ELSE [p EXCEPT !.entries = Append(@, entry)]

push_removal(p, entry) ==
  IF p.error # "none" THEN p
  ELSE IF Len(p.removals) = REMOVALS THEN Failed(p, "RemovalCapacityExhausted")
  ELSE [p EXCEPT !.removals =
          Append(@, [table_slot |-> entry.table_slot, index |-> entry.index,
                     expected_target |-> entry.value, expected_flags |-> entry.flags])]

\* Faulty: the high half is recorded for removal.
removed_high_half(level, page) == level = 4 /\ page >= HIGH_CANONICAL_START

removed_later(level, page) == level = 4 /\ page < HIGH_CANONICAL_START

\* Faulty: a child table is created without looking for an existing one.
no_existing_child(p, index) == {}

existing_child(p, index) == find_entry(p, p.slot, index)

\* The child that an entry names.
follow_child(p, existing) ==
  IF existing.kind = "TableSlot" THEN [p EXCEPT !.slot = existing.value]
  ELSE Failed(p, "IncompatibleRemap")

\* A table, the entry that points at it and, in the low half, its removal.
new_child(p, level, index, page) ==
  LET child == Len(p.tables)
      entry == [table_slot |-> p.slot, index |-> index, kind |-> "TableSlot",
                value |-> child, flags |-> INTERMEDIATE]
      pushed == push_entry([p EXCEPT !.tables = Append(@, [level |-> level - 1,
                               parent_slot |-> p.slot, parent_index |-> index])],
                           entry)
  IN [IF removed_later(level, page) THEN push_removal(pushed, entry) ELSE pushed
        EXCEPT !.slot = child]

ensure_child(p, level, index, page) ==
  IF p.error # "none" THEN p
  ELSE IF existing_child(p, index) # {}
    THEN follow_child(p, CHOOSE e \in existing_child(p, index) : TRUE)
  ELSE IF Len(p.tables) = TABLES THEN Failed(p, "TableCapacityExhausted")
  ELSE new_child(p, level, index, page)

insert_page(p, page, frame, permissions, cache) ==
  LET index == virtual_address_indices(page)
      pdpt == ensure_child([p EXCEPT !.slot = 0], 4, index[1], page)
      pd == ensure_child(pdpt, 3, index[2], page)
      pt == ensure_child(pd, 2, index[3], page)
      leaf == [table_slot |-> pt.slot, index |-> index[4], kind |-> "PhysicalFrame",
               value |-> frame, flags |-> for_leaf(permissions, cache)]
  IN IF frame = 0 THEN Failed(p, "ZeroPhysicalFrame")
     ELSE IF pt.error # "none" THEN pt
     ELSE IF "USER" \in permissions THEN Failed(pt, "UserMappingForbidden")
     ELSE IF {"WRITE", "EXECUTE"} \subseteq permissions
       THEN Failed(pt, "WritableExecutableLeaf")
     ELSE IF find_entry(pt, pt.slot, index[4]) = {} THEN push_entry(pt, leaf)
     ELSE IF find_entry(pt, pt.slot, index[4]) = {leaf}
       THEN Failed(pt, "DuplicateLeaf")
     ELSE Failed(pt, "IncompatibleRemap")

validate_structure(p) ==
  \A slot \in 1..(Len(p.tables) - 1) :
    LET table == p.tables[slot + 1]
    IN find_entry(p, table.parent_slot, table.parent_index)
         = {[table_slot |-> table.parent_slot, index |-> table.parent_index,
             kind |-> "TableSlot", value |-> slot, flags |-> INTERMEDIATE]}

\* The leaf entry a walk from the root finds, or nothing.
leaf_entry(p, page) ==
  LET index == virtual_address_indices(page)
      at(slots, i, kind) ==
        {e \in UNION {find_entry(p, slot, index[i]) : slot \in slots} : e.kind = kind}
      below(slots, i) == {e.value : e \in at(slots, i, "TableSlot")}
  IN at(below(below(below({0}, 1), 2), 3), 4, "PhysicalFrame")

-----------------------------------------------------------------------------
(* The calls of the loader.                                                  *)

Init ==
  /\ caller \in Callers
  /\ mappings = <<>>
  /\ stage = "mapping"
  /\ cursor = [mapping |-> 1, page |-> 0]
  /\ plan = EmptyPlan
  /\ error = "none"

\* Every Err is returned at once and drops the plan.
Refuse(why) ==
  /\ stage' = "refused"
  /\ error' = why
  /\ UNCHANGED <<caller, mappings, cursor, plan>>

insert(m, allowed) ==
  IF VirtualRangeOk(m.virtual) /\ allowed /\ insert_ok(m)
    THEN /\ mappings' = inserted(m)
         /\ caller' = [caller EXCEPT !.requests = Tail(@)]
         /\ UNCHANGED <<stage, cursor, plan, error>>
    ELSE Refuse("Layout")

insert_mapping ==
  /\ stage = "mapping"
  /\ caller.requests # <<>>
  /\ Head(caller.requests).mapped
  /\ insert(Head(caller.requests), insert_mapping_ok(Head(caller.requests)))

insert_guard ==
  /\ stage = "mapping"
  /\ caller.requests # <<>>
  /\ ~Head(caller.requests).mapped
  /\ insert(Head(caller.requests), insert_guard_ok(Head(caller.requests)))

begin ==
  /\ stage = "mapping"
  /\ caller.requests = <<>>
  /\ IF ~(IF caller.mode = "Final" THEN validate_final ELSE validate_transition)
       THEN Refuse("Layout")
     ELSE IF TABLES = 0 THEN Refuse("TableCapacityExhausted")
     ELSE /\ stage' = "building"
          /\ UNCHANGED <<caller, mappings, cursor, plan, error>>

\* One page of one mapping; a guard is passed over.
add_mapping ==
  /\ stage = "building"
  /\ cursor.mapping <= Len(mappings)
  /\ LET m == mappings[cursor.mapping]
         page == m.virtual.start + cursor.page
         next == insert_page(plan, page, m.physical.start + cursor.page,
                             m.permissions, m.cache)
         last == ~m.mapped \/ page + 1 = m.virtual.end
     IN IF /\ caller.mode = "Final"
           /\ m.virtual.start < HIGH_CANONICAL_START \/ m.kind = "TransitionIdentity"
          THEN Refuse("Layout")
        ELSE IF ~m.mapped /\ m.kind # "Guard" THEN Refuse("UnsupportedGuardLocation")
        ELSE IF m.mapped /\ next.error # "none" THEN Refuse(next.error)
        ELSE /\ plan' = IF m.mapped THEN next ELSE plan
             /\ cursor' = IF last THEN [mapping |-> cursor.mapping + 1, page |-> 0]
                          ELSE [cursor EXCEPT !.page = @ + 1]
             /\ UNCHANGED <<caller, mappings, stage, error>>

finish ==
  /\ stage = "building"
  /\ cursor.mapping > Len(mappings)
  /\ IF validate_structure(plan)
       THEN stage' = "built" /\ UNCHANGED <<caller, mappings, cursor, plan, error>>
       ELSE Refuse("MissingParent")

Ended ==
  /\ stage \in {"built", "refused"}
  /\ UNCHANGED vars

Plan == insert_mapping \/ insert_guard \/ begin \/ add_mapping \/ finish

Next == Plan \/ Ended

Spec == Init /\ [][Next]_vars

-----------------------------------------------------------------------------
(* Properties.                                                               *)

Covering(page) ==
  {mappings[i] : i \in {j \in 1..Len(mappings) :
                          mappings[j].mapped /\ contains(mappings[j].virtual, page)}}

MappedPages == {page \in VirtualPages : Covering(page) # {}}

\* The positions of the tables that a walk to a page goes through.
TablesOnTheWay(page) ==
  LET index == virtual_address_indices(page)
  IN {<<index[1]>>, <<index[1], index[2]>>, <<index[1], index[2], index[3]>>}

TablesNeeded == UNION {TablesOnTheWay(page) : page \in MappedPages}

LeafEntries == {e \in {plan.entries[i] : i \in 1..Len(plan.entries)} :
                  e.kind = "PhysicalFrame"}

\* A plan that ConstructionPlan::build returns maps exactly what the
\* MappingPlan says: a walk of it (leaf_entry) ends at the frame translate
\* gives, with the permissions and cache policy of the mapping, and a page
\* under no mapping or under a guard has no leaf.
WalkMatchesMappings ==
  stage = "built" =>
    \A page \in VirtualPages :
      /\ {e.value : e \in leaf_entry(plan, page)} = translate(page)
      /\ (Covering(page) = {}) = (translate(page) = {})
      /\ \A m \in Covering(page) : \A e \in leaf_entry(plan, page) :
           /\ ("WRITABLE" \in e.flags) = ("WRITE" \in m.permissions)
           /\ ("NO_EXECUTE" \in e.flags) = ("EXECUTE" \notin m.permissions)
           /\ ("CACHE_DISABLE" \in e.flags) = (m.cache = "Uncached")
           /\ e.value = m.physical.start + (page - m.virtual.start)

\* No frame is writable through one leaf and executable, or read-only, through
\* another, whatever virtual pages they serve (the alias test of
\* MappingPlan::insert, carried into the entries by build).
FramesHaveOneWriter ==
  \A e, f \in LeafEntries : e.value = f.value =>
    /\ ("WRITABLE" \in e.flags) = ("WRITABLE" \in f.flags)
    /\ "WRITABLE" \in e.flags => "NO_EXECUTE" \in f.flags

\* In a final plan the page below a bootstrap stack has no leaf, so running
\* off the stack faults (validate_final, MappingPlan::insert).
StackIsGuarded ==
  stage = "built" /\ caller.mode = "Final" =>
    \A i \in 1..Len(mappings) : mappings[i].kind = "BootstrapStack" =>
      leaf_entry(plan, mappings[i].virtual.start - 1) = {}

\* The built entries keep the protections that the mapping policy promises for
\* frames and for the stack.
ProtectionsHold == FramesHaveOneWriter /\ StackIsGuarded

\* A removal of p names the place of entry e.
Listed(p, e) ==
  \E i \in 1..Len(p.removals) :
    p.removals[i].table_slot = e.table_slot /\ p.removals[i].index = e.index

\* The plan after its removals: the entries they name are no longer present.
Cleared(p) ==
  [p EXCEPT !.entries =
     [i \in 1..Len(p.entries) |->
        IF Listed(p, p.entries[i]) THEN [p.entries[i] EXCEPT !.kind = "Cleared"]
        ELSE p.entries[i]]]

\* Clearing the entries that transition_removals lists unmaps every low page
\* and leaves the walk of every high page as it was (push_removal).
RemovalsClearTheLowHalf ==
  stage = "built" =>
    \A page \in VirtualPages :
      leaf_entry(Cleared(plan), page)
        = IF page < HIGH_CANONICAL_START THEN {} ELSE leaf_entry(plan, page)

\* Mappings that passed the policy are built exactly when no frame zero is
\* mapped and the tables, entries and removals that their pages need fit the
\* arrays; DuplicateLeaf, IncompatibleRemap, MissingParent and the other
\* errors of build never happen.
RefusedForAReason ==
  LET roots == {virtual_address_indices(page)[1] :
                  page \in {q \in MappedPages : q < HIGH_CANONICAL_START}}
      misfits ==
        (IF \E page \in MappedPages : 0 \in translate(page)
           THEN {"ZeroPhysicalFrame"} ELSE {})
        \cup (IF Cardinality(TablesNeeded) + 1 > TABLES
                THEN {"TableCapacityExhausted"} ELSE {})
        \cup (IF Cardinality(TablesNeeded) + Cardinality(MappedPages) > ENTRIES
                THEN {"EntryCapacityExhausted"} ELSE {})
        \cup (IF Cardinality(roots) > REMOVALS
                THEN {"RemovalCapacityExhausted"} ELSE {})
  IN /\ stage = "refused" => error \in {"Layout"} \cup misfits
     /\ stage = "built" => misfits = {}
=============================================================================
