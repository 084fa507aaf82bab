-------------------------- MODULE PagePlanInvariant ---------------------------
(***************************************************************************)
(* The inductive invariant of the page-table plan, for every number of      *)
(* entries per table, every capacity and every sequence of insertions.      *)
(*                                                                         *)
(* IInv: the mappings obey the policy, the planned tables form a tree, the  *)
(* removals are its root entries in the low half, and the leaves are those  *)
(* of the pages that build has been through.                                *)
(*                                                                         *)
(* The first part is about the tables alone.  Structure says that they form *)
(* a tree whose edges are the table entries, with one entry at most per     *)
(* index.  insert_page keeps it and puts the leaf on the page's own path    *)
(* (InsertPage); a leaf belongs to one page only (OnePage), as the indices  *)
(* on its way to the root give the page number back (SamePage).             *)
(***************************************************************************)
EXTENDS PagePlan, WellFoundedInduction, FiniteSetTheorems, TLAPS

TableRecords == [level: Nat, parent_slot: Nat, parent_index: Nat]

Flags ==
  {"PRESENT", "WRITABLE", "GLOBAL", "NO_EXECUTE", "WRITE_THROUGH", "CACHE_DISABLE"}

Errors ==
  {"none", "ZeroPhysicalFrame", "UserMappingForbidden", "WritableExecutableLeaf",
   "DuplicateLeaf", "IncompatibleRemap", "TableCapacityExhausted",
   "EntryCapacityExhausted", "RemovalCapacityExhausted"}

Entries ==
  [table_slot: Nat, index: Nat, kind: {"TableSlot", "PhysicalFrame"}, value: Nat,
   flags: SUBSET Flags]

Removals ==
  [table_slot: Nat, index: Nat, expected_target: Nat, expected_flags: SUBSET Flags]

Plans ==
  [tables: Seq(TableRecords), entries: Seq(Entries), removals: Seq(Removals),
   slot: Nat, error: Errors]

Slots(p) == 0..(Len(p.tables) - 1)

Hits(p, slot, index) ==
  {i \in 1..Len(p.entries) : p.entries[i].table_slot = slot /\ p.entries[i].index = index}

\* Entry e points at the table in slot s, which names it as its parent.
Edge(T, e, s) ==
  /\ e.kind = "TableSlot" /\ e.value = s
  /\ T[s + 1].parent_slot = e.table_slot
  /\ T[s + 1].parent_index = e.index

\* Every table but the root has its entry.
Parents(T, E) ==
  \A s \in 1..(Len(T) - 1) :
    /\ T[s + 1].parent_slot \in 0..(Len(T) - 1)
    /\ \E i \in 1..Len(E) : Edge(T, E[i], s)

\* Every entry lies in a table, and a table entry points at one.
Children(T, E) ==
  \A i \in 1..Len(E) :
    /\ E[i].table_slot \in 0..(Len(T) - 1)
    /\ E[i].kind = "TableSlot" =>
         E[i].value \in 1..(Len(T) - 1) /\ Edge(T, E[i], E[i].value)

\* No two entries lie at one index of a table.
Distinct(E) ==
  \A i, j \in 1..Len(E) :
    E[i].table_slot = E[j].table_slot /\ E[i].index = E[j].index => i = j

Structure(p) ==
  /\ Len(p.tables) > 0
  /\ Parents(p.tables, p.entries)
  /\ Children(p.tables, p.entries)
  /\ Distinct(p.entries)

\* r has the tables and entries of p, and further table entries.
Extends(p, r) ==
  /\ Len(p.tables) <= Len(r.tables) /\ Len(p.entries) <= Len(r.entries)
  /\ \A s \in 1..Len(p.tables) : r.tables[s] = p.tables[s]
  /\ \A i \in 1..Len(p.entries) : r.entries[i] = p.entries[i]
  /\ \A i \in (Len(p.entries) + 1)..Len(r.entries) : r.entries[i].kind = "TableSlot"

\* The table in slot s hangs at an index of the table in slot up.
Below(p, up, index, s) ==
  /\ s \in Slots(p) \ {0}
  /\ p.tables[s + 1].parent_slot = up
  /\ p.tables[s + 1].parent_index = index

\* A walk to a page comes to the table in slot pt.
OnPath(p, pt, page) ==
  \E pdpt, pd \in Slots(p) :
    /\ Below(p, 0, virtual_address_indices(page)[1], pdpt)
    /\ Below(p, pdpt, virtual_address_indices(page)[2], pd)
    /\ Below(p, pd, virtual_address_indices(page)[3], pt)

\* Entry e is the leaf of a page.
Leaf(p, e, page, frame, flags) ==
  /\ e.kind = "PhysicalFrame" /\ e.value = frame /\ e.flags = flags
  /\ e.index = virtual_address_indices(page)[4]
  /\ OnPath(p, e.table_slot, page)

\* r is p with the leaf of a page, and with the tables it needs.
PageAdded(p, page, frame, flags, r) ==
  \E leaf \in Entries, q \in Plans :
    /\ r \in Plans /\ Structure(r)
    /\ Extends(p, q) /\ r.tables = q.tables /\ r.entries = Append(q.entries, leaf)
    /\ Leaf(r, leaf, page, frame, flags)

\* r is p, but for the slot it stands on.
SameTables(p, r) ==
  r.tables = p.tables /\ r.entries = p.entries /\ r.removals = p.removals

\* r is p with a new table at an index of its slot, and stands on it; with its
\* removal if the table is to be removed.
ChildAdded(p, level, index, page, r) ==
  \E added \in TableRecords, entry \in Entries, removal \in Removals :
    /\ Len(p.tables) # TABLES /\ added.level = level - 1
    /\ added.parent_slot = p.slot /\ added.parent_index = index
    /\ entry.table_slot = p.slot /\ entry.index = index
    /\ entry.kind = "TableSlot" /\ entry.value = Len(p.tables)
    /\ entry.flags = INTERMEDIATE
    /\ r \in Plans /\ r.slot = Len(p.tables)
    /\ r.tables = Append(p.tables, added)
    /\ r.entries = Append(p.entries, entry)
    /\ removal.table_slot = p.slot /\ removal.index = index
    /\ removal.expected_target = Len(p.tables)
    /\ removal.expected_flags = INTERMEDIATE
    /\ r.removals = IF removed_later(level, page) THEN Append(p.removals, removal)
                    ELSE p.removals

\* The index of a root entry lies in the low half.
LowIndex(index) == index < HIGH_CANONICAL_START \div (COUNT * COUNT * COUNT)

\* The removals name entries of the root in the low half, and all of them.
Recorded(p) ==
  /\ \A i \in 1..Len(p.removals) :
       p.removals[i].table_slot = 0 /\ LowIndex(p.removals[i].index)
  /\ \A i \in 1..Len(p.entries) :
       p.entries[i].table_slot = 0 /\ LowIndex(p.entries[i].index) =>
         Listed(p, p.entries[i])

\* The levels fall by one from a table to its children, from 4 at the root to 1.
Levelled(T) ==
  /\ T[1].level = 4
  /\ \A s \in 1..(Len(T) - 1) :
       /\ T[s + 1].level \in 1..3
       /\ T[s + 1].parent_index \in TableIndices
       /\ T[T[s + 1].parent_slot + 1].level = T[s + 1].level + 1

\* Table entries have the flags of an intermediate entry.
Linked(E) ==
  \A i \in 1..Len(E) : E[i].kind = "TableSlot" => E[i].flags = INTERMEDIATE

\* Entry e is the one that removal r expects.
Expected(e, r) ==
  /\ e.table_slot = r.table_slot /\ e.index = r.index
  /\ e.kind = "TableSlot" /\ e.value = r.expected_target /\ e.flags = r.expected_flags

\* Every removal expects an entry of the plan.
Matched(E, R) ==
  \A i \in 1..Len(R) :
    R[i].index \in TableIndices /\ \E j \in 1..Len(E) : Expected(E[j], R[i])

Shaped(p) ==
  Levelled(p.tables) /\ Linked(p.entries) /\ Matched(p.entries, p.removals)

\* The tables fit their array.
Fits(p) == Len(p.tables) <= TABLES

-----------------------------------------------------------------------------
(* Arithmetic and first positions.                                           *)

\* Quotient and remainder by COUNT.
LEMMA Division ==
  ASSUME NEW C \in Nat \ {0}, NEW n \in Nat
  PROVE  n \div C \in Nat /\ n % C \in Nat /\ n = C * (n \div C) + (n % C)
  BY Z3

\* The number of entries of a table is positive.
LEMMA CountType == COUNT \in Nat \ {0}
  BY PagePlanAssumption, Zenon

\* A set of positions that is not empty has a first one.
LEMMA FirstExists ==
  ASSUME NEW S \in SUBSET Nat, S # {}
  PROVE  FirstOf(S) # {}
<1>1. PICK x \in S : \A y \in S : ~(<<y, x>> \in OpToRel(<, Nat))
  BY WFMin, NatLessThanWellFounded, Zenon
<1>2. \A y \in S : ~(y < x)
  BY <1>1, Zenon DEF OpToRel
<1>3. \A y \in S : x <= y
  BY <1>2
<1> QED
  BY <1>3, Zenon DEF FirstOf

-----------------------------------------------------------------------------
(* Entries and tables.                                                       *)

\* find_entry returns an entry at the index asked for, and finds one if there
\* is one; as an index is used once, it finds every such entry.
LEMMA Finds ==
  ASSUME NEW p \in Plans, NEW slot, NEW index
  PROVE  /\ \A e \in find_entry(p, slot, index) :
              \E i \in Hits(p, slot, index) : e = p.entries[i]
         /\ find_entry(p, slot, index) = {} => Hits(p, slot, index) = {}
         /\ Structure(p) =>
              \A i \in Hits(p, slot, index) : find_entry(p, slot, index) = {p.entries[i]}
<1> DEFINE hits == Hits(p, slot, index)
<1>1. find_entry(p, slot, index) = {p.entries[i] : i \in FirstOf(hits)}
  BY Zenon DEF find_entry, Hits
<1>2. FirstOf(hits) \subseteq hits /\ hits \in SUBSET Nat
  BY DEF FirstOf, Hits, Plans
<1>3. find_entry(p, slot, index) = {} => hits = {}
  <2> HIDE DEF hits
  <2> QED
    BY <1>1, <1>2, FirstExists, Zenon
<1>4. ASSUME Structure(p), NEW i \in hits
      PROVE  find_entry(p, slot, index) = {p.entries[i]}
  <2>1. \A j \in hits : j = i
    BY <1>4, Zenon DEF Structure, Distinct, Hits
  <2>2. FirstOf(hits) # {}
    <3> HIDE DEF hits
    <3> QED
      BY <1>2, <1>4, FirstExists, Zenon
  <2>3. FirstOf(hits) = {i}
    <3> HIDE DEF hits
    <3> QED
      BY <1>2, <2>1, <2>2, Zenon
  <2> QED
    BY <1>1, <2>3, Zenon
<1> QED
  BY <1>1, <1>2, <1>3, <1>4, Zenon

\* The elements of a sequence that has grown by one.
LEMMA Grown ==
  ASSUME NEW S, NEW Q \in Seq(S), NEW x \in S, NEW R, R = Append(Q, x)
  PROVE  /\ R \in Seq(S) /\ Len(Q) \in Nat /\ Len(R) = Len(Q) + 1
         /\ R[Len(Q) + 1] = x
         /\ \A i \in 1..Len(Q) : R[i] = Q[i]
  OBVIOUS

\* A quotient is below a bound when the number is below its multiple.
LEMMA QuotientBelow ==
  ASSUME NEW C \in Nat \ {0}, NEW n \in Nat, NEW a \in Nat
  PROVE  n < C * a <=> n \div C < a
<1>1. PICK q \in Nat, m \in Nat : q = n \div C /\ m = n % C
  BY Division, Zenon
<1>2. n = C * q + m /\ 0 <= m /\ m < C
  BY <1>1, Division, Z3
<1>3. CASE q < a
  <2>1. PICK d \in Nat : a = q + 1 + d
    <3>1. a - q - 1 \in Nat /\ a = q + 1 + (a - q - 1)
      BY <1>3
    <3> QED
      BY <3>1, Zenon
  <2>2. C * a = C * q + C + C * d
    BY <2>1
  <2>3. C * d \in Nat /\ C * q \in Nat
    OBVIOUS
  <2> QED
    BY <1>1, <1>2, <1>3, <2>2, <2>3
<1>4. CASE ~(q < a)
  <2>1. PICK d \in Nat : q = a + d
    <3>1. q - a \in Nat /\ q = a + (q - a)
      BY <1>4
    <3> QED
      BY <3>1, Zenon
  <2>2. C * q = C * a + C * d
    BY <2>1
  <2>3. C * d \in Nat /\ C * a \in Nat
    OBVIOUS
  <2> QED
    BY <1>1, <1>2, <1>4, <2>2, <2>3
<1> QED
  BY <1>3, <1>4, Zenon

\* A page lies in the low half when its root index does: the boundary is that
\* of a root entry.
LEMMA LowPage ==
  ASSUME NEW page \in Nat
  PROVE  page < HIGH_CANONICAL_START <=> LowIndex(virtual_address_indices(page)[1])
<1>1. PICK C \in Nat \ {0} : C = COUNT
  BY CountType, Zenon
<1>2. PICK H \in Nat : H = HIGH_CANONICAL_START
  BY PagePlanAssumption DEF VirtualPages
<1>3. PICK D \in Nat \ {0} : D = C * C * C
  <2>1. C * C \in Nat \ {0}
    BY Z3
  <2>2. PICK E \in Nat \ {0} : E = C * C
    BY <2>1, Zenon
  <2>3. E * C \in Nat \ {0}
    BY Z3
  <2> QED
    BY <2>2, <2>3, Zenon
<1>4. PICK k \in Nat : k = H \div D
  BY <1>3, Division, Zenon
<1>5. H = D * k
  <2>1. H % D = 0
    BY <1>1, <1>2, <1>3, PagePlanAssumption, Zenon
  <2> QED
    BY <1>4, <2>1, Division
<1>6. PICK k1 \in Nat, k2 \in Nat : k1 = C * k /\ k2 = C * k1
  OBVIOUS
<1>7. H = C * k2
  <2>1. (C * C * C) * k = C * (C * (C * k))
    BY Z3
  <2> QED
    BY <1>3, <1>5, <1>6, <2>1, Zenon
<1>8. PICK p1 \in Nat, p2 \in Nat, p3 \in Nat :
        p1 = page \div C /\ p2 = p1 \div C /\ p3 = p2 \div C
  BY Division, Zenon
<1>9. page < C * k2 <=> p1 < k2
  BY <1>8, QuotientBelow, Zenon
<1>10. p1 < C * k1 <=> p2 < k1
  BY <1>8, QuotientBelow, Zenon
<1>11. p2 < C * k <=> p3 < k
  BY <1>8, QuotientBelow, Zenon
<1>12. virtual_address_indices(page)[1] = p3
  BY <1>1, <1>8, Zenon DEF virtual_address_indices
<1>13. LowIndex(p3) <=> p3 < k
  BY <1>1, <1>2, <1>3, <1>4, Zenon DEF LowIndex
<1> QED
  BY <1>2, <1>6, <1>7, <1>9, <1>10, <1>11, <1>12, <1>13, Zenon

\* The indices of a virtual page are indices of a table.
LEMMA IndexRange ==
  ASSUME NEW page \in VirtualPages
  PROVE  page \in Nat /\ \A i \in 1..4 : virtual_address_indices(page)[i] \in TableIndices
<1>1. PICK C \in Nat \ {0} : C = COUNT
  BY CountType, Zenon
<1>2. C * C \in Nat /\ C * C * C \in Nat /\ C * C * C * C \in Nat
  BY Z3
<1>3. page \in Nat /\ page < C * C * C * C
  BY <1>1, <1>2 DEF VirtualPages, VirtualEnd
<1>4. PICK a \in Nat, b \in Nat, c \in Nat :
        a = page \div C /\ b = a \div C /\ c = b \div C
  BY <1>3, Division, Zenon
<1>5. c < C
  <2>1. C * C * C * C = C * (C * C * C) /\ C * C * C = C * (C * C)
    BY Z3
  <2>2. a < C * C * C
    BY <1>2, <1>3, <1>4, <2>1, QuotientBelow, Zenon
  <2>3. b < C * C
    BY <1>2, <1>4, <2>1, <2>2, QuotientBelow, Zenon
  <2> QED
    BY <1>4, <2>3, QuotientBelow, Zenon
<1>6. \A n \in Nat : n % C \in 0..(C - 1)
  BY Z3
<1>7. c \in 0..(C - 1)
  BY <1>5
<1>8. virtual_address_indices(page) = <<c, b % C, a % C, page % C>>
  BY <1>1, <1>4, Zenon DEF virtual_address_indices
<1>9. PICK I : I = 0..(C - 1)
  BY Zenon
<1>10. c \in I /\ b % C \in I /\ a % C \in I /\ page % C \in I
  BY <1>3, <1>6, <1>7, <1>9, Zenon
<1>11. PICK x, y, z : x = b % C /\ y = a % C /\ z = page % C
  BY Zenon
<1>12. \A i \in 1..4 : <<c, x, y, z>>[i] \in I
  BY <1>10, <1>11
<1> QED
  BY <1>1, <1>3, <1>8, <1>9, <1>11, <1>12, Zenon DEF TableIndices

\* Growing a plan moves no table.
LEMMA BelowStays ==
  ASSUME NEW p \in Plans, NEW r \in Plans, Extends(p, r), NEW up, NEW index, NEW s,
         Below(p, up, index, s)
  PROVE  Below(r, up, index, s)
<1>1. Len(p.tables) \in Nat /\ Len(r.tables) \in Nat
  BY DEF Plans
<1>2. s \in 1..(Len(p.tables) - 1) /\ Len(p.tables) <= Len(r.tables)
  BY <1>1 DEF Below, Slots, Extends
<1>3. s + 1 \in 1..Len(p.tables) /\ s \in Slots(r) \ {0}
  BY <1>1, <1>2 DEF Slots
<1>4. r.tables[s + 1] = p.tables[s + 1]
  BY <1>3, Zenon DEF Extends
<1> QED
  BY <1>3, <1>4, Zenon DEF Below

\* insert_page adds the leaf of the page, on the page's own path, and keeps the
\* removals complete, the tables in shape and within their capacity.
LEMMA InsertPage ==
  \A p \in Plans, page \in Nat, frame \in Nat : \A permissions, cache, r :
    Structure(p) /\ r = insert_page(p, page, frame, permissions, cache)
      /\ r.error = "none" =>
        /\ PageAdded(p, page, frame, for_leaf(permissions, cache), r) /\ frame # 0
        /\ Recorded(p) => Recorded(r)
        /\ Shaped(p) /\ page \in VirtualPages => Shaped(r)
        /\ Fits(p) => Fits(r)
\* The indices are natural numbers.
<1>IndexTypes.
    ASSUME NEW page \in Nat
    PROVE  \A i \in 1..4 : virtual_address_indices(page)[i] \in Nat
  <2> USE <1>IndexTypes
  <2> DEFINE up(n) == n \div COUNT
  <2>1. \A n \in Nat : up(n) \in Nat /\ n % COUNT \in Nat
    BY CountType, Division, Zenon
  <2>2. /\ up(up(up(page))) \in Nat /\ up(up(page)) % COUNT \in Nat
        /\ up(page) % COUNT \in Nat /\ page % COUNT \in Nat
    <3> HIDE DEF up
    <3> QED
      BY <2>1, Zenon
  <2> QED
    BY <2>2 DEF virtual_address_indices
\* Updating one field of a plan leaves the others alone.
<1>SetTables.
    ASSUME NEW p \in Plans, NEW t \in Seq(TableRecords), NEW q, q = [p EXCEPT !.tables = t]
    PROVE  /\ q \in Plans /\ q.tables = t /\ q.entries = p.entries
           /\ q.removals = p.removals /\ q.slot = p.slot /\ q.error = p.error
  BY <1>SetTables, Zenon DEF Plans
\* The same for the entries.
<1>SetEntries.
    ASSUME NEW p \in Plans, NEW t \in Seq(Entries), NEW q, q = [p EXCEPT !.entries = t]
    PROVE  /\ q \in Plans /\ q.entries = t /\ q.tables = p.tables
           /\ q.removals = p.removals /\ q.slot = p.slot /\ q.error = p.error
  BY <1>SetEntries, Zenon DEF Plans
\* The same for the removals.
<1>SetRemovals.
    ASSUME NEW p \in Plans, NEW t \in Seq(Removals), NEW q, q = [p EXCEPT !.removals = t]
    PROVE  /\ q \in Plans /\ q.removals = t /\ q.tables = p.tables
           /\ q.entries = p.entries /\ q.slot = p.slot /\ q.error = p.error
  BY <1>SetRemovals, Zenon DEF Plans
\* The same for the slot a walk stands on.
<1>SetSlot.
    ASSUME NEW p \in Plans, NEW t \in Nat, NEW q, q = [p EXCEPT !.slot = t]
    PROVE  /\ q \in Plans /\ q.slot = t /\ q.tables = p.tables
           /\ q.entries = p.entries /\ q.removals = p.removals /\ q.error = p.error
  BY <1>SetSlot, Zenon DEF Plans
\* The same for the error.
<1>SetError.
    ASSUME NEW p \in Plans, NEW t \in Errors, NEW q, q = Failed(p, t)
    PROVE  /\ q \in Plans /\ q.error = t /\ q.tables = p.tables
           /\ q.entries = p.entries /\ q.removals = p.removals /\ q.slot = p.slot
  BY <1>SetError, Zenon DEF Plans, Failed
\* push_entry appends the entry or fails.
<1>PushEntry.
    ASSUME NEW p \in Plans, NEW entry \in Entries, NEW q, q = push_entry(p, entry)
    PROVE  /\ q \in Plans /\ q.tables = p.tables /\ q.removals = p.removals
           /\ q.slot = p.slot
           /\ p.error = "none" /\ q.error = "none" => q.entries = Append(p.entries, entry)
           /\ p.error # "none" => q.error # "none"
  <2> USE <1>PushEntry
  <2>1. CASE Len(p.entries) = ENTRIES
    <3>1. q = Failed(p, "EntryCapacityExhausted")
      BY <2>1, Zenon DEF push_entry
    <3>2. "EntryCapacityExhausted" \in Errors
      BY Zenon DEF Errors
    <3>3. /\ q \in Plans /\ q.error = "EntryCapacityExhausted" /\ q.tables = p.tables
          /\ q.removals = p.removals /\ q.slot = p.slot
      BY <3>1, <3>2, <1>SetError
    <3>4. q.error # "none"
      BY <3>3, Zenon
    <3> QED
      BY <3>3, <3>4, Zenon
  <2>2. CASE Len(p.entries) # ENTRIES
    <3>1. PICK t : t = Append(p.entries, entry)
      BY Zenon
    <3>2. q = [p EXCEPT !.entries = t]
      BY <2>2, <3>1, Zenon DEF push_entry
    <3>3. t \in Seq(Entries)
      BY <3>1 DEF Plans
    <3>4. /\ q \in Plans /\ q.error = p.error /\ q.tables = p.tables
          /\ q.removals = p.removals /\ q.slot = p.slot /\ q.entries = t
      BY <3>2, <3>3, <1>SetEntries
    <3> QED
      BY <3>1, <3>4, Zenon
  <2> QED
    BY <2>1, <2>2, Zenon
\* push_removal appends the removal of the entry or fails, changes neither
\* tables nor entries, and hides no failure.
<1>PushRemoval.
    ASSUME NEW p \in Plans, NEW entry \in Entries, NEW q, q = push_removal(p, entry)
    PROVE  /\ q \in Plans /\ q.tables = p.tables /\ q.entries = p.entries
           /\ q.error = "none" => p.error = "none"
           /\ q.error = "none" =>
                q.removals = Append(p.removals,
                  [table_slot |-> entry.table_slot, index |-> entry.index,
                   expected_target |-> entry.value, expected_flags |-> entry.flags])
  <2> USE <1>PushRemoval
  <2>1. CASE p.error # "none"
    BY <2>1, Zenon DEF push_removal
  <2>2. CASE p.error = "none" /\ Len(p.removals) = REMOVALS
    <3>1. q = Failed(p, "RemovalCapacityExhausted")
      BY <2>2, Zenon DEF push_removal
    <3>2. "RemovalCapacityExhausted" \in Errors
      BY Zenon DEF Errors
    <3> QED
      <4>1. q.error # "none" /\ q \in Plans /\ q.tables = p.tables /\ q.entries = p.entries
        BY <2>2, <3>1, <3>2, <1>SetError
      <4> QED
        BY <2>2, <4>1, Zenon
  <2>3. CASE p.error = "none" /\ Len(p.removals) # REMOVALS
    <3> DEFINE removal ==
                 [table_slot |-> entry.table_slot, index |-> entry.index,
                  expected_target |-> entry.value, expected_flags |-> entry.flags]
    <3>1. PICK t : t = Append(p.removals, removal)
      BY ZenonT(60)
    <3>2. q = [p EXCEPT !.removals = t]
      BY <2>3, <3>1, Zenon DEF push_removal
    <3>3. removal \in Removals
      BY Zenon DEF Removals, Entries
    <3>4. t \in Seq(Removals)
      <4> HIDE DEF removal
      <4> QED
        BY <3>1, <3>3 DEF Plans
    <3> QED
      <4>1. /\ q \in Plans /\ q.removals = t /\ q.tables = p.tables
            /\ q.entries = p.entries /\ q.error = p.error
        BY <3>2, <3>4, <1>SetRemovals
      <4> QED
        BY <2>3, <3>1, <4>1, Zenon
  <2> QED
    BY <2>1, <2>2, <2>3, Zenon
\* Once a step has failed nothing more is done (the ? operator of the code).
<1>ErrorsStay.
    ASSUME NEW p, NEW level, NEW index, NEW page, p.error # "none"
    PROVE  ensure_child(p, level, index, page) = p
  BY <1>ErrorsStay, Zenon DEF ensure_child
\* What ensure_child appends: a table and the entry that points at it.
<1>NewChild.
    ASSUME NEW p \in Plans, p.error = "none",
           NEW level \in Nat \ {0}, NEW index \in Nat, NEW page \in Nat,
           find_entry(p, p.slot, index) = {},
           NEW r, r = ensure_child(p, level, index, page), r.error = "none"
    PROVE  ChildAdded(p, level, index, page, r)
  <2> USE <1>NewChild
  <2>1. existing_child(p, index) = {}
    BY Zenon DEF existing_child
  <2>2. PICK entry : entry = [table_slot |-> p.slot, index |-> index, kind |-> "TableSlot",
                              value |-> Len(p.tables), flags |-> INTERMEDIATE]
    BY Zenon
  <2>3. PICK added : added = [level |-> level - 1, parent_slot |-> p.slot,
                              parent_index |-> index]
    BY Zenon
  <2>3a. PICK removal :
           removal = [table_slot |-> entry.table_slot, index |-> entry.index,
                      expected_target |-> entry.value, expected_flags |-> entry.flags]
    BY Zenon
  <2>4. p.slot \in Nat /\ Len(p.tables) \in Nat /\ p.tables \in Seq(TableRecords)
    BY DEF Plans
  <2>5. entry \in Entries
    BY <2>2, <2>4, Zenon DEF Entries, INTERMEDIATE, Flags
  <2>6. added \in TableRecords
    BY <2>3, <2>4 DEF TableRecords
  <2>7. Len(p.tables) # TABLES
    <3>1. SUFFICES ASSUME Len(p.tables) = TABLES PROVE FALSE
      BY Zenon
    <3>2. r = Failed(p, "TableCapacityExhausted")
      BY <2>1, <3>1, Zenon DEF ensure_child
    <3>3. "TableCapacityExhausted" \in Errors
      BY Zenon DEF Errors
    <3>4. r.error = "TableCapacityExhausted"
      BY <3>2, <3>3, <1>SetError, Zenon
    <3> QED
      BY <3>4, Zenon
  <2>8. PICK t : t = Append(p.tables, added)
    BY Zenon
  <2>9. PICK grown : grown = [p EXCEPT !.tables = t]
    BY Zenon
  <2>10. PICK pushed : pushed = push_entry(grown, entry)
    BY Zenon
  <2>11. PICK removed : removed = IF removed_later(level, page)
                                  THEN push_removal(pushed, entry) ELSE pushed
    BY Zenon
  <2>12. r = [removed EXCEPT !.slot = Len(p.tables)]
    <3>1. r = new_child(p, level, index, page)
      BY <2>1, <2>7, Zenon DEF ensure_child
    <3> QED
      BY <3>1, <2>2, <2>3, <2>8, <2>9, <2>10, <2>11, Zenon DEF new_child
  <2>13. t \in Seq(TableRecords)
    BY <2>4, <2>6, <2>8
  <2>14. /\ grown \in Plans /\ grown.tables = t /\ grown.entries = p.entries
         /\ grown.removals = p.removals /\ grown.error = "none"
    BY <2>9, <2>13, <1>SetTables
  <2>15. /\ pushed \in Plans /\ pushed.tables = t /\ pushed.removals = p.removals
         /\ pushed.error = "none" => pushed.entries = Append(p.entries, entry)
    BY <2>5, <2>10, <2>14, <1>PushEntry, SMTT(90)
  <2>16. /\ removed \in Plans /\ removed.tables = t /\ removed.entries = pushed.entries
         /\ removed.error = "none" => pushed.error = "none"
    BY <2>5, <2>11, <2>15, <1>PushRemoval, ZenonT(30)
  <2>16a. removed.error = "none" =>
            removed.removals = IF removed_later(level, page) THEN Append(p.removals, removal)
                               ELSE p.removals
    <3>1. CASE removed_later(level, page)
      <4>1. removed = push_removal(pushed, entry)
        BY <2>11, <3>1, Zenon
      <4>2. removed.error = "none" => removed.removals = Append(pushed.removals, removal)
        BY <2>3a, <2>5, <2>15, <4>1, <1>PushRemoval, Zenon
      <4> QED
        BY <2>15, <3>1, <4>2, Zenon
    <3>2. CASE ~removed_later(level, page)
      BY <2>11, <2>15, <3>2, Zenon
    <3> QED
      BY <3>1, <3>2, Zenon
  <2>17. /\ r \in Plans /\ r.slot = Len(p.tables) /\ r.tables = t
         /\ r.entries = removed.entries /\ r.removals = removed.removals
         /\ r.error = removed.error
    BY <2>4, <2>12, <2>16, <1>SetSlot
  <2>18. /\ added.level = level - 1
         /\ added.parent_slot = p.slot /\ added.parent_index = index
         /\ entry.table_slot = p.slot /\ entry.index = index
         /\ entry.kind = "TableSlot" /\ entry.value = Len(p.tables)
         /\ entry.flags = INTERMEDIATE
    BY <2>2, <2>3, Zenon
  <2>19. /\ r \in Plans /\ r.slot = Len(p.tables)
         /\ r.tables = Append(p.tables, added) /\ r.entries = Append(p.entries, entry)
    BY <2>8, <2>15, <2>16, <2>17, Zenon
  <2>20. /\ removal \in Removals /\ removal.table_slot = p.slot /\ removal.index = index
         /\ removal.expected_target = Len(p.tables) /\ removal.expected_flags = INTERMEDIATE
    BY <2>3a, <2>5, <2>18, Zenon DEF Removals, Entries
  <2>21. r.removals = IF removed_later(level, page) THEN Append(p.removals, removal)
                      ELSE p.removals
    BY <2>16a, <2>17, Zenon
  <2> QED
    BY <2>5, <2>6, <2>7, <2>18, <2>19, <2>20, <2>21, Zenon DEF ChildAdded
\* A new entry at a free index keeps the positions of the entries distinct.
<1>GrowDistinct.
    ASSUME NEW E \in Seq(Entries), NEW entry \in Entries, NEW F, F = Append(E, entry),
           Distinct(E),
           \A i \in 1..Len(E) : ~(E[i].table_slot = entry.table_slot /\ E[i].index = entry.index)
    PROVE  Distinct(F)
  <2> USE <1>GrowDistinct
  <2>1. PICK n \in Nat : n = Len(E)
    OBVIOUS
  <2>2. Len(F) = n + 1 /\ F[n + 1] = entry /\ \A i \in 1..n : F[i] = E[i]
    BY <2>1, Grown
  <2>3. SUFFICES ASSUME NEW i \in 1..(n + 1), NEW j \in 1..(n + 1),
                        F[i].table_slot = F[j].table_slot, F[i].index = F[j].index
                 PROVE  i = j
    BY <2>2, Zenon DEF Distinct
  <2>4. CASE i \in 1..n /\ j \in 1..n
    BY <2>1, <2>2, <2>3, <2>4, Zenon DEF Distinct
  <2>5. CASE i = n + 1 /\ j \in 1..n
    BY <2>1, <2>2, <2>3, <2>5, Zenon
  <2>6. CASE i \in 1..n /\ j = n + 1
    BY <2>1, <2>2, <2>3, <2>6, Zenon
  <2> QED
    BY <2>4, <2>5, <2>6
\* A new leaf keeps the tree.
<1>GrowLeaf.
    ASSUME NEW T \in Seq(TableRecords), NEW E \in Seq(Entries), NEW entry \in Entries,
           NEW F, F = Append(E, entry),
           Parents(T, E), Children(T, E),
           entry.table_slot \in 0..(Len(T) - 1), entry.kind # "TableSlot"
    PROVE  Parents(T, F) /\ Children(T, F)
  <2> USE <1>GrowLeaf
  <2>1. PICK n \in Nat : n = Len(E)
    OBVIOUS
  <2>2. Len(F) = n + 1 /\ F[n + 1] = entry /\ \A i \in 1..n : F[i] = E[i]
    BY <2>1, Grown
  <2>3. Parents(T, F)
    <3>1. SUFFICES ASSUME NEW s \in 1..(Len(T) - 1)
                   PROVE  \E i \in 1..Len(F) : Edge(T, F[i], s)
      BY Zenon DEF Parents
    <3>2. PICK i \in 1..n : Edge(T, E[i], s)
      BY <2>1, Zenon DEF Parents
    <3> QED
      BY <2>2, <3>2
  <2>4. Children(T, F)
    BY <2>1, <2>2 DEF Children
  <2> QED
    BY <2>3, <2>4, Zenon
\* A new table together with its entry keeps the tree.
<1>GrowTable.
    ASSUME NEW T \in Seq(TableRecords), NEW E \in Seq(Entries), NEW entry \in Entries,
           NEW added \in TableRecords,
           NEW F, F = Append(E, entry), NEW U, U = Append(T, added),
           Len(T) > 0, Parents(T, E), Children(T, E),
           entry.table_slot \in 0..(Len(T) - 1), entry.kind = "TableSlot",
           entry.value = Len(T),
           added.parent_slot = entry.table_slot, added.parent_index = entry.index
    PROVE  Parents(U, F) /\ Children(U, F)
  <2> USE <1>GrowTable
  <2>1. PICK n \in Nat, t \in Nat : n = Len(E) /\ t = Len(T)
    OBVIOUS
  <2>2. Len(F) = n + 1 /\ F[n + 1] = entry /\ \A i \in 1..n : F[i] = E[i]
    BY <2>1, Grown
  <2>3. Len(U) = t + 1 /\ U[t + 1] = added /\ \A i \in 1..t : U[i] = T[i]
    BY <2>1, Grown
  <2>4. Edge(U, F[n + 1], t)
    BY <2>1, <2>2, <2>3, Zenon DEF Edge
  <2>5. ASSUME NEW i \in 1..n, NEW s \in 1..(t - 1), Edge(T, E[i], s)
        PROVE  Edge(U, F[i], s)
    <3>1. U[s + 1] = T[s + 1] /\ F[i] = E[i]
      BY <2>2, <2>3, SMTT(30)
    <3> QED
      BY <2>5, <3>1, Zenon DEF Edge
  <2>6. ASSUME NEW s \in 1..t
        PROVE  /\ U[s + 1].parent_slot \in 0..t
               /\ \E i \in 1..(n + 1) : Edge(U, F[i], s)
    <3>1. CASE s = t
      <4>1. U[s + 1].parent_slot \in 0..t
        BY <2>1, <2>3, <3>1
      <4>2. n + 1 \in 1..(n + 1)
        OBVIOUS
      <4> QED
        BY <2>4, <3>1, <4>1, <4>2, Zenon
    <3>2. CASE s \in 1..(t - 1)
      <4>1. T[s + 1].parent_slot \in 0..(t - 1)
        BY <2>1, <3>2, Zenon DEF Parents
      <4>2. PICK i \in 1..n : Edge(T, E[i], s)
        BY <2>1, <3>2, Zenon DEF Parents
      <4>3. U[s + 1] = T[s + 1]
        BY <2>3, <3>2
      <4>4. Edge(U, F[i], s)
        BY <2>5, <3>2, <4>2, Zenon
      <4>5. i \in 1..(n + 1) /\ U[s + 1].parent_slot \in 0..t
        BY <4>1, <4>3
      <4> QED
        BY <4>4, <4>5, Zenon
    <3>3. s = t \/ s \in 1..(t - 1)
      OBVIOUS
    <3> QED
      BY <3>1, <3>2, <3>3, Zenon
  <2>7. ASSUME NEW i \in 1..(n + 1)
        PROVE  /\ F[i].table_slot \in 0..t
               /\ F[i].kind = "TableSlot" =>
                    F[i].value \in 1..t /\ Edge(U, F[i], F[i].value)
    <3>1. CASE i = n + 1
      BY <2>1, <2>2, <2>4, <3>1
    <3>2. CASE i \in 1..n
      <4>1. F[i] = E[i]
        BY <2>2, <3>2, Zenon
      <4>2. E[i].table_slot \in 0..(t - 1)
        BY <2>1, <3>2, Zenon DEF Children
      <4>3. E[i].kind = "TableSlot" => E[i].value \in 1..(t - 1) /\ Edge(T, E[i], E[i].value)
        BY <2>1, <3>2, Zenon DEF Children
      <4>4. F[i].table_slot \in 0..t
        BY <4>1, <4>2
      <4>5. ASSUME F[i].kind = "TableSlot"
            PROVE  F[i].value \in 1..t /\ Edge(U, F[i], F[i].value)
        <5>1. E[i].value \in 1..(t - 1) /\ Edge(T, E[i], E[i].value)
          BY <4>1, <4>3, <4>5, Zenon
        <5>2. Edge(U, F[i], E[i].value)
          BY <2>5, <3>2, <5>1, ZenonT(60)
        <5> QED
          BY <4>1, <5>1, <5>2
      <4> QED
        BY <4>4, <4>5, Zenon
    <3>3. i = n + 1 \/ i \in 1..n
      OBVIOUS
    <3> QED
      BY <3>1, <3>2, <3>3, Zenon
  <2>8. Len(U) - 1 = t /\ Len(F) = n + 1
    BY <2>2, <2>3
  <2>9. Parents(U, F)
    BY <2>6, <2>8, Zenon DEF Parents
  <2>10. Children(U, F)
    BY <2>7, <2>8, Zenon DEF Children
  <2> QED
    BY <2>9, <2>10, Zenon
\* ensure_child leaves the tree a tree and stands on the child at the index.
<1>EnsureChild.
    ASSUME NEW p \in Plans, Structure(p), p.slot \in Slots(p),
           NEW level \in Nat \ {0}, NEW index \in Nat, NEW page \in Nat,
           NEW r, r = ensure_child(p, level, index, page), r.error = "none"
    PROVE  /\ r \in Plans /\ Structure(r) /\ Extends(p, r)
           /\ Below(r, p.slot, index, r.slot)
           /\ \/ SameTables(p, r)
              \/ ChildAdded(p, level, index, page, r)
  <2> USE <1>EnsureChild
  <2>0. p.error = "none"
    BY <1>ErrorsStay, Zenon
  <2>1. CASE find_entry(p, p.slot, index) # {}
    <3>1. PICK e : e = CHOOSE x \in existing_child(p, index) : TRUE
      BY Zenon
    <3>2. e \in find_entry(p, p.slot, index)
      BY <2>1, <3>1, Zenon DEF existing_child
    <3>3. PICK i \in Hits(p, p.slot, index) : e = p.entries[i]
      BY <3>2, Finds, Zenon
    <3>4. r = IF e.kind = "TableSlot" THEN [p EXCEPT !.slot = e.value]
              ELSE Failed(p, "IncompatibleRemap")
      <4>1. existing_child(p, index) # {}
        BY <2>1, Zenon DEF existing_child
      <4>2. r = follow_child(p, e)
        BY <2>0, <3>1, <4>1, Zenon DEF ensure_child
      <4> QED
        BY <4>2, Zenon DEF follow_child
    <3>5. e.kind = "TableSlot"
      <4>1. SUFFICES ASSUME r = Failed(p, "IncompatibleRemap") PROVE FALSE
        BY <3>4, Zenon
      <4>2. "IncompatibleRemap" \in Errors
        BY Zenon DEF Errors
      <4>3. r.error = "IncompatibleRemap"
        BY <4>1, <4>2, <1>SetError, Zenon
      <4> QED
        BY <4>3, Zenon
    <3>6. /\ e.value \in Slots(p) \ {0}
          /\ p.tables[e.value + 1].parent_slot = p.slot
          /\ p.tables[e.value + 1].parent_index = index
      <4>1. i \in 1..Len(p.entries) /\ e.table_slot = p.slot /\ e.index = index
        BY <3>3, Zenon DEF Hits
      <4>2. e.value \in 1..(Len(p.tables) - 1) /\ Edge(p.tables, e, e.value)
        BY <3>3, <3>5, <4>1, Zenon DEF Structure, Children
      <4> QED
        BY <4>1, <4>2 DEF Edge, Slots
    <3>7. /\ r \in Plans /\ r.tables = p.tables /\ r.entries = p.entries
          /\ r.removals = p.removals /\ r.slot = e.value
      <4>1. e.value \in Nat
        BY <3>6 DEF Slots
      <4>2. r = [p EXCEPT !.slot = e.value]
        BY <3>4, <3>5, Zenon
      <4> QED
        BY <4>1, <4>2, <1>SetSlot
    <3>8. Structure(r) /\ Slots(r) = Slots(p)
      BY <3>7, Zenon DEF Structure, Slots
    <3>9. Extends(p, r)
      BY <3>7 DEF Extends, Plans
    <3>10. SameTables(p, r)
      BY <3>7, Zenon DEF SameTables
    <3> QED
      BY <3>6, <3>7, <3>8, <3>9, <3>10, Zenon DEF Below
  <2>2. CASE find_entry(p, p.slot, index) = {}
    <3>0. ChildAdded(p, level, index, page, r)
      BY <2>0, <2>2, <1>NewChild, Zenon
    <3>1. PICK added \in TableRecords, entry \in Entries :
            /\ added.parent_slot = p.slot /\ added.parent_index = index
            /\ entry.table_slot = p.slot /\ entry.index = index
            /\ entry.kind = "TableSlot" /\ entry.value = Len(p.tables)
            /\ r \in Plans /\ r.slot = Len(p.tables)
            /\ r.tables = Append(p.tables, added)
            /\ r.entries = Append(p.entries, entry)
      BY <3>0, Zenon DEF ChildAdded
    <3>2. PICK T, E : T = p.tables /\ E = p.entries
      BY Zenon
    <3>3. /\ T \in Seq(TableRecords) /\ E \in Seq(Entries) /\ Len(T) \in Nat
          /\ p.slot \in 0..(Len(T) - 1)
      BY <3>2 DEF Plans, Slots
    <3>4. \A i \in 1..Len(E) : ~(E[i].table_slot = p.slot /\ E[i].index = index)
      <4>1. Hits(p, p.slot, index) = {}
        BY <2>2, Finds, Zenon
      <4> QED
        BY <3>2, <4>1, Zenon DEF Hits
    <3>5. Len(T) > 0 /\ Parents(T, E) /\ Children(T, E) /\ Distinct(E)
      BY <3>2, Zenon DEF Structure
    <3>6. PICK U, F : U = Append(T, added) /\ F = Append(E, entry)
      BY Zenon
    <3>7. r.tables = U /\ r.entries = F
      BY <3>1, <3>2, <3>6, Zenon
    <3>8. Parents(U, F) /\ Children(U, F)
      BY <3>1, <3>2, <3>3, <3>5, <3>6, <1>GrowTable, ZenonT(60)
    <3>9. Distinct(F)
      <4>1. \A i \in 1..Len(E) :
              ~(E[i].table_slot = entry.table_slot /\ E[i].index = entry.index)
        BY <3>1, <3>4, Zenon
      <4> QED
        BY <3>1, <3>3, <3>5, <3>6, <4>1, <1>GrowDistinct, Zenon
    <3>10. /\ Len(U) = Len(T) + 1 /\ U[Len(T) + 1] = added
           /\ \A i \in 1..Len(T) : U[i] = T[i]
      BY <3>3, <3>6, Grown
    <3>11. /\ Len(F) = Len(E) + 1 /\ F[Len(E) + 1] = entry
           /\ \A i \in 1..Len(E) : F[i] = E[i]
      BY <3>3, <3>6, Grown
    <3>12. Structure(r)
      BY <3>3, <3>7, <3>8, <3>9, <3>10 DEF Structure
    <3>13. Extends(p, r)
      <4>1. Len(E) \in Nat
        BY <3>3
      <4>2. \A i \in (Len(E) + 1)..(Len(E) + 1) : F[i].kind = "TableSlot"
        BY <3>1, <3>11, <4>1, SMTT(30)
      <4> QED
        BY <3>2, <3>3, <3>7, <3>10, <3>11, <4>1, <4>2, SMTT(30) DEF Extends
    <3>14. /\ r.slot \in Slots(r) \ {0}
           /\ r.tables[r.slot + 1] = added
      BY <3>1, <3>2, <3>3, <3>5, <3>7, <3>10 DEF Slots
    <3> QED
      BY <3>0, <3>1, <3>12, <3>13, <3>14, Zenon DEF Below
  <2> QED
    BY <2>1, <2>2, Zenon
\* An entry at no low place of the root needs no removal.
<1>EntryRecorded.
    ASSUME NEW p \in Plans, Recorded(p), NEW entry \in Entries, NEW r \in Plans,
           r.entries = Append(p.entries, entry), r.removals = p.removals,
           ~(entry.table_slot = 0 /\ LowIndex(entry.index))
    PROVE  Recorded(r)
  <2> USE <1>EntryRecorded
  <2>1. PICK n \in Nat : n = Len(p.entries)
    BY DEF Plans
  <2>2. Len(r.entries) = n + 1 /\ r.entries[n + 1] = entry
        /\ \A i \in 1..n : r.entries[i] = p.entries[i]
    <3>1. p.entries \in Seq(Entries)
      BY Zenon DEF Plans
    <3> QED
      BY <2>1, <3>1, Grown
  <2>3. ASSUME NEW i \in 1..Len(r.entries), r.entries[i].table_slot = 0,
               LowIndex(r.entries[i].index)
        PROVE  Listed(r, r.entries[i])
    <3>1. i \in 1..n
      <4>1. i # n + 1
        BY <2>2, <2>3, Zenon
      <4> QED
        BY <2>1, <2>2, <4>1
    <3>2. r.entries[i] = p.entries[i]
      BY <2>2, <3>1, Zenon
    <3>3. Listed(p, p.entries[i])
      BY <2>1, <2>3, <3>1, <3>2, Zenon DEF Recorded
    <3> QED
      BY <3>2, <3>3, Zenon DEF Listed
  <2>4. \A i \in 1..Len(r.removals) :
          r.removals[i].table_slot = 0 /\ LowIndex(r.removals[i].index)
    BY Zenon DEF Recorded
  <2> QED
    BY <2>3, <2>4, Zenon DEF Recorded
\* An entry with its removal at a low place of the root.
<1>RemovalRecorded.
    ASSUME NEW p \in Plans, Recorded(p), NEW entry \in Entries, NEW removal \in Removals,
           NEW r \in Plans,
           r.entries = Append(p.entries, entry), r.removals = Append(p.removals, removal),
           entry.table_slot = 0, removal.table_slot = 0, removal.index = entry.index,
           LowIndex(entry.index)
    PROVE  Recorded(r)
  <2> USE <1>RemovalRecorded
  <2>1. PICK n \in Nat, m \in Nat : n = Len(p.entries) /\ m = Len(p.removals)
    BY DEF Plans
  <2>2. Len(r.entries) = n + 1 /\ r.entries[n + 1] = entry
        /\ \A i \in 1..n : r.entries[i] = p.entries[i]
    <3>1. p.entries \in Seq(Entries)
      BY Zenon DEF Plans
    <3> QED
      BY <2>1, <3>1, Grown
  <2>3. Len(r.removals) = m + 1 /\ r.removals[m + 1] = removal
        /\ \A i \in 1..m : r.removals[i] = p.removals[i]
    <3>1. p.removals \in Seq(Removals)
      BY Zenon DEF Plans
    <3> QED
      BY <2>1, <3>1, Grown
  <2>4. ASSUME NEW i \in 1..Len(r.removals)
        PROVE  r.removals[i].table_slot = 0 /\ LowIndex(r.removals[i].index)
    <3>1. CASE i = m + 1
      BY <2>3, <3>1, Zenon
    <3>2. CASE i \in 1..m
      BY <2>1, <2>3, <3>2, Zenon DEF Recorded
    <3> QED
      BY <2>3, <3>1, <3>2
  <2>5. ASSUME NEW i \in 1..Len(r.entries), r.entries[i].table_slot = 0,
               LowIndex(r.entries[i].index)
        PROVE  Listed(r, r.entries[i])
    <3>1. CASE i = n + 1
      <4>1. m + 1 \in 1..Len(r.removals)
        BY <2>3
      <4> QED
        BY <2>2, <2>3, <3>1, <4>1, Zenon DEF Listed
    <3>2. CASE i \in 1..n
      <4>1. r.entries[i] = p.entries[i]
        BY <2>2, <3>2, Zenon
      <4>2. Listed(p, p.entries[i])
        BY <2>1, <2>5, <3>2, <4>1, Zenon DEF Recorded
      <4>3. PICK j \in 1..m : p.removals[j].table_slot = p.entries[i].table_slot
                              /\ p.removals[j].index = p.entries[i].index
        BY <2>1, <4>2, Zenon DEF Listed
      <4>4. j \in 1..Len(r.removals) /\ r.removals[j] = p.removals[j]
        BY <2>3
      <4> QED
        BY <4>1, <4>3, <4>4, Zenon DEF Listed
    <3> QED
      BY <2>2, <3>1, <3>2
  <2> QED
    BY <2>4, <2>5, Zenon DEF Recorded
\* Recorded is about the entries and the removals only.
<1>SameRecorded.
    ASSUME NEW p, Recorded(p), NEW r, r.entries = p.entries, r.removals = p.removals
    PROVE  Recorded(r)
  <2> USE <1>SameRecorded
  <2>1. PICK E, R : E = p.entries /\ R = p.removals
    BY Zenon
  <2>2. r.entries = E /\ r.removals = R
    BY <2>1, Zenon
  <2>3. \A i \in 1..Len(R) : R[i].table_slot = 0 /\ LowIndex(R[i].index)
    BY <2>1, Zenon DEF Recorded
  <2>4. \A e : Listed(p, e) <=> Listed(r, e)
    BY <2>1, <2>2, Zenon DEF Listed
  <2>5. \A i \in 1..Len(E) :
          E[i].table_slot = 0 /\ LowIndex(E[i].index) => Listed(r, E[i])
    BY <2>1, <2>4, Zenon DEF Recorded
  <2> QED
    BY <2>2, <2>3, <2>5, Zenon DEF Recorded
\* ensure_child records a root entry of the low half and no other.
<1>ChildRecorded.
    ASSUME NEW p \in Plans, Recorded(p), NEW level, NEW index, NEW page \in Nat,
           NEW r \in Plans,
           \/ SameTables(p, r)
           \/ ChildAdded(p, level, index, page, r),
           level = 4 <=> p.slot = 0, level = 4 => index = virtual_address_indices(page)[1]
    PROVE  Recorded(r)
  <2> USE <1>ChildRecorded
  <2>1. CASE SameTables(p, r)
    BY <2>1, <1>SameRecorded, Zenon DEF SameTables
  <2>2. CASE ChildAdded(p, level, index, page, r)
    <3>1. PICK entry \in Entries, removal \in Removals :
            /\ entry.table_slot = p.slot /\ entry.index = index
            /\ r.entries = Append(p.entries, entry)
            /\ removal.table_slot = p.slot /\ removal.index = index
            /\ r.removals = IF removed_later(level, page) THEN Append(p.removals, removal)
                            ELSE p.removals
      BY <2>2, Zenon DEF ChildAdded
    <3>2. removed_later(level, page) <=> p.slot = 0 /\ LowIndex(index)
      <4>1. page < HIGH_CANONICAL_START <=> LowIndex(virtual_address_indices(page)[1])
        BY LowPage, Zenon
      <4> QED
        BY <4>1, Zenon DEF removed_later
    <3>3. CASE removed_later(level, page)
      <4>1. r.removals = Append(p.removals, removal)
        BY <3>1, <3>3, Zenon
      <4> QED
        BY <3>1, <3>2, <3>3, <4>1, <1>RemovalRecorded, Zenon
    <3>4. CASE ~removed_later(level, page)
      <4>1. r.removals = p.removals
        BY <3>1, <3>4, Zenon
      <4> QED
        BY <3>1, <3>2, <3>4, <4>1, <1>EntryRecorded, Zenon
    <3> QED
      BY <3>3, <3>4, Zenon
  <2> QED
    BY <2>1, <2>2, Zenon
\* A new table one level below its parent.
<1>GrowLevelled.
    ASSUME NEW T \in Seq(TableRecords), Len(T) > 0, Levelled(T), NEW E, Parents(T, E),
           NEW added \in TableRecords, NEW U, U = Append(T, added),
           added.level \in 1..3, added.parent_index \in TableIndices,
           added.parent_slot \in 0..(Len(T) - 1),
           T[added.parent_slot + 1].level = added.level + 1
    PROVE  Levelled(U)
  <2> USE <1>GrowLevelled
  <2>1. PICK n \in Nat \ {0} : n = Len(T)
    OBVIOUS
  <2>2. Len(U) = n + 1 /\ U[n + 1] = added /\ \A i \in 1..n : U[i] = T[i]
    BY <2>1, Grown
  <2>3. U[1].level = 4
    BY <2>1, <2>2 DEF Levelled
  <2>4. ASSUME NEW s \in 1..(Len(U) - 1)
        PROVE  /\ U[s + 1].level \in 1..3
               /\ U[s + 1].parent_index \in TableIndices
               /\ U[U[s + 1].parent_slot + 1].level = U[s + 1].level + 1
    <3>1. CASE s = n
      <4>1. U[s + 1] = added
        BY <2>2, <3>1, Zenon
      <4>2. U[added.parent_slot + 1] = T[added.parent_slot + 1]
        BY <2>1, <2>2
      <4> QED
        BY <4>1, <4>2, Zenon
    <3>2. CASE s \in 1..(n - 1)
      <4>1. PICK up : up = T[s + 1].parent_slot
        BY Zenon
      <4>2. up \in 0..(n - 1)
        BY <2>1, <3>2, <4>1, Zenon DEF Parents
      <4>3. U[s + 1] = T[s + 1] /\ U[up + 1] = T[up + 1]
        BY <2>2, <3>2, <4>2
      <4>4. /\ T[s + 1].level \in 1..3 /\ T[s + 1].parent_index \in TableIndices
            /\ T[up + 1].level = T[s + 1].level + 1
        BY <2>1, <3>2, <4>1, Zenon DEF Levelled
      <4> QED
        BY <4>1, <4>3, <4>4, Zenon
    <3>3. s = n \/ s \in 1..(n - 1)
      BY <2>2
    <3> QED
      BY <3>1, <3>2, <3>3, Zenon
  <2> QED
    BY <2>3, <2>4, Zenon DEF Levelled
\* A new entry.
<1>GrowLinked.
    ASSUME NEW E \in Seq(Entries), Linked(E), NEW entry \in Entries,
           entry.kind = "TableSlot" => entry.flags = INTERMEDIATE,
           NEW F, F = Append(E, entry)
    PROVE  Linked(F)
  <2> USE <1>GrowLinked
  <2>1. PICK n \in Nat : n = Len(E)
    OBVIOUS
  <2>2. Len(F) = n + 1 /\ F[n + 1] = entry /\ \A i \in 1..n : F[i] = E[i]
    BY <2>1, Grown
  <2>3. \A i \in 1..(n + 1) : i \in 1..n \/ i = n + 1
    OBVIOUS
  <2> QED
    BY <2>1, <2>2, <2>3, Zenon DEF Linked
\* A new entry disturbs no removal.
<1>GrowMatched.
    ASSUME NEW E \in Seq(Entries), NEW R, Matched(E, R),
           NEW entry \in Entries, NEW F, F = Append(E, entry)
    PROVE  Matched(F, R)
  <2> USE <1>GrowMatched
  <2>1. PICK n \in Nat : n = Len(E)
    OBVIOUS
  <2>2. Len(F) = n + 1 /\ F[n + 1] = entry /\ \A i \in 1..n : F[i] = E[i]
    BY <2>1, Grown
  <2>3. \A i \in 1..n : i \in 1..(n + 1)
    OBVIOUS
  <2>4. ASSUME NEW i \in 1..Len(R)
        PROVE  R[i].index \in TableIndices /\ \E j \in 1..(n + 1) : Expected(F[j], R[i])
    <3>1. R[i].index \in TableIndices /\ \E j \in 1..n : Expected(E[j], R[i])
      BY <2>1, Zenon DEF Matched
    <3> QED
      BY <2>2, <2>3, <3>1, Zenon
  <2> QED
    BY <2>2, <2>4, Zenon DEF Matched
\* A new removal expects the last entry.
<1>GrowRemovals.
    ASSUME NEW F \in Seq(Entries), NEW R \in Seq(Removals), Matched(F, R), Len(F) > 0,
           NEW removal \in Removals, NEW Q, Q = Append(R, removal),
           Expected(F[Len(F)], removal), removal.index \in TableIndices
    PROVE  Matched(F, Q)
  <2> USE <1>GrowRemovals
  <2>1. PICK k \in Nat : k = Len(R)
    OBVIOUS
  <2>2. Len(Q) = k + 1 /\ Q[k + 1] = removal /\ \A i \in 1..k : Q[i] = R[i]
    BY <2>1, Grown
  <2>3. \A i \in 1..(k + 1) : i \in 1..k \/ i = k + 1
    OBVIOUS
  <2>4. Len(F) \in 1..Len(F)
    OBVIOUS
  <2>5. ASSUME NEW i \in 1..k
        PROVE  R[i].index \in TableIndices /\ \E j \in 1..Len(F) : Expected(F[j], R[i])
    BY <2>1, Zenon DEF Matched
  <2>6. ASSUME NEW i \in 1..(k + 1)
        PROVE  Q[i].index \in TableIndices /\ \E j \in 1..Len(F) : Expected(F[j], Q[i])
    BY <2>2, <2>3, <2>4, <2>5, Zenon
  <2> QED
    BY <2>2, <2>6, Zenon DEF Matched
\* ensure_child goes down one level and keeps the shape.
<1>ChildShaped.
    ASSUME NEW p \in Plans, Structure(p), Shaped(p), p.slot \in Slots(p),
           NEW level \in 2..4, p.tables[p.slot + 1].level = level,
           NEW index \in TableIndices, NEW page, NEW r \in Plans,
           Below(r, p.slot, index, r.slot), Extends(p, r),
           SameTables(p, r) \/ ChildAdded(p, level, index, page, r)
    PROVE  Shaped(r) /\ r.tables[r.slot + 1].level = level - 1
  <2> USE <1>ChildShaped
  <2>1. PICK T \in Seq(TableRecords), E \in Seq(Entries), R \in Seq(Removals), n \in Nat :
          T = p.tables /\ E = p.entries /\ R = p.removals /\ n = Len(T)
    <3>1. /\ p.tables \in Seq(TableRecords) /\ p.entries \in Seq(Entries)
          /\ p.removals \in Seq(Removals)
      BY Zenon DEF Plans
    <3>2. Len(p.tables) \in Nat
      BY <3>1
    <3> QED
      BY <3>1, <3>2, Zenon
  <2>2. /\ n > 0 /\ Parents(T, E) /\ Levelled(T) /\ Linked(E) /\ Matched(E, R)
        /\ p.slot \in 0..(n - 1) /\ T[p.slot + 1].level = level
    BY <2>1, Zenon DEF Structure, Shaped, Slots
  <2>3. Shaped(r)
    <3>1. CASE SameTables(p, r)
      BY <2>1, <2>2, <3>1, Zenon DEF SameTables, Shaped
    <3>2. CASE ChildAdded(p, level, index, page, r)
      <4>1. PICK added \in TableRecords, entry \in Entries, removal \in Removals :
              /\ added.level = level - 1
              /\ added.parent_slot = p.slot /\ added.parent_index = index
              /\ entry.table_slot = p.slot /\ entry.index = index
              /\ entry.kind = "TableSlot" /\ entry.value = n
              /\ entry.flags = INTERMEDIATE
              /\ r.tables = Append(T, added) /\ r.entries = Append(E, entry)
              /\ removal.table_slot = p.slot /\ removal.index = index
              /\ removal.expected_target = n /\ removal.expected_flags = INTERMEDIATE
              /\ r.removals = IF removed_later(level, page) THEN Append(R, removal) ELSE R
        BY <2>1, <3>2, Zenon DEF ChildAdded
      <4>2. PICK U, F, Q : U = Append(T, added) /\ F = Append(E, entry) /\ Q = Append(R, removal)
        BY Zenon
      <4>3. Levelled(U)
        <5>1. added.level \in 1..3 /\ added.level + 1 = level
          BY <4>1
        <5> QED
          BY <2>1, <2>2, <4>1, <4>2, <5>1, <1>GrowLevelled, Zenon
      <4>4. Linked(F)
        BY <2>2, <4>1, <4>2, <1>GrowLinked, Zenon
      <4>5. F \in Seq(Entries) /\ Len(F) > 0 /\ F[Len(F)] = entry
        BY <4>2
      <4>6. Matched(F, R) /\ Matched(F, Q)
        <5>1. Expected(entry, removal) /\ removal.index \in TableIndices
          BY <4>1, Zenon DEF Expected
        <5>2. Matched(F, R)
          BY <2>2, <4>2, <1>GrowMatched, Zenon
        <5> QED
          BY <4>2, <4>5, <5>1, <5>2, <1>GrowRemovals, Zenon
      <4>7. r.tables = U /\ r.entries = F /\ (r.removals = R \/ r.removals = Q)
        BY <4>1, <4>2, Zenon
      <4> QED
        BY <4>3, <4>4, <4>6, <4>7, Zenon DEF Shaped
    <3> QED
      BY <3>1, <3>2, Zenon
  <2>4. PICK k \in Nat : k = Len(r.tables) /\ n <= k
    BY <2>1 DEF Plans, Extends
  <2>5. /\ r.slot \in 1..(k - 1) /\ r.tables[r.slot + 1].parent_slot = p.slot
    BY <2>4 DEF Below, Slots
  <2>6. /\ r.tables[p.slot + 1].level = r.tables[r.slot + 1].level + 1
        /\ r.tables[r.slot + 1].level \in 1..3
    BY <2>3, <2>4, <2>5, Zenon DEF Shaped, Levelled
  <2>7. r.tables[p.slot + 1] = T[p.slot + 1]
    <3>1. p.slot + 1 \in 1..n
      BY <2>2
    <3> QED
      BY <2>1, <3>1, Zenon DEF Extends
  <2>8. PICK x \in 1..3 : x = r.tables[r.slot + 1].level /\ x + 1 = level
    BY <2>2, <2>6, <2>7, Zenon
  <2>9. x = level - 1
    BY <2>8
  <2> QED
    BY <2>3, <2>8, <2>9, Zenon
\* ensure_child adds no table beyond the capacity.
<1>ChildFits.
    ASSUME NEW p \in Plans, Fits(p), NEW level, NEW index, NEW page, NEW r \in Plans,
           SameTables(p, r) \/ ChildAdded(p, level, index, page, r)
    PROVE  Fits(r)
  <2> USE <1>ChildFits
  <2>1. CASE SameTables(p, r)
    BY <2>1, Zenon DEF SameTables, Fits
  <2>2. CASE ChildAdded(p, level, index, page, r)
    <3>1. PICK T \in Seq(TableRecords), added \in TableRecords :
            T = p.tables /\ Len(T) # TABLES /\ r.tables = Append(T, added)
      BY <2>2, Zenon DEF ChildAdded, Plans
    <3>2. TABLES \in Nat
      BY PagePlanAssumption, Zenon
    <3>3. Len(T) <= TABLES
      BY <3>1, Zenon DEF Fits
    <3>4. Len(Append(T, added)) = Len(T) + 1
      OBVIOUS
    <3> QED
      BY <3>1, <3>2, <3>3, <3>4 DEF Fits
  <2> QED
    BY <2>1, <2>2, Zenon
\* Growing twice is growing.
<1>ExtendsTransitive.
    ASSUME NEW p \in Plans, NEW q \in Plans, NEW r \in Plans, Extends(p, q), Extends(q, r)
    PROVE  Extends(p, r)
  <2> USE <1>ExtendsTransitive
  <2>1. /\ Len(p.tables) \in Nat /\ Len(q.tables) \in Nat /\ Len(r.tables) \in Nat
        /\ Len(p.entries) \in Nat /\ Len(q.entries) \in Nat /\ Len(r.entries) \in Nat
    BY DEF Plans
  <2>2. Len(p.tables) <= Len(r.tables) /\ Len(p.entries) <= Len(r.entries)
    BY <2>1 DEF Extends
  <2>3. ASSUME NEW s \in 1..Len(p.tables) PROVE r.tables[s] = p.tables[s]
    <3>1. s \in 1..Len(q.tables)
      BY <2>1 DEF Extends
    <3> QED
      BY <3>1, Zenon DEF Extends
  <2>4. ASSUME NEW i \in 1..Len(p.entries) PROVE r.entries[i] = p.entries[i]
    <3>1. i \in 1..Len(q.entries)
      BY <2>1 DEF Extends
    <3> QED
      BY <3>1, Zenon DEF Extends
  <2>5. ASSUME NEW i \in (Len(p.entries) + 1)..Len(r.entries)
        PROVE  r.entries[i].kind = "TableSlot"
    <3>1. CASE i \in (Len(q.entries) + 1)..Len(r.entries)
      BY <3>1, Zenon DEF Extends
    <3>2. CASE i \in 1..Len(q.entries) /\ i \in (Len(p.entries) + 1)..Len(q.entries)
      BY <3>2, Zenon DEF Extends
    <3> QED
      BY <2>1, <3>1, <3>2
  <2> QED
    BY <2>2, <2>3, <2>4, <2>5, Zenon DEF Extends
\* The flags of a leaf are flags.
<1>LeafFlags.
    ASSUME NEW permissions, NEW cache
    PROVE  for_leaf(permissions, cache) \in SUBSET Flags
  BY <1>LeafFlags, Zenon DEF for_leaf, Flags
\* A failure is not a success.
<1>FailedIsError.
    ASSUME NEW p \in Plans, NEW t \in Errors \ {"none"}, NEW q, q = Failed(p, t)
    PROVE  q.error # "none"
  BY <1>FailedIsError, <1>SetError
<1> TAKE p \in Plans, page \in Nat, frame \in Nat
<1> TAKE permissions, cache, r
<1> HAVE Structure(p) /\ r = insert_page(p, page, frame, permissions, cache)
         /\ r.error = "none"
<1>1. PICK i1 \in Nat, i2 \in Nat, i3 \in Nat, i4 \in Nat :
        /\ i1 = virtual_address_indices(page)[1] /\ i2 = virtual_address_indices(page)[2]
        /\ i3 = virtual_address_indices(page)[3] /\ i4 = virtual_address_indices(page)[4]
  BY <1>IndexTypes, SMTT(90)
<1>2. PICK p0 : p0 = [p EXCEPT !.slot = 0]
  BY Zenon
<1>3. PICK pdpt : pdpt = ensure_child(p0, 4, i1, page)
  BY Zenon
<1>4. PICK pd : pd = ensure_child(pdpt, 3, i2, page)
  BY Zenon
<1>5. PICK pt : pt = ensure_child(pd, 2, i3, page)
  BY Zenon
<1>6. PICK leaf : leaf = [table_slot |-> pt.slot, index |-> i4, kind |-> "PhysicalFrame",
                          value |-> frame, flags |-> for_leaf(permissions, cache)]
  BY Zenon
<1>7. r = IF frame = 0 THEN Failed(p, "ZeroPhysicalFrame")
          ELSE IF pt.error # "none" THEN pt
          ELSE IF "USER" \in permissions THEN Failed(pt, "UserMappingForbidden")
          ELSE IF {"WRITE", "EXECUTE"} \subseteq permissions
            THEN Failed(pt, "WritableExecutableLeaf")
          ELSE IF find_entry(pt, pt.slot, i4) = {} THEN push_entry(pt, leaf)
          ELSE IF find_entry(pt, pt.slot, i4) = {leaf} THEN Failed(pt, "DuplicateLeaf")
          ELSE Failed(pt, "IncompatibleRemap")
  BY <1>1, <1>2, <1>3, <1>4, <1>5, <1>6, Zenon DEF insert_page
<1>8. {"ZeroPhysicalFrame", "UserMappingForbidden", "WritableExecutableLeaf",
       "DuplicateLeaf", "IncompatibleRemap"} \subseteq Errors \ {"none"}
  BY Zenon DEF Errors
<1>9. frame # 0
  <2>1. r # Failed(p, "ZeroPhysicalFrame")
    BY <1>8, <1>FailedIsError, Zenon
  <2> QED
    BY <1>7, <2>1, Zenon
<1>10. pt.error = "none"
  BY <1>7, <1>9, Zenon
<1>11. pd.error = "none" /\ pdpt.error = "none"
  <2>1. pd.error # "none" => pt = pd
    BY <1>5, <1>ErrorsStay, Zenon
  <2>2. pdpt.error # "none" => pd = pdpt
    BY <1>4, <1>ErrorsStay, Zenon
  <2> QED
    BY <1>10, <2>1, <2>2, Zenon
<1>12. /\ p0 \in Plans /\ p0.slot = 0 /\ p0.tables = p.tables /\ p0.entries = p.entries
       /\ p0.removals = p.removals
  BY <1>2, <1>SetSlot
<1>13. Structure(p0) /\ 0 \in Slots(p0) /\ Extends(p, p0)
  BY <1>12, SMTT(30) DEF Structure, Slots, Extends, Plans
<1>14. /\ pdpt \in Plans /\ Structure(pdpt) /\ Extends(p0, pdpt)
       /\ Below(pdpt, 0, i1, pdpt.slot) /\ pdpt.slot \in Slots(pdpt) \ {0}
       /\ \/ SameTables(p0, pdpt)
          \/ ChildAdded(p0, 4, i1, page, pdpt)
  <2>1. 4 \in Nat \ {0} /\ p0.slot \in Slots(p0)
    BY <1>12, <1>13
  <2>2. /\ pdpt \in Plans /\ Structure(pdpt) /\ Extends(p0, pdpt)
        /\ Below(pdpt, p0.slot, i1, pdpt.slot)
        /\ \/ SameTables(p0, pdpt)
           \/ ChildAdded(p0, 4, i1, page, pdpt)
    BY <1>3, <1>11, <1>12, <1>13, <2>1, <1>EnsureChild, Zenon
  <2> QED
    BY <1>12, <2>2, Zenon DEF Below
<1>15. /\ pd \in Plans /\ Structure(pd) /\ Extends(pdpt, pd)
       /\ Below(pd, pdpt.slot, i2, pd.slot) /\ pd.slot \in Slots(pd) \ {0}
       /\ \/ SameTables(pdpt, pd)
          \/ ChildAdded(pdpt, 3, i2, page, pd)
  <2>1. 3 \in Nat \ {0} /\ pdpt.slot \in Slots(pdpt)
    BY <1>14
  <2>2. /\ pd \in Plans /\ Structure(pd) /\ Extends(pdpt, pd)
        /\ Below(pd, pdpt.slot, i2, pd.slot)
        /\ \/ SameTables(pdpt, pd)
           \/ ChildAdded(pdpt, 3, i2, page, pd)
    BY <1>4, <1>11, <1>14, <2>1, <1>EnsureChild, Zenon
  <2> QED
    BY <2>2, Zenon DEF Below
<1>16. /\ pt \in Plans /\ Structure(pt) /\ Extends(pd, pt)
       /\ Below(pt, pd.slot, i3, pt.slot) /\ pt.slot \in Slots(pt) \ {0}
       /\ \/ SameTables(pd, pt)
          \/ ChildAdded(pd, 2, i3, page, pt)
  <2>1. 2 \in Nat \ {0} /\ pd.slot \in Slots(pd)
    BY <1>15
  <2>2. /\ pt \in Plans /\ Structure(pt) /\ Extends(pd, pt)
        /\ Below(pt, pd.slot, i3, pt.slot)
        /\ \/ SameTables(pd, pt)
           \/ ChildAdded(pd, 2, i3, page, pt)
    BY <1>5, <1>10, <1>15, <2>1, <1>EnsureChild, Zenon
  <2> QED
    BY <2>2, Zenon DEF Below
<1>17. OnPath(pt, pt.slot, page)
  <2>1. Below(pd, 0, i1, pdpt.slot)
    BY <1>14, <1>15, BelowStays, Zenon
  <2>2. Below(pt, 0, i1, pdpt.slot) /\ Below(pt, pdpt.slot, i2, pd.slot)
    BY <1>15, <1>16, <2>1, BelowStays, Zenon
  <2>3. pdpt.slot \in Slots(pt) /\ pd.slot \in Slots(pt)
    BY <2>2, Zenon DEF Below
  <2> QED
    BY <1>1, <1>16, <2>2, <2>3, Zenon DEF OnPath
<1>18. Extends(p, pt)
  BY <1>12, <1>13, <1>14, <1>15, <1>16, <1>ExtendsTransitive, Zenon
<1>19. find_entry(pt, pt.slot, i4) = {} /\ r = push_entry(pt, leaf)
  <2>1. /\ r # Failed(pt, "UserMappingForbidden")
        /\ r # Failed(pt, "WritableExecutableLeaf")
        /\ r # Failed(pt, "DuplicateLeaf") /\ r # Failed(pt, "IncompatibleRemap")
    BY <1>8, <1>16, <1>FailedIsError, Zenon
  <2> QED
    BY <1>7, <1>9, <1>10, <2>1, ZenonT(30)
<1>20. PICK flags \in SUBSET Flags : flags = for_leaf(permissions, cache)
  BY <1>LeafFlags, Zenon
<1>21. /\ leaf \in Entries /\ leaf.table_slot = pt.slot /\ leaf.index = i4
       /\ leaf.kind = "PhysicalFrame" /\ leaf.value = frame /\ leaf.flags = flags
  <2>1. pt.slot \in Nat
    BY <1>16, ZenonT(30) DEF Plans
  <2> QED
    BY <1>6, <1>20, <2>1, Zenon DEF Entries
<1>22. /\ r \in Plans /\ r.tables = pt.tables /\ r.entries = Append(pt.entries, leaf)
       /\ r.removals = pt.removals
  BY <1>10, <1>16, <1>19, <1>21, <1>PushEntry, SMTT(30)
<1>23. Structure(r)
  <2>1. PICK T, E, F : T = pt.tables /\ E = pt.entries /\ F = Append(E, leaf)
    BY ZenonT(30)
  <2>2. T \in Seq(TableRecords) /\ E \in Seq(Entries)
    BY <1>16, <2>1, ZenonT(30) DEF Plans
  <2>3. Len(T) > 0 /\ Parents(T, E) /\ Children(T, E) /\ Distinct(E)
    BY <1>16, <2>1, Zenon DEF Structure
  <2>4. leaf.table_slot \in 0..(Len(T) - 1) /\ leaf.kind # "TableSlot"
    BY <1>16, <1>21, <2>1, Zenon DEF Slots
  <2>5. Parents(T, F) /\ Children(T, F)
    BY <1>21, <2>1, <2>2, <2>3, <2>4, <1>GrowLeaf, ZenonT(60)
  <2>6. \A i \in 1..Len(E) : ~(E[i].table_slot = leaf.table_slot /\ E[i].index = leaf.index)
    <3>1. Hits(pt, pt.slot, i4) = {}
      BY <1>16, <1>19, Finds, Zenon
    <3> QED
      BY <1>21, <2>1, <3>1, ZenonT(30) DEF Hits
  <2>7. Distinct(F)
    BY <1>21, <2>1, <2>2, <2>3, <2>6, <1>GrowDistinct, Zenon
  <2> QED
    BY <1>22, <2>1, <2>3, <2>5, <2>7, Zenon DEF Structure
<1>24. OnPath(r, pt.slot, page)
  BY <1>17, <1>22, Zenon DEF OnPath, Below, Slots
<1>25. Leaf(r, leaf, page, frame, flags)
  BY <1>1, <1>21, <1>24, Zenon DEF Leaf
<1>26. ASSUME Recorded(p) PROVE Recorded(r)
  <2>1. Recorded(p0)
    BY <1>12, <1>26, <1>SameRecorded, Zenon
  <2>2. Recorded(pdpt)
    BY <1>1, <1>12, <1>14, <2>1, <1>ChildRecorded, Zenon
  <2>3. Recorded(pd)
    <3>1. pdpt.slot # 0
      BY <1>14, Zenon
    <3> QED
      BY <1>14, <1>15, <2>2, <3>1, <1>ChildRecorded, SMTT(30)
  <2>4. Recorded(pt)
    <3>1. pd.slot # 0
      BY <1>15, Zenon
    <3> QED
      BY <1>15, <1>16, <2>3, <3>1, <1>ChildRecorded, SMTT(30)
  <2>5. pt.slot # 0
    BY <1>16, Zenon
  <2> QED
    BY <1>16, <1>21, <1>22, <2>4, <2>5, <1>EntryRecorded, Zenon
<1>27. PageAdded(p, page, frame, for_leaf(permissions, cache), r)
  BY <1>16, <1>18, <1>20, <1>21, <1>22, <1>23, <1>25, Zenon DEF PageAdded
<1>28. ASSUME Shaped(p), page \in VirtualPages PROVE Shaped(r)
  <2>1. i1 \in TableIndices /\ i2 \in TableIndices /\ i3 \in TableIndices
    <3>1. 1 \in 1..4 /\ 2 \in 1..4 /\ 3 \in 1..4
      OBVIOUS
    <3> QED
      BY <1>1, <1>28, <3>1, IndexRange, Zenon
  <2>2. Shaped(p0)
    BY <1>12, <1>28, Zenon DEF Shaped
  <2>3. p0.tables[p0.slot + 1].level = 4 /\ p0.slot \in Slots(p0)
    BY <1>12, <1>13, <2>2 DEF Shaped, Levelled
  <2>4. 4 \in 2..4 /\ 3 \in 2..4 /\ 2 \in 2..4 /\ 4 - 1 = 3 /\ 3 - 1 = 2
    OBVIOUS
  <2>5. Shaped(pdpt) /\ pdpt.tables[pdpt.slot + 1].level = 3
    <3>1. Below(pdpt, p0.slot, i1, pdpt.slot)
      BY <1>12, <1>14, Zenon
    <3>2. /\ p0 \in Plans /\ Structure(p0) /\ pdpt \in Plans /\ Extends(p0, pdpt)
          /\ SameTables(p0, pdpt) \/ ChildAdded(p0, 4, i1, page, pdpt)
      BY <1>12, <1>13, <1>14, Zenon
    <3>3. PICK level \in 2..4 : level = 4
      BY <2>4, Zenon
    <3>4. Shaped(pdpt) /\ pdpt.tables[pdpt.slot + 1].level = level - 1
      BY <2>1, <2>2, <2>3, <3>1, <3>2, <3>3, <1>ChildShaped, SMTT(60)
    <3> QED
      BY <3>3, <3>4
  <2>6. Shaped(pd) /\ pd.tables[pd.slot + 1].level = 2
    <3>1. /\ pdpt \in Plans /\ Structure(pdpt) /\ pdpt.slot \in Slots(pdpt)
          /\ pd \in Plans /\ Extends(pdpt, pd) /\ Below(pd, pdpt.slot, i2, pd.slot)
          /\ SameTables(pdpt, pd) \/ ChildAdded(pdpt, 3, i2, page, pd)
      BY <1>14, <1>15, Zenon
    <3>2. PICK level \in 2..4 : level = 3
      BY <2>4, Zenon
    <3>3. /\ pdpt.tables[pdpt.slot + 1].level = level
          /\ SameTables(pdpt, pd) \/ ChildAdded(pdpt, level, i2, page, pd)
      BY <2>5, <3>1, <3>2, Zenon
    <3>4. Shaped(pd) /\ pd.tables[pd.slot + 1].level = level - 1
      BY <2>1, <2>5, <3>1, <3>3, <1>ChildShaped, SMTT(60)
    <3> QED
      BY <3>2, <3>4
  <2>7. Shaped(pt)
    <3>1. /\ pd \in Plans /\ Structure(pd) /\ pd.slot \in Slots(pd)
          /\ pt \in Plans /\ Extends(pd, pt) /\ Below(pt, pd.slot, i3, pt.slot)
          /\ SameTables(pd, pt) \/ ChildAdded(pd, 2, i3, page, pt)
      BY <1>15, <1>16, Zenon
    <3> QED
      BY <2>1, <2>4, <2>6, <3>1, <1>ChildShaped, ZenonT(60)
  <2>8. PICK E, F : E \in Seq(Entries) /\ E = pt.entries /\ F = Append(E, leaf)
    BY <1>16, Zenon DEF Plans
  <2>9. Linked(E) /\ Matched(E, pt.removals) /\ Levelled(pt.tables)
    BY <2>7, <2>8, Zenon DEF Shaped
  <2>10. leaf.kind # "TableSlot"
    BY <1>21, Zenon
  <2>11. Linked(F) /\ Matched(F, pt.removals)
    BY <1>21, <2>8, <2>9, <2>10, <1>GrowLinked, <1>GrowMatched, Zenon
  <2> QED
    BY <1>22, <2>8, <2>9, <2>11, Zenon DEF Shaped
<1>29. ASSUME Fits(p) PROVE Fits(r)
  <2>1. Fits(p0)
    BY <1>12, <1>29, Zenon DEF Fits
  <2>2. Fits(pt)
    <3>1. Fits(pdpt)
      BY <1>12, <1>14, <2>1, <1>ChildFits, Zenon
    <3>2. Fits(pd)
      BY <1>14, <1>15, <3>1, <1>ChildFits, Zenon
    <3> QED
      BY <1>15, <1>16, <3>2, <1>ChildFits, Zenon
  <2> QED
    BY <1>22, <2>2, Zenon DEF Fits
<1> QED
  BY <1>9, <1>26, <1>27, <1>28, <1>29, Zenon

-----------------------------------------------------------------------------
(* Walks.                                                                    *)

\* A step of a walk goes to the table that hangs at the index.
LEMMA WalkStep ==
  ASSUME NEW p \in Plans, Structure(p), NEW up, NEW index, NEW s
  PROVE  (\E e \in find_entry(p, up, index) : e.kind = "TableSlot" /\ e.value = s)
           <=> Below(p, up, index, s)
<1>1. PICK T, E : T = p.tables /\ E = p.entries
  BY Zenon
<1>2. Len(T) \in Nat /\ Parents(T, E) /\ Children(T, E)
  BY <1>1, SMTT(30) DEF Plans, Structure
<1>3. ASSUME NEW e \in find_entry(p, up, index), e.kind = "TableSlot", e.value = s
      PROVE  Below(p, up, index, s)
  <2>1. PICK i \in Hits(p, up, index) : e = p.entries[i]
    BY Finds, Zenon
  <2>2. i \in 1..Len(E) /\ e = E[i] /\ e.table_slot = up /\ e.index = index
    BY <1>1, <2>1, Zenon DEF Hits
  <2>3. s \in 1..(Len(T) - 1) /\ Edge(T, e, s)
    BY <1>2, <1>3, <2>2, Zenon DEF Children
  <2> QED
    BY <1>1, <1>2, <2>2, <2>3 DEF Below, Edge, Slots
<1>4. ASSUME Below(p, up, index, s)
      PROVE  \E e \in find_entry(p, up, index) : e.kind = "TableSlot" /\ e.value = s
  <2>1. /\ s \in 1..(Len(T) - 1) /\ T[s + 1].parent_slot = up
        /\ T[s + 1].parent_index = index
    BY <1>1, <1>2, <1>4 DEF Below, Slots
  <2>2. PICK i \in 1..Len(E) : Edge(T, E[i], s)
    BY <1>2, <2>1, Zenon DEF Parents
  <2>3. i \in Hits(p, up, index)
    BY <1>1, <2>1, <2>2, Zenon DEF Hits, Edge
  <2>4. find_entry(p, up, index) = {p.entries[i]}
    BY <2>3, Finds, Zenon
  <2>5. p.entries[i].kind = "TableSlot" /\ p.entries[i].value = s
    BY <1>1, <2>2, Zenon DEF Edge
  <2> QED
    BY <2>4, <2>5, Zenon
<1> QED
  BY <1>3, <1>4, Zenon

\* A walk ends at the leaf entries of the page's own path (leaf_entry).
LEMMA WalkEnds ==
  ASSUME NEW p \in Plans, Structure(p), NEW page, NEW e
  PROVE  e \in leaf_entry(p, page) <=>
           \E i \in 1..Len(p.entries) :
             /\ e = p.entries[i] /\ e.kind = "PhysicalFrame"
             /\ e.index = virtual_address_indices(page)[4]
             /\ OnPath(p, e.table_slot, page)
<1> DEFINE index == virtual_address_indices(page)
           at(slots, i, kind) ==
             {x \in UNION {find_entry(p, slot, index[i]) : slot \in slots} : x.kind = kind}
           below(slots, i) == {x.value : x \in at(slots, i, "TableSlot")}
<1>1. leaf_entry(p, page) = at(below(below(below({0}, 1), 2), 3), 4, "PhysicalFrame")
  BY Zenon DEF leaf_entry
<1>2. \A S, i, kind, x : x \in at(S, i, kind) <=>
        x.kind = kind /\ \E slot \in S : x \in find_entry(p, slot, index[i])
  BY Zenon
<1>3. \A S, i, s : s \in below(S, i) <=> \E x : x \in at(S, i, "TableSlot") /\ s = x.value
  BY Zenon
<1> HIDE DEF at, below
<1>4. ASSUME NEW S, NEW i, NEW s
      PROVE  s \in below(S, i) <=> \E up \in S : Below(p, up, index[i], s)
  <2>1. \A up : (\E x \in find_entry(p, up, index[i]) : x.kind = "TableSlot" /\ x.value = s)
                  <=> Below(p, up, index[i], s)
    BY WalkStep, Zenon
  <2>2. s \in below(S, i) <=> \E x : x \in at(S, i, "TableSlot") /\ s = x.value
    BY <1>3
  <2>3. ASSUME NEW x
        PROVE  x \in at(S, i, "TableSlot") <=>
                 x.kind = "TableSlot" /\ \E up \in S : x \in find_entry(p, up, index[i])
    BY Zenon DEF at
  <2> HIDE DEF index
  <2>4. ASSUME s \in below(S, i) PROVE \E up \in S : Below(p, up, index[i], s)
    <3>1. PICK x : x \in at(S, i, "TableSlot") /\ s = x.value
      BY <2>2, <2>4, Zenon
    <3>2. PICK up \in S : x \in find_entry(p, up, index[i])
      BY <2>3, <3>1, Zenon
    <3>3. x.kind = "TableSlot"
      BY <2>3, <3>1, Zenon
    <3> QED
      BY <2>1, <3>1, <3>2, <3>3, Zenon
  <2>5. ASSUME NEW up \in S, Below(p, up, index[i], s) PROVE s \in below(S, i)
    <3>1. PICK x \in find_entry(p, up, index[i]) : x.kind = "TableSlot" /\ x.value = s
      BY <2>1, <2>5, Zenon
    <3>2. x \in at(S, i, "TableSlot")
      BY <2>3, <3>1, Zenon
    <3> QED
      BY <2>2, <3>1, <3>2, Zenon
  <2> QED
    BY <2>4, <2>5, Zenon
<1>5. \A pt : pt \in below(below(below({0}, 1), 2), 3) <=> OnPath(p, pt, page)
  <2>1. ASSUME NEW pt
        PROVE  pt \in below(below(below({0}, 1), 2), 3) <=>
                 \E a, b : /\ Below(p, 0, index[1], a) /\ Below(p, a, index[2], b)
                           /\ Below(p, b, index[3], pt)
    <3> HIDE DEF index
    <3>1. \A a : a \in below({0}, 1) <=> Below(p, 0, index[1], a)
      BY <1>4
    <3>2. \A b : b \in below(below({0}, 1), 2) <=>
            \E a : Below(p, 0, index[1], a) /\ Below(p, a, index[2], b)
      BY <1>4, <3>1, Zenon
    <3>3. pt \in below(below(below({0}, 1), 2), 3) <=>
            \E b : b \in below(below({0}, 1), 2) /\ Below(p, b, index[3], pt)
      BY <1>4
    <3> QED
      BY <3>2, <3>3, Zenon
  <2>2. \A up, i, s : Below(p, up, i, s) => s \in Slots(p)
    BY Zenon DEF Below
  <2> QED
    BY <2>1, <2>2, Zenon DEF OnPath
<1>6. e \in leaf_entry(p, page) <=>
        /\ e.kind = "PhysicalFrame"
        /\ \E pt : OnPath(p, pt, page) /\ e \in find_entry(p, pt, index[4])
  <2>1. PICK S : S = below(below(below({0}, 1), 2), 3)
    BY Zenon
  <2>2. e \in leaf_entry(p, page) <=>
          /\ e.kind = "PhysicalFrame"
          /\ \E slot \in S : e \in find_entry(p, slot, index[4])
    BY <1>1, <1>2, <2>1
  <2>3. \A pt : pt \in S <=> OnPath(p, pt, page)
    BY <1>5, <2>1, Zenon
  <2> QED
    BY <2>2, <2>3, Zenon
<1>7. ASSUME NEW pt
      PROVE  e \in find_entry(p, pt, index[4]) <=>
               \E i \in 1..Len(p.entries) :
                 e = p.entries[i] /\ e.table_slot = pt /\ e.index = index[4]
  <2>1. e \in find_entry(p, pt, index[4]) => \E i \in Hits(p, pt, index[4]) : e = p.entries[i]
    BY Finds, Zenon
  <2>2. ASSUME NEW i \in Hits(p, pt, index[4]), e = p.entries[i]
        PROVE  e \in find_entry(p, pt, index[4])
    BY <2>2, Finds
  <2>3. \A i : i \in Hits(p, pt, index[4]) <=>
          i \in 1..Len(p.entries) /\ p.entries[i].table_slot = pt
          /\ p.entries[i].index = index[4]
    BY Zenon DEF Hits
  <2> QED
    BY <2>1, <2>2, <2>3, Zenon
<1> QED
  BY <1>6, <1>7, Zenon

------------------------------------------------------------------------------
(* The construction plan and the mappings it is built from.               *)

\* What MappingPlan::insert has tested of one mapping.
Sound(m) ==
  /\ m.virtual.start < m.virtual.end /\ m.virtual.end <= VirtualEnd
  /\ m.mapped => /\ length(m.virtual) = length(m.physical)
                 /\ m.physical.end <= SUPPORTED_PHYSICAL_END
                 /\ from_bits_ok(m.permissions)
                 /\ m.kind # "Guard"

\* What it has tested of two mappings.
Apart(a, b) == ~virtual_overlap(a, b) /\ ~alias_refused(a, b)

Policy(ms) ==
  /\ ms \in Seq(Requests)
  /\ \A k \in 1..Len(ms) : Sound(ms[k])
  /\ \A k, l \in 1..Len(ms) : k # l => Apart(ms[k], ms[l])

\* What validate_final has tested of the bootstrap stacks.
Guarded(ms) ==
  \A i \in 1..Len(ms) : ms[i].kind = "BootstrapStack" =>
    \E j \in 1..Len(ms) :
      /\ ms[j].kind = "Guard"
      /\ ms[j].virtual.start + 1 = ms[i].virtual.start
      /\ ms[j].virtual.end = ms[i].virtual.start

\* Entry e is the leaf of page n of mapping m.
LeafOf(p, e, m, n) ==
  /\ m.mapped
  /\ n \in 0..(length(m.virtual) - 1)
  /\ Leaf(p, e, m.virtual.start + n, m.physical.start + n, for_leaf(m.permissions, m.cache))

\* Every leaf is the leaf of a page of a mapping.
Leaves(p, ms) ==
  \A i \in 1..Len(p.entries) : p.entries[i].kind = "PhysicalFrame" =>
    \E k \in 1..Len(ms), n \in Nat : LeafOf(p, p.entries[i], ms[k], n)

\* build has been through page n of mapping k.
Passed(c, k, n) == k < c.mapping \/ (k = c.mapping /\ n < c.page)

\* Every page that build has been through has its leaf.
Complete(p, ms, c) ==
  \A k \in 1..Len(ms), n \in Nat :
    ms[k].mapped /\ n \in 0..(length(ms[k].virtual) - 1) /\ Passed(c, k, n) =>
      \E i \in 1..Len(p.entries) : LeafOf(p, p.entries[i], ms[k], n)

\* The cursor stands on a page of its mapping.
CursorInside(ms, c) ==
  c.mapping <= Len(ms) =>
    IF ms[c.mapping].mapped THEN c.page < length(ms[c.mapping].virtual) ELSE c.page = 0

\* The mappings obey the policy, the tables form a tree, the removals are its
\* low root entries, and the leaves are those of the pages that build has been
\* through.
IInv ==
  /\ caller \in [mode: Modes, requests: Seq(Requests)]
  /\ Policy(mappings)
  /\ cursor \in [mapping: Nat \ {0}, page: Nat]
  /\ plan \in Plans
  /\ Structure(plan)
  /\ Recorded(plan)
  /\ CursorInside(mappings, cursor)
  /\ Leaves(plan, mappings)
  /\ Complete(plan, mappings, cursor)
  /\ stage = "mapping" =>
       cursor.mapping = 1 /\ cursor.page = 0 /\ Len(plan.entries) = 0
  /\ stage \in {"building", "built"} /\ caller.mode = "Final" => Guarded(mappings)
  /\ stage = "built" => cursor.mapping > Len(mappings)

\* A plan without entries has no leaves to account for.
LEMMA NothingBuilt ==
  ASSUME NEW ms, Policy(ms), NEW p, Len(p.entries) = 0,
         NEW c, c.mapping = 1, c.page = 0
  PROVE  CursorInside(ms, c) /\ Leaves(p, ms) /\ Complete(p, ms, c)
<1>1. Leaves(p, ms)
  BY DEF Leaves
<1>2. Complete(p, ms, c)
  BY DEF Complete, Passed
<1>3. CursorInside(ms, c)
  <2>1. ASSUME 1 <= Len(ms) PROVE 0 < length(ms[1].virtual)
    <3>1. ms \in Seq(Requests) /\ 1 \in 1..Len(ms)
      BY <2>1 DEF Policy
    <3>2. ms[1] \in Requests /\ Sound(ms[1])
      BY <3>1 DEF Policy
    <3>3. PICK q \in Requests : q = ms[1]
      BY <3>2, Zenon
    <3>4. q.virtual.start \in Nat /\ q.virtual.end \in Nat
      BY Zenon DEF Requests, Ranges
    <3> QED
      BY <3>2, <3>3, <3>4 DEF Sound, length
  <2> QED
    BY <2>1, Zenon DEF CursorInside
<1> QED
  BY <1>1, <1>2, <1>3, Zenon

\* The invariant holds at the start.
LEMMA InitIInv == Init => IInv
<1>1. SUFFICES ASSUME Init PROVE IInv
  BY Zenon
<1>2. caller \in [mode: Modes, requests: Seq(Requests)]
  BY <1>1, PagePlanAssumption, Zenon DEF Init
<1>3. Policy(mappings)
  BY <1>1 DEF Init, Policy
<1>4. cursor \in [mapping: Nat \ {0}, page: Nat] /\ cursor.mapping = 1 /\ cursor.page = 0
  BY <1>1 DEF Init
<1>5. plan = EmptyPlan
  BY <1>1, Zenon DEF Init
<1>6. [level |-> 4, parent_slot |-> 0, parent_index |-> 0] \in TableRecords
  BY Zenon DEF TableRecords
<1>7. PICK root \in TableRecords :
        root = [level |-> 4, parent_slot |-> 0, parent_index |-> 0]
  BY <1>6, Zenon
<1>8. EmptyPlan.tables = <<root>> /\ EmptyPlan.entries = <<>> /\ EmptyPlan.removals = <<>>
  BY <1>7, Zenon DEF EmptyPlan
<1>9. PICK T \in Seq(TableRecords) : T = EmptyPlan.tables /\ Len(T) = 1
  <2>1. <<root>> \in Seq(TableRecords) /\ Len(<<root>>) = 1
    OBVIOUS
  <2> QED
    BY <1>8, <2>1, Zenon
<1>10. plan \in Plans /\ plan.tables = T /\ plan.entries = <<>>
  <2>1. EmptyPlan = [tables |-> T, entries |-> <<>>, removals |-> <<>>, slot |-> 0,
                     error |-> "none"]
    BY <1>8, <1>9, Zenon DEF EmptyPlan
  <2> QED
    BY <1>5, <2>1 DEF Plans, Errors
<1>11. Structure(plan)
  <2>1. Len(plan.tables) = 1 /\ Len(plan.entries) = 0
    BY <1>9, <1>10, Zenon
  <2>2. Parents(plan.tables, plan.entries)
    BY <2>1 DEF Parents
  <2>3. Children(plan.tables, plan.entries)
    BY <2>1 DEF Children
  <2>4. Distinct(plan.entries)
    BY <2>1 DEF Distinct
  <2> QED
    BY <2>1, <2>2, <2>3, <2>4 DEF Structure
<1>12. Len(plan.entries) = 0
  BY <1>10
<1>13. CursorInside(mappings, cursor) /\ Leaves(plan, mappings)
       /\ Complete(plan, mappings, cursor)
  BY <1>3, <1>4, <1>12, NothingBuilt, Zenon
<1>14. stage = "mapping"
  BY <1>1, Zenon DEF Init
<1>15. Recorded(plan)
  <2>1. Len(plan.removals) = 0
    BY <1>5, <1>8, Zenon
  <2> QED
    BY <1>12, <2>1 DEF Recorded
<1> QED
  BY <1>2, <1>3, <1>4, <1>10, <1>11, <1>12, <1>13, <1>14, <1>15, ZenonT(30) DEF IInv

\* Every Err leaves the variables that the invariant is about alone.
LEMMA RefuseIInv ==
  ASSUME IInv, NEW why, Refuse(why)
  PROVE  IInv'
<1>1. stage' = "refused" /\ UNCHANGED <<caller, mappings, cursor, plan>>
  BY Zenon DEF Refuse
<1> QED
  BY <1>1, Zenon DEF IInv

\* An accepted insertion keeps the policy; nothing is built yet.
LEMMA InsertIInv ==
  \A m \in Requests : \A allowed :
    IInv /\ stage = "mapping" /\ (allowed /\ m.mapped => insert_mapping_ok(m))
      /\ caller.requests # <<>> /\ insert(m, allowed) =>
        IInv'
\* Neither test looks at the order of the two mappings.
<1>ApartSymmetric.
    ASSUME NEW a, NEW b, Apart(a, b)
    PROVE  Apart(b, a)
  BY <1>ApartSymmetric, Zenon DEF Apart, virtual_overlap, alias_refused, overlaps
\* Inserting a mapping that passed the tests keeps the policy.
<1>Inserted.
    ASSUME Policy(mappings), NEW m \in Requests, Sound(m),
           \A i \in 1..Len(mappings) : Apart(mappings[i], m), NEW r, r = inserted(m)
    PROVE  Policy(r)
  <2> USE <1>Inserted
  <2>1. PICK n \in Nat : n = Len(mappings) /\ mappings \in Seq(Requests)
    BY DEF Policy
  <2>2. PICK position : position = Cardinality({i \in 1..Len(mappings) :
                          \A j \in 1..i : mappings[j].virtual.start < m.virtual.start})
    BY Zenon
  <2>3. position \in 0..n
    <3>1. PICK S : S = {i \in 1..Len(mappings) :
                          \A j \in 1..i : mappings[j].virtual.start < m.virtual.start}
      BY Zenon
    <3>2. S \subseteq 1..n
      BY <2>1, <3>1, Zenon
    <3>3. IsFiniteSet(1..n) /\ Cardinality(1..n) = n
      BY FS_Interval
    <3>4. IsFiniteSet(S) /\ Cardinality(S) <= n
      BY <3>2, <3>3, FS_Subset, ZenonT(60)
    <3>5. Cardinality(S) \in Nat
      BY <3>4, FS_CardinalityType, Zenon
    <3> QED
      BY <2>2, <3>1, <3>4, <3>5
  <2>4. r = [i \in 1..(n + 1) |-> IF i <= position THEN mappings[i]
                                  ELSE IF i = position + 1 THEN m ELSE mappings[i - 1]]
    BY <2>1, <2>2, Zenon DEF inserted
  <2>5. \A i \in 1..n : mappings[i] \in Requests /\ Sound(mappings[i])
    BY <2>1 DEF Policy
  <2>6. ASSUME NEW i \in 1..(n + 1)
        PROVE  \/ i = position + 1 /\ r[i] = m
               \/ i <= position /\ i \in 1..n /\ r[i] = mappings[i]
               \/ i > position + 1 /\ i - 1 \in 1..n /\ r[i] = mappings[i - 1]
    BY <2>3, <2>4
  <2>7. \A i \in 1..(n + 1) : r[i] \in Requests /\ Sound(r[i])
    BY <2>5, <2>6, Zenon
  <2>8. r \in Seq(Requests) /\ Len(r) = n + 1
    BY <2>4, <2>7
  <2>9. ASSUME NEW k \in 1..(n + 1), NEW l \in 1..(n + 1), k # l
        PROVE  Apart(r[k], r[l])
    <3>1. \A a \in 1..n, b \in 1..n : a # b => Apart(mappings[a], mappings[b])
      BY <2>1, Zenon DEF Policy
    <3>2. \A a \in 1..n : Apart(mappings[a], m) /\ Apart(m, mappings[a])
      BY <2>1, <1>ApartSymmetric, Zenon
    <3>3. CASE k = position + 1
      <4>1. \E b \in 1..n : r[l] = mappings[b]
        BY <2>3, <2>6, <2>9, <3>3, Zenon
      <4>2. r[k] = m
        BY <2>3, <2>6, <3>3
      <4> QED
        BY <3>2, <4>1, <4>2, Zenon
    <3>4. CASE l = position + 1
      <4>1. \E a \in 1..n : r[k] = mappings[a]
        BY <2>3, <2>6, <2>9, <3>4, Zenon
      <4>2. r[l] = m
        BY <2>3, <2>6, <3>4
      <4> QED
        BY <3>2, <4>1, <4>2, Zenon
    <3>5. CASE k # position + 1 /\ l # position + 1
      <4>1. \E a \in 1..n, b \in 1..n :
              a # b /\ r[k] = mappings[a] /\ r[l] = mappings[b]
        <5>1. PICK a \in Int : a = IF k <= position THEN k ELSE k - 1
          BY <2>3
        <5>2. PICK b \in Int : b = IF l <= position THEN l ELSE l - 1
          BY <2>3
        <5>3. a \in 1..n /\ r[k] = mappings[a]
          BY <2>3, <2>6, <3>5, <5>1
        <5>4. b \in 1..n /\ r[l] = mappings[b]
          BY <2>3, <2>6, <3>5, <5>2
        <5>5. a # b
          BY <2>3, <2>9, <3>5, <5>1, <5>2
        <5> QED
          BY <5>3, <5>4, <5>5, ZenonT(30)
      <4> QED
        BY <3>1, <4>1, Zenon
    <3> QED
      BY <3>3, <3>4, <3>5, Zenon
  <2> QED
    BY <2>7, <2>8, <2>9, Zenon DEF Policy
<1> TAKE m \in Requests
<1> TAKE allowed
<1> HAVE IInv /\ stage = "mapping" /\ (allowed /\ m.mapped => insert_mapping_ok(m))
         /\ caller.requests # <<>> /\ insert(m, allowed)
<1>1. CASE ~(VirtualRangeOk(m.virtual) /\ allowed /\ insert_ok(m))
  BY <1>1, RefuseIInv, Zenon DEF insert
<1>2. CASE VirtualRangeOk(m.virtual) /\ allowed /\ insert_ok(m)
  <2>1. /\ mappings' = inserted(m)
        /\ caller' = [caller EXCEPT !.requests = Tail(@)]
        /\ UNCHANGED <<stage, cursor, plan, error>>
    BY <1>2, Zenon DEF insert
  <2>2. Sound(m)
    <3>1. m.virtual.start < m.virtual.end /\ m.virtual.end <= VirtualEnd
      BY <1>2, Zenon DEF VirtualRangeOk
    <3>2. ASSUME m.mapped
          PROVE  /\ length(m.virtual) = length(m.physical)
                 /\ m.physical.end <= SUPPORTED_PHYSICAL_END
                 /\ from_bits_ok(m.permissions) /\ m.kind # "Guard"
      BY <1>2, <3>2, Zenon DEF insert_mapping_ok, validate_mapping_policy, PhysicalRangeOk
    <3> QED
      BY <3>1, <3>2, Zenon DEF Sound
  <2>3. \A i \in 1..Len(mappings) : Apart(mappings[i], m)
    BY <1>2, Zenon DEF insert_ok, Apart
  <2>4. Policy(mappings')
    BY <2>1, <2>2, <2>3, <1>Inserted, Zenon DEF IInv
  <2>5. caller' \in [mode: Modes, requests: Seq(Requests)]
    <3>1. PICK t : t = Tail(caller.requests)
      BY Zenon
    <3>2. caller \in [mode: Modes, requests: Seq(Requests)]
      BY Zenon DEF IInv
    <3>3. t \in Seq(Requests)
      BY <3>1, <3>2
    <3>4. caller' = [caller EXCEPT !.requests = t]
      BY <2>1, <3>1, Zenon
    <3> QED
      BY <3>2, <3>3, <3>4, Zenon
  <2>6. cursor.mapping = 1 /\ cursor.page = 0 /\ Len(plan.entries) = 0
    BY Zenon DEF IInv
  <2>7. /\ CursorInside(mappings', cursor) /\ Leaves(plan, mappings')
        /\ Complete(plan, mappings', cursor)
    BY <2>4, <2>6, NothingBuilt, Zenon
  <2> QED
    BY <2>1, <2>4, <2>5, <2>6, <2>7, Zenon DEF IInv
<1> QED
  BY <1>1, <1>2, Zenon

\* begin: a final plan that goes on has its stacks guarded.
LEMMA BeginIInv ==
  ASSUME IInv, begin
  PROVE  IInv'
<1>1. CASE \E why : Refuse(why)
  BY <1>1, RefuseIInv, Zenon
<1>2. CASE /\ stage' = "building"
           /\ caller.mode = "Final" => validate_final
           /\ UNCHANGED <<caller, mappings, cursor, plan, error>>
  <2>1. caller.mode = "Final" => Guarded(mappings)
    BY <1>2, Zenon DEF validate_final, Guarded
  <2> QED
    BY <1>2, <2>1, Zenon DEF IInv
<1> QED
  BY <1>1, <1>2, Zenon DEF begin

\* add_mapping refuses, or moves on with what insert_page returns.
LEMMA AddMappingCases ==
  ASSUME add_mapping, NEW m, m = mappings[cursor.mapping],
         NEW page, page = m.virtual.start + cursor.page, NEW next,
         next = insert_page(plan, page, m.physical.start + cursor.page, m.permissions, m.cache)
  PROVE  \/ \E why : Refuse(why)
         \/ /\ m.mapped => next.error = "none"
            /\ plan' = IF m.mapped THEN next ELSE plan
            /\ cursor' = IF ~m.mapped \/ page + 1 = m.virtual.end
                           THEN [mapping |-> cursor.mapping + 1, page |-> 0]
                         ELSE [cursor EXCEPT !.page = @ + 1]
            /\ UNCHANGED <<caller, mappings, stage, error>>
  BY ZenonT(30) DEF add_mapping

\* add_mapping: the page the cursor stands on gets its leaf.
LEMMA AddMappingIInv ==
    IInv /\ add_mapping =>
        IInv'
\* So a path stays a path.
<1>PathStays.
    ASSUME NEW p \in Plans, NEW r \in Plans, Extends(p, r), NEW pt, NEW page,
           OnPath(p, pt, page)
    PROVE  OnPath(r, pt, page)
  <2> USE <1>PathStays
  <2>1. PICK a, b \in Slots(p) :
          /\ Below(p, 0, virtual_address_indices(page)[1], a)
          /\ Below(p, a, virtual_address_indices(page)[2], b)
          /\ Below(p, b, virtual_address_indices(page)[3], pt)
    BY Zenon DEF OnPath
  <2>2. /\ Below(r, 0, virtual_address_indices(page)[1], a)
        /\ Below(r, a, virtual_address_indices(page)[2], b)
        /\ Below(r, b, virtual_address_indices(page)[3], pt)
    BY <2>1, BelowStays, Zenon
  <2>3. a \in Slots(r) /\ b \in Slots(r)
    BY <2>2, Zenon DEF Below
  <2> QED
    BY <2>2, <2>3, Zenon DEF OnPath
\* What adding a page does to paths and entries.
<1>AddedFacts.
    ASSUME NEW p \in Plans, NEW page, NEW frame, NEW flags, NEW r,
           PageAdded(p, page, frame, flags, r)
    PROVE  /\ r \in Plans /\ Structure(r)
           /\ \A pt, pg : OnPath(p, pt, pg) => OnPath(r, pt, pg)
           /\ \A i \in 1..Len(p.entries) :
                i \in 1..Len(r.entries) /\ r.entries[i] = p.entries[i]
           /\ \E k \in 1..Len(r.entries) :
                /\ Leaf(r, r.entries[k], page, frame, flags)
                /\ \A i \in 1..Len(r.entries) :
                     i \in 1..Len(p.entries) \/ r.entries[i].kind = "TableSlot" \/ i = k
  <2> USE <1>AddedFacts
  <2>1. PICK leaf \in Entries, q \in Plans :
          /\ r \in Plans /\ Structure(r)
          /\ Extends(p, q) /\ r.tables = q.tables /\ r.entries = Append(q.entries, leaf)
          /\ Leaf(r, leaf, page, frame, flags)
    BY Zenon DEF PageAdded
  <2>2. PICK m \in Nat, n \in Nat : m = Len(p.entries) /\ n = Len(q.entries)
    BY DEF Plans
  <2>3. Len(r.entries) = n + 1 /\ r.entries[n + 1] = leaf
        /\ \A i \in 1..n : r.entries[i] = q.entries[i]
    <3>1. q.entries \in Seq(Entries)
      BY Zenon DEF Plans
    <3> QED
      BY <2>1, <2>2, <3>1, Grown
  <2>4. /\ m <= n /\ \A i \in 1..m : q.entries[i] = p.entries[i]
        /\ \A i \in (m + 1)..n : q.entries[i].kind = "TableSlot"
    BY <2>1, <2>2, Zenon DEF Extends
  <2>5. ASSUME NEW pt, NEW pg, OnPath(p, pt, pg) PROVE OnPath(r, pt, pg)
    <3>1. OnPath(q, pt, pg)
      BY <2>1, <2>5, <1>PathStays, Zenon
    <3> QED
      BY <2>1, <3>1, Zenon DEF OnPath, Below, Slots
  <2>6. ASSUME NEW i \in 1..Len(p.entries)
        PROVE  i \in 1..Len(r.entries) /\ r.entries[i] = p.entries[i]
    BY <2>2, <2>3, <2>4
  <2>7. ASSUME NEW i \in 1..Len(r.entries)
        PROVE  i \in 1..Len(p.entries) \/ r.entries[i].kind = "TableSlot" \/ i = n + 1
    <3>1. CASE i \in (m + 1)..n
      BY <2>3, <2>4, <3>1
    <3> QED
      BY <2>2, <2>3, <2>4, <3>1
  <2>8. n + 1 \in 1..Len(r.entries) /\ Leaf(r, r.entries[n + 1], page, frame, flags)
    BY <2>1, <2>3
  <2> QED
    BY <2>1, <2>5, <2>6, <2>7, <2>8, Zenon
\* A leaf that was there stays the leaf of its page.
<1>LeafStays.
    ASSUME NEW p, NEW r, \A pt, pg : OnPath(p, pt, pg) => OnPath(r, pt, pg),
           NEW e, NEW m, NEW n, LeafOf(p, e, m, n)
    PROVE  LeafOf(r, e, m, n)
  BY <1>LeafStays, Zenon DEF LeafOf, Leaf
\* Adding page n of mapping k keeps Leaves and Complete, and completes the page.
<1>AddedPage.
    ASSUME NEW ms \in Seq(Requests), NEW c \in [mapping: Nat \ {0}, page: Nat],
           NEW p \in Plans, NEW r, NEW m, c.mapping \in 1..Len(ms), m = ms[c.mapping],
           m.mapped, c.page \in 0..(length(m.virtual) - 1),
           Leaves(p, ms), Complete(p, ms, c),
           PageAdded(p, m.virtual.start + c.page, m.physical.start + c.page,
                     for_leaf(m.permissions, m.cache), r)
    PROVE  /\ r \in Plans /\ Structure(r) /\ Leaves(r, ms) /\ Complete(r, ms, c)
           /\ \E i \in 1..Len(r.entries) : LeafOf(r, r.entries[i], m, c.page)
  <2> USE <1>AddedPage
  <2>1. /\ r \in Plans /\ Structure(r)
        /\ \A pt, pg : OnPath(p, pt, pg) => OnPath(r, pt, pg)
        /\ \A i \in 1..Len(p.entries) :
             i \in 1..Len(r.entries) /\ r.entries[i] = p.entries[i]
        /\ \E k \in 1..Len(r.entries) :
             /\ Leaf(r, r.entries[k], m.virtual.start + c.page, m.physical.start + c.page,
                     for_leaf(m.permissions, m.cache))
             /\ \A i \in 1..Len(r.entries) :
                  i \in 1..Len(p.entries) \/ r.entries[i].kind = "TableSlot" \/ i = k
    <3>1. PICK page, frame, flags :
            /\ page = m.virtual.start + c.page /\ frame = m.physical.start + c.page
            /\ flags = for_leaf(m.permissions, m.cache)
      BY Zenon
    <3>2. PageAdded(p, page, frame, flags, r)
      BY <3>1, Zenon
    <3>3. /\ r \in Plans /\ Structure(r)
          /\ \A pt, pg : OnPath(p, pt, pg) => OnPath(r, pt, pg)
          /\ \A i \in 1..Len(p.entries) :
               i \in 1..Len(r.entries) /\ r.entries[i] = p.entries[i]
          /\ \E k \in 1..Len(r.entries) :
               /\ Leaf(r, r.entries[k], page, frame, flags)
               /\ \A i \in 1..Len(r.entries) :
                    i \in 1..Len(p.entries) \/ r.entries[i].kind = "TableSlot" \/ i = k
      BY <3>2, <1>AddedFacts
    <3> QED
      BY <3>1, <3>3, ZenonT(60)
  <2>2. PICK k \in 1..Len(r.entries) :
          /\ LeafOf(r, r.entries[k], m, c.page)
          /\ \A i \in 1..Len(r.entries) :
               i \in 1..Len(p.entries) \/ r.entries[i].kind = "TableSlot" \/ i = k
    BY <2>1, Zenon DEF LeafOf
  <2>3. c.page \in Nat
    BY Zenon
  <2>4. ASSUME NEW i \in 1..Len(r.entries), r.entries[i].kind = "PhysicalFrame"
        PROVE  \E l \in 1..Len(ms), n \in Nat : LeafOf(r, r.entries[i], ms[l], n)
    <3>1. CASE i = k
      BY <2>2, <2>3, <3>1, Zenon
    <3>2. CASE i \in 1..Len(p.entries)
      <4>1. r.entries[i] = p.entries[i]
        BY <2>1, <3>2, Zenon
      <4>2. PICK l \in 1..Len(ms), n \in Nat : LeafOf(p, p.entries[i], ms[l], n)
        BY <2>4, <3>2, <4>1, Zenon DEF Leaves
      <4>3. LeafOf(r, r.entries[i], ms[l], n)
        BY <2>1, <4>1, <4>2, <1>LeafStays, Zenon
      <4> QED
        BY <4>3, Zenon
    <3>3. r.entries[i].kind # "TableSlot"
      BY <2>4, Zenon
    <3> QED
      BY <2>2, <3>1, <3>2, <3>3, Zenon
  <2>5. ASSUME NEW l \in 1..Len(ms), NEW n \in Nat, ms[l].mapped,
               n \in 0..(length(ms[l].virtual) - 1), Passed(c, l, n)
        PROVE  \E i \in 1..Len(r.entries) : LeafOf(r, r.entries[i], ms[l], n)
    <3>1. PICK i \in 1..Len(p.entries) : LeafOf(p, p.entries[i], ms[l], n)
      BY <2>5, Zenon DEF Complete
    <3>2. i \in 1..Len(r.entries) /\ r.entries[i] = p.entries[i]
      BY <2>1, ZenonT(60)
    <3>3. LeafOf(r, r.entries[i], ms[l], n)
      BY <2>1, <3>1, <3>2, <1>LeafStays, Zenon
    <3> QED
      BY <3>2, <3>3, Zenon
  <2>6. Leaves(r, ms) /\ Complete(r, ms, c)
    BY <2>4, <2>5, ZenonT(60) DEF Leaves, Complete
  <2> QED
    BY <2>1, <2>2, <2>6, Zenon
\* The cursor may go on when the page it stands on has its leaf.
<1>CursorMoves.
    ASSUME NEW ms \in Seq(Requests), NEW c \in [mapping: Nat \ {0}, page: Nat], NEW p,
           NEW d \in [mapping: Nat \ {0}, page: Nat],
           c.mapping \in 1..Len(ms), \A k \in 1..Len(ms) : Sound(ms[k]),
           CursorInside(ms, c), Complete(p, ms, c),
           ms[c.mapping].mapped =>
             \E i \in 1..Len(p.entries) : LeafOf(p, p.entries[i], ms[c.mapping], c.page),
           \/ /\ ~ms[c.mapping].mapped
                 \/ ms[c.mapping].virtual.start + c.page + 1 = ms[c.mapping].virtual.end
              /\ d.mapping = c.mapping + 1 /\ d.page = 0
           \/ /\ ms[c.mapping].mapped
              /\ ms[c.mapping].virtual.start + c.page + 1 # ms[c.mapping].virtual.end
              /\ d.mapping = c.mapping /\ d.page = c.page + 1
    PROVE  CursorInside(ms, d) /\ Complete(p, ms, d)
  <2> USE <1>CursorMoves
  <2>1. PICK m \in Requests : m = ms[c.mapping]
    OBVIOUS
  <2>2. PICK vs \in Nat, ve \in Nat : vs = m.virtual.start /\ ve = m.virtual.end
    BY ZenonT(60) DEF Requests, Ranges
  <2>3. length(m.virtual) = ve - vs
    BY <2>2, Zenon DEF length
  <2>4. PICK cm \in Nat, cp \in Nat : cm = c.mapping /\ cp = c.page
    BY Zenon
  <2>5. CursorInside(ms, d)
    <3>1. CASE d.mapping = c.mapping /\ d.page = c.page + 1
      <4>1. m.mapped /\ vs + cp + 1 # ve
        BY <2>1, <2>2, <2>4, <3>1, SMTT(30)
      <4>2. cp < ve - vs
        BY <2>1, <2>3, <2>4, <4>1, SMTT(30) DEF CursorInside
      <4>3. cp + 1 < ve - vs
        BY <4>1, <4>2, SMTT(30)
      <4> QED
        BY <2>1, <2>3, <2>4, <3>1, <4>1, <4>3, ZenonT(30) DEF CursorInside
    <3>2. CASE d.mapping = c.mapping + 1 /\ d.page = 0
      <4>1. ASSUME d.mapping <= Len(ms) PROVE 0 < length(ms[d.mapping].virtual)
        <5>1. d.mapping \in 1..Len(ms)
          BY <4>1
        <5>2. PICK q \in Requests : q = ms[d.mapping]
          BY <5>1
        <5>3. q.virtual.start \in Nat /\ q.virtual.end \in Nat
          BY Zenon DEF Requests, Ranges
        <5>4. q.virtual.start < q.virtual.end
          BY <5>1, <5>2, Zenon DEF Sound
        <5> QED
          BY <5>2, <5>3, <5>4, SMTT(30) DEF length
      <4> QED
        BY <3>2, <4>1, Zenon DEF CursorInside
    <3> QED
      BY <3>1, <3>2, Zenon
  <2>6. ASSUME NEW k \in 1..Len(ms), NEW n \in Nat, ms[k].mapped,
               n \in 0..(length(ms[k].virtual) - 1), Passed(d, k, n)
        PROVE  \E i \in 1..Len(p.entries) : LeafOf(p, p.entries[i], ms[k], n)
    <3>1. CASE Passed(c, k, n)
      BY <2>6, <3>1, Zenon DEF Complete
    <3>2. CASE k = c.mapping /\ n = c.page
      BY <2>6, <3>2, Zenon
    <3>3. Passed(c, k, n) \/ (k = c.mapping /\ n = c.page)
      <4>1. CASE d.mapping = c.mapping /\ d.page = c.page + 1
        BY <2>6, <4>1, SMTT(30) DEF Passed
      <4>2. CASE d.mapping = c.mapping + 1 /\ d.page = 0
        <5>1. k <= cm
          BY <2>4, <2>6, <4>2, SMTT(30) DEF Passed
        <5>2. CASE k < cm
          BY <2>4, <5>2, Zenon DEF Passed
        <5>3. CASE k = cm
          <6>1. m.mapped /\ vs + cp + 1 = ve
            BY <2>1, <2>2, <2>4, <2>6, <4>2, <5>3, SMTT(30)
          <6>2. n <= ve - vs - 1
            BY <2>1, <2>3, <2>4, <2>6, <5>3, SMTT(30)
          <6>3. n <= cp
            BY <6>1, <6>2
          <6> QED
            BY <2>4, <5>3, <6>3 DEF Passed
        <5> QED
          BY <5>1, <5>2, <5>3
      <4> QED
        BY <4>1, <4>2, Zenon
    <3> QED
      BY <3>1, <3>2, <3>3, Zenon
  <2>7. Complete(p, ms, d)
    BY <2>6, Zenon DEF Complete
  <2> QED
    BY <2>5, <2>7, Zenon
<1> HAVE IInv /\ add_mapping
<1>1. stage = "building" /\ cursor.mapping <= Len(mappings)
  BY Zenon DEF add_mapping
<1>2. PICK c : c = cursor
  BY Zenon
<1>3. PICK p : p = plan
  OBVIOUS
<1>4. PICK ms : ms = mappings
  OBVIOUS
<1>5. /\ Policy(ms) /\ ms \in Seq(Requests) /\ c \in [mapping: Nat \ {0}, page: Nat]
      /\ p \in Plans /\ Structure(p) /\ Recorded(p)
      /\ CursorInside(ms, c) /\ Leaves(p, ms) /\ Complete(p, ms, c)
  BY <1>2, <1>3, <1>4, Zenon DEF IInv, Policy
<1>6. c.mapping \in 1..Len(ms)
  BY <1>1, <1>2, <1>4, <1>5
<1>7. PICK m \in Requests : m = ms[c.mapping]
  BY <1>5, <1>6
<1>8. PICK page, frame : page = m.virtual.start + c.page /\ frame = m.physical.start + c.page
  BY Zenon
<1>9. PICK next : next = insert_page(p, page, frame, m.permissions, m.cache)
  BY Zenon
<1>10. CASE \E why : Refuse(why)
  BY <1>10, RefuseIInv, Zenon
<1>11. CASE /\ m.mapped => next.error = "none"
            /\ plan' = IF m.mapped THEN next ELSE plan
            /\ cursor' = IF ~m.mapped \/ page + 1 = m.virtual.end
                           THEN [mapping |-> cursor.mapping + 1, page |-> 0]
                         ELSE [cursor EXCEPT !.page = @ + 1]
            /\ UNCHANGED <<caller, mappings, stage, error>>
  <2>1. PICK d : d = cursor'
    BY Zenon
  <2>2. d = IF ~m.mapped \/ page + 1 = m.virtual.end
              THEN [mapping |-> c.mapping + 1, page |-> 0]
            ELSE [c EXCEPT !.page = @ + 1]
    BY <1>2, <1>11, <2>1, Zenon
  <2>3. /\ d \in [mapping: Nat \ {0}, page: Nat]
        /\ ~m.mapped \/ page + 1 = m.virtual.end => d.mapping = c.mapping + 1 /\ d.page = 0
        /\ ~(~m.mapped \/ page + 1 = m.virtual.end) =>
             d.mapping = c.mapping /\ d.page = c.page + 1
    BY <1>5, <2>2
  <2>4. PICK r : r = plan'
    OBVIOUS
  <2>5. /\ r \in Plans /\ Structure(r) /\ Recorded(r) /\ Leaves(r, ms) /\ Complete(r, ms, c)
        /\ m.mapped => \E i \in 1..Len(r.entries) : LeafOf(r, r.entries[i], m, c.page)
    <3>1. CASE ~m.mapped
      <4>1. r = p
        BY <1>3, <1>11, <2>4, <3>1, ZenonT(30)
      <4> QED
        BY <1>5, <3>1, <4>1, Zenon
    <3>2. CASE m.mapped
      <4>1. r = next /\ r.error = "none"
        BY <1>11, <2>4, <3>2, Zenon
      <4>2. m.virtual.start \in Nat /\ m.virtual.end \in Nat /\ m.physical.start \in Nat
        BY Zenon DEF Requests, Ranges
      <4>3. page \in Nat /\ frame \in Nat /\ c.page \in Nat
        BY <1>5, <1>8, <4>2, SMTT(30)
      <4>4. c.page \in 0..(length(m.virtual) - 1)
        <5>1. c.page < length(m.virtual)
          BY <1>6, <1>5, <1>7, <3>2 DEF CursorInside
        <5>2. length(m.virtual) \in Int
          BY <4>2 DEF length
        <5> QED
          BY <4>3, <5>1, <5>2
      <4>5. /\ PageAdded(p, page, frame, for_leaf(m.permissions, m.cache), r)
            /\ Recorded(r)
        BY <1>5, <1>9, <4>1, <4>3, InsertPage, SMTT(30)
      <4>6. PageAdded(p, m.virtual.start + c.page, m.physical.start + c.page,
                      for_leaf(m.permissions, m.cache), r)
        BY <1>8, <4>5, Zenon
      <4>7. /\ r \in Plans /\ Structure(r) /\ Leaves(r, ms) /\ Complete(r, ms, c)
            /\ \E i \in 1..Len(r.entries) : LeafOf(r, r.entries[i], m, c.page)
        BY <1>5, <1>6, <1>7, <3>2, <4>4, <4>6, <1>AddedPage, SMTT(60)
      <4> QED
        BY <4>5, <4>7, Zenon
    <3> QED
      BY <3>1, <3>2, Zenon
  <2>6. CursorInside(ms, d) /\ Complete(r, ms, d)
    <3>1. \A k \in 1..Len(ms) : Sound(ms[k])
      BY <1>5, ZenonT(30) DEF Policy
    <3>2. \/ /\ ~ms[c.mapping].mapped
                \/ ms[c.mapping].virtual.start + c.page + 1 = ms[c.mapping].virtual.end
             /\ d.mapping = c.mapping + 1 /\ d.page = 0
          \/ /\ ms[c.mapping].mapped
             /\ ms[c.mapping].virtual.start + c.page + 1 # ms[c.mapping].virtual.end
             /\ d.mapping = c.mapping /\ d.page = c.page + 1
      BY <1>7, <1>8, <2>3, Zenon
    <3>3. ms[c.mapping].mapped =>
            \E i \in 1..Len(r.entries) : LeafOf(r, r.entries[i], ms[c.mapping], c.page)
      BY <1>7, <2>5, Zenon
    <3> QED
      BY <1>5, <1>6, <2>3, <2>5, <3>1, <3>2, <3>3, <1>CursorMoves, ZenonT(60)
  <2> QED
    BY <1>1, <1>4, <1>11, <2>1, <2>3, <2>4, <2>5, <2>6, ZenonT(30) DEF IInv
<1> QED
  <2>1. /\ m = mappings[cursor.mapping] /\ page = m.virtual.start + cursor.page
        /\ next = insert_page(plan, page, m.physical.start + cursor.page,
                              m.permissions, m.cache)
    BY <1>2, <1>3, <1>4, <1>7, <1>8, <1>9, ZenonT(60)
  <2> QED
    BY <2>1, <1>10, <1>11, AddMappingCases, Zenon

\* Every step keeps the invariant.
LEMMA NextIInv == IInv /\ [Next]_vars => IInv'
<1>1. SUFFICES ASSUME IInv, [Next]_vars PROVE IInv'
  BY Zenon
<1>2. ASSUME caller.requests # <<>> PROVE Head(caller.requests) \in Requests
  <2>1. PICK t \in Seq(Requests) : t = caller.requests
    BY <1>1, Zenon DEF IInv
  <2> QED
    BY <1>2, <2>1
<1>3. CASE insert_mapping
  <2>1. stage = "mapping" /\ caller.requests # <<>>
    BY <1>3, Zenon DEF insert_mapping
  <2>2. PICK m \in Requests : m = Head(caller.requests)
    BY <1>2, <2>1, Zenon
  <2>3. insert(m, insert_mapping_ok(m))
    BY <1>3, <2>2, Zenon DEF insert_mapping
  <2> QED
    BY <1>1, <2>1, <2>3, InsertIInv, Zenon
<1>4. CASE insert_guard
  <2>1. stage = "mapping" /\ caller.requests # <<>>
    BY <1>4, Zenon DEF insert_guard
  <2>2. PICK m \in Requests : m = Head(caller.requests) /\ ~m.mapped
    BY <1>2, <1>4, <2>1, Zenon DEF insert_guard
  <2>3. insert(m, insert_guard_ok(m))
    BY <1>4, <2>2, Zenon DEF insert_guard
  <2> QED
    BY <1>1, <2>1, <2>2, <2>3, InsertIInv, Zenon
<1>5. CASE begin
  BY <1>1, <1>5, BeginIInv, Zenon
<1>6. CASE add_mapping
  BY <1>1, <1>6, AddMappingIInv, Zenon
<1>7. CASE finish
  <2>1. CASE stage' = "built" /\ UNCHANGED <<caller, mappings, cursor, plan, error>>
    <3>1. stage = "building" /\ cursor.mapping > Len(mappings)
      BY <1>7, Zenon DEF finish
    <3> QED
      BY <1>1, <2>1, <3>1, Zenon DEF IInv
  <2>2. CASE Refuse("MissingParent")
    BY <1>1, <2>2, RefuseIInv, ZenonT(30)
  <2> QED
    BY <1>7, <2>1, <2>2, ZenonT(30) DEF finish
<1>8. CASE UNCHANGED vars
  BY <1>1, <1>8, Zenon DEF IInv, vars
<1> QED
  BY <1>1, <1>3, <1>4, <1>5, <1>6, <1>7, <1>8, ZenonT(30) DEF Next, Plan, Ended

\* The invariant holds throughout.
LEMMA AlwaysIInv == Spec => []IInv
  BY InitIInv, NextIInv, PTL DEF Spec

==============================================================================
