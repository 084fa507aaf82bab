---------------------------- MODULE PagePlanProofs -----------------------------
(***************************************************************************)
(* What the invariant of module PagePlanInvariant gives: the tables that    *)
(* ConstructionPlan::build plans translate as the mapping plan says and     *)
(* keep its protections, and their removals clear the low half and nothing  *)
(* else.                                                                    *)
(*                                                                         *)
(* The second part is about PageTables: tables that verify accepted in      *)
(* memory translate as planned.  SInv adds to the plan what the             *)
(* verification compares with; TInv says what it has seen of the memory.    *)
(***************************************************************************)
EXTENDS PagePlanInvariant, PageTables

\* The numbers of a mapping are natural numbers.
LEMMA MappingTypes ==
  ASSUME IInv, NEW k \in 1..Len(mappings)
  PROVE  /\ mappings[k] \in Requests /\ Sound(mappings[k])
         /\ mappings[k].virtual.start \in Nat /\ mappings[k].virtual.end \in Nat
         /\ mappings[k].physical.start \in Nat /\ mappings[k].physical.end \in Nat
<1>1. mappings \in Seq(Requests) /\ Sound(mappings[k])
  BY Zenon DEF IInv, Policy
<1>2. PICK m \in Requests : m = mappings[k]
  BY <1>1
<1> QED
  BY <1>1, <1>2, ZenonT(30) DEF Requests, Ranges

\* Two mappings that cover one page are the same.
LEMMA OneMapping ==
  ASSUME IInv, NEW k \in 1..Len(mappings), NEW l \in 1..Len(mappings), NEW page \in Nat,
         contains(mappings[k].virtual, page), contains(mappings[l].virtual, page)
  PROVE  k = l
<1>1. k # l => Apart(mappings[k], mappings[l])
  BY Zenon DEF IInv, Policy
<1>2. virtual_overlap(mappings[k], mappings[l])
  <2>1. PICK a \in Ranges, b \in Ranges : a = mappings[k].virtual /\ b = mappings[l].virtual
    BY MappingTypes, Zenon DEF Requests
  <2>2. a.start \in Nat /\ a.end \in Nat /\ b.start \in Nat /\ b.end \in Nat
    BY Zenon DEF Ranges
  <2>3. a.start <= page /\ page < a.end /\ b.start <= page /\ page < b.end
    BY <2>1, Zenon DEF contains
  <2>4. a.start < b.end /\ b.start < a.end
    BY <2>2, <2>3, SMTT(30)
  <2> QED
    BY <2>1, <2>4, Zenon DEF virtual_overlap, overlaps
<1> QED
  BY <1>1, <1>2, Zenon DEF Apart

\* A page of a mapping lies in its range.
LEMMA LeafInside ==
  ASSUME IInv, NEW e, NEW k \in 1..Len(mappings), NEW n \in Nat,
         LeafOf(plan, e, mappings[k], n)
  PROVE  /\ mappings[k].mapped
         /\ mappings[k].virtual.start + n \in Nat
         /\ contains(mappings[k].virtual, mappings[k].virtual.start + n)
         /\ contains(mappings[k].physical, mappings[k].physical.start + n)
<1>1. PICK vs \in Nat, ve \in Nat, ps \in Nat, pe \in Nat :
        /\ vs = mappings[k].virtual.start /\ ve = mappings[k].virtual.end
        /\ ps = mappings[k].physical.start /\ pe = mappings[k].physical.end
  BY MappingTypes, ZenonT(60)
<1>2. mappings[k].mapped /\ n \in 0..(length(mappings[k].virtual) - 1)
  BY Zenon DEF LeafOf
<1>3. length(mappings[k].virtual) = ve - vs /\ length(mappings[k].physical) = pe - ps
  BY <1>1, Zenon DEF length
<1>4. ve - vs = pe - ps
  BY <1>2, <1>3, MappingTypes, Zenon DEF Sound
<1>5. n < ve - vs
  BY <1>2, <1>3
<1>6. /\ vs + n \in Nat /\ vs <= vs + n /\ vs + n < ve
      /\ ps <= ps + n /\ ps + n < pe
  BY <1>4, <1>5
<1> QED
  BY <1>1, <1>2, <1>6, Zenon DEF contains

\* The leaf at the end of a walk is the leaf of that page of its mapping.
LEMMA WalkOrigin ==
  \A page \in Nat : \A e \in leaf_entry(plan, page) :
    IInv =>
        \E k \in 1..Len(mappings), n \in Nat :
        LeafOf(plan, e, mappings[k], n) /\ mappings[k].virtual.start + n = page
\* The four indices of a page determine it (VirtualAddress::indices).
<1>SamePage.
    ASSUME NEW p \in Nat, NEW q \in Nat,
           virtual_address_indices(p)[1] = virtual_address_indices(q)[1],
           virtual_address_indices(p)[2] = virtual_address_indices(q)[2],
           virtual_address_indices(p)[3] = virtual_address_indices(q)[3],
           virtual_address_indices(p)[4] = virtual_address_indices(q)[4]
    PROVE  p = q
  <2> USE <1>SamePage
  <2> DEFINE up(n) == n \div COUNT
  <2>1. \A n \in Nat : up(n) \in Nat /\ n = COUNT * up(n) + (n % COUNT)
    BY CountType, Division, Zenon
  <2>2. /\ up(up(up(p))) = up(up(up(q))) /\ up(up(p)) % COUNT = up(up(q)) % COUNT
        /\ up(p) % COUNT = up(q) % COUNT /\ p % COUNT = q % COUNT
    BY Zenon DEF virtual_address_indices
  <2> HIDE DEF up
  <2>3. up(p) \in Nat /\ up(q) \in Nat /\ up(up(p)) \in Nat /\ up(up(q)) \in Nat
    BY <2>1, Zenon
  <2>4. up(up(p)) = up(up(q))
    BY <2>1, <2>2, <2>3, Zenon
  <2>5. up(p) = up(q)
    BY <2>1, <2>2, <2>3, <2>4
  <2> QED
    BY <2>1, <2>2, <2>5, Zenon
\* A leaf belongs to one page only.
<1>OnePage.
    ASSUME NEW p \in Plans, NEW pt, NEW a \in Nat, NEW b \in Nat,
           OnPath(p, pt, a), OnPath(p, pt, b),
           virtual_address_indices(a)[4] = virtual_address_indices(b)[4]
    PROVE  a = b
  <2> USE <1>OnePage
  <2>1. PICK a1, a2 :
          /\ Below(p, 0, virtual_address_indices(a)[1], a1)
          /\ Below(p, a1, virtual_address_indices(a)[2], a2)
          /\ Below(p, a2, virtual_address_indices(a)[3], pt)
    BY Zenon DEF OnPath
  <2>2. PICK b1, b2 :
          /\ Below(p, 0, virtual_address_indices(b)[1], b1)
          /\ Below(p, b1, virtual_address_indices(b)[2], b2)
          /\ Below(p, b2, virtual_address_indices(b)[3], pt)
    BY ZenonT(60) DEF OnPath
  <2>3. a2 = b2 /\ virtual_address_indices(a)[3] = virtual_address_indices(b)[3]
    BY <2>1, <2>2, Zenon DEF Below
  <2>4. a1 = b1 /\ virtual_address_indices(a)[2] = virtual_address_indices(b)[2]
    BY <2>1, <2>2, <2>3, ZenonT(30) DEF Below
  <2>5. virtual_address_indices(a)[1] = virtual_address_indices(b)[1]
    BY <2>1, <2>2, <2>4, Zenon DEF Below
  <2> QED
    BY <2>3, <2>4, <2>5, <1>SamePage, Zenon
<1> TAKE page \in Nat
<1> TAKE e \in leaf_entry(plan, page)
<1> HAVE IInv
<1>1. plan \in Plans /\ Structure(plan) /\ Leaves(plan, mappings)
  BY Zenon DEF IInv
<1>2. PICK i \in 1..Len(plan.entries) :
        /\ e = plan.entries[i] /\ e.kind = "PhysicalFrame"
        /\ e.index = virtual_address_indices(page)[4]
        /\ OnPath(plan, e.table_slot, page)
  BY <1>1, WalkEnds, ZenonT(30)
<1>3. PICK k \in 1..Len(mappings), n \in Nat : LeafOf(plan, e, mappings[k], n)
  BY <1>1, <1>2, Zenon DEF Leaves
<1>4. mappings[k].virtual.start + n \in Nat
  BY <1>3, LeafInside, Zenon
<1>5. /\ e.index = virtual_address_indices(mappings[k].virtual.start + n)[4]
      /\ OnPath(plan, e.table_slot, mappings[k].virtual.start + n)
  BY <1>3, Zenon DEF LeafOf, Leaf
<1>6. mappings[k].virtual.start + n = page
  BY <1>1, <1>2, <1>4, <1>5, <1>OnePage, ZenonT(60)
<1> QED
  BY <1>3, <1>6, Zenon

\* The flags of a leaf say what the permissions and the cache policy say.
LEMMA FlagsOfLeaf ==
  ASSUME NEW permissions, NEW cache
  PROVE  LET flags == for_leaf(permissions, cache)
         IN /\ ("WRITABLE" \in flags) = ("WRITE" \in permissions)
            /\ ("NO_EXECUTE" \in flags) = ("EXECUTE" \notin permissions)
            /\ ("CACHE_DISABLE" \in flags) = (cache = "Uncached")
  BY DEF for_leaf

\* For every caller and every capacity: no frame is writable through one leaf
\* and executable or read-only through another, and the page below the stack of
\* a final plan has no leaf (MappingPlan::insert, ConstructionPlan::build).
THEOREM PlansKeepProtections == Spec => []ProtectionsHold
\* Two leaves of one frame: neither lets it be written behind the other's back.
<1>OneWriter.
    ASSUME IInv, NEW e, NEW f, NEW k \in 1..Len(mappings), NEW l \in 1..Len(mappings),
           NEW n \in Nat, NEW o \in Nat,
           LeafOf(plan, e, mappings[k], n), LeafOf(plan, f, mappings[l], o),
           e.value = f.value
    PROVE  /\ ("WRITABLE" \in e.flags) = ("WRITABLE" \in f.flags)
           /\ "WRITABLE" \in e.flags => "NO_EXECUTE" \in f.flags
  <2> USE <1>OneWriter
  <2>1. /\ mappings[k].mapped /\ mappings[l].mapped
        /\ contains(mappings[k].physical, mappings[k].physical.start + n)
        /\ contains(mappings[l].physical, mappings[l].physical.start + o)
    BY LeafInside, ZenonT(60)
  <2>2. PICK P, Q, c, d : /\ P = mappings[k].permissions /\ c = mappings[k].cache
                          /\ Q = mappings[l].permissions /\ d = mappings[l].cache
    BY ZenonT(30)
  <2>3. /\ e.value = mappings[k].physical.start + n /\ e.flags = for_leaf(P, c)
        /\ f.value = mappings[l].physical.start + o /\ f.flags = for_leaf(Q, d)
    BY <2>2, Zenon DEF LeafOf, Leaf
  <2>4. /\ ("WRITABLE" \in e.flags) = ("WRITE" \in P)
        /\ ("WRITABLE" \in f.flags) = ("WRITE" \in Q)
        /\ ("NO_EXECUTE" \in f.flags) = ("EXECUTE" \notin Q)
    BY <2>3, FlagsOfLeaf
  <2>5. CASE k = l
    <3>1. P = Q
      BY <2>2, <2>5, ZenonT(30)
    <3>2. ~("WRITE" \in Q /\ "EXECUTE" \in Q)
      BY <2>1, <2>2, MappingTypes, ZenonT(30) DEF Sound, from_bits_ok
    <3> QED
      BY <2>4, <3>1, <3>2, Zenon
  <2>6. CASE k # l
    <3>1. ~alias_refused(mappings[k], mappings[l])
      BY <2>6, Zenon DEF IInv, Policy, Apart
    <3>2. overlaps(mappings[k].physical, mappings[l].physical)
      <4>1. PICK a \in Ranges, b \in Ranges :
              a = mappings[k].physical /\ b = mappings[l].physical
        BY MappingTypes, Zenon DEF Requests
      <4>2. a.start \in Nat /\ a.end \in Nat /\ b.start \in Nat /\ b.end \in Nat
        BY Zenon DEF Ranges
      <4>3. PICK frame : frame = e.value
        BY Zenon
      <4>4. frame = a.start + n /\ frame = b.start + o
        BY <2>3, <4>1, <4>3, ZenonT(60)
      <4>5. contains(a, frame) /\ contains(b, frame)
        BY <2>1, <4>1, <4>4, Zenon
      <4>6. a.start < b.end /\ b.start < a.end
        BY <4>2, <4>4, <4>5, SMTT(30) DEF contains
      <4> QED
        BY <4>1, <4>6, Zenon DEF overlaps
    <3>3. /\ ("WRITE" \in P) = ("WRITE" \in Q)
          /\ ~("WRITE" \in P /\ "EXECUTE" \in Q)
      BY <2>1, <2>2, <3>1, <3>2, Zenon DEF alias_refused
    <3> QED
      BY <2>4, <3>3, Zenon
  <2> QED
    BY <2>5, <2>6, Zenon
<1>1. IInv => FramesHaveOneWriter
  <2>1. SUFFICES ASSUME IInv, NEW e \in LeafEntries, NEW f \in LeafEntries,
                        e.value = f.value
                 PROVE  /\ ("WRITABLE" \in e.flags) = ("WRITABLE" \in f.flags)
                        /\ "WRITABLE" \in e.flags => "NO_EXECUTE" \in f.flags
    BY ZenonT(60) DEF FramesHaveOneWriter
  <2>2. \A x \in LeafEntries : \E k \in 1..Len(mappings), n \in Nat :
          LeafOf(plan, x, mappings[k], n)
    <3>1. SUFFICES ASSUME NEW x \in LeafEntries
                   PROVE  \E k \in 1..Len(mappings), n \in Nat :
                            LeafOf(plan, x, mappings[k], n)
      BY Zenon
    <3>2. PICK i \in 1..Len(plan.entries) : x = plan.entries[i] /\ x.kind = "PhysicalFrame"
      BY Zenon DEF LeafEntries
    <3> QED
      BY <2>1, <3>2, Zenon DEF IInv, Leaves
  <2>3. PICK k \in 1..Len(mappings), n \in Nat : LeafOf(plan, e, mappings[k], n)
    BY <2>2, Zenon
  <2>4. PICK l \in 1..Len(mappings), o \in Nat : LeafOf(plan, f, mappings[l], o)
    BY <2>2, Zenon
  <2> QED
    BY <2>1, <2>3, <2>4, <1>OneWriter, Zenon
<1>2. IInv => StackIsGuarded
  <2>1. SUFFICES ASSUME IInv, stage = "built", caller.mode = "Final",
                        NEW i \in 1..Len(mappings), mappings[i].kind = "BootstrapStack",
                        NEW e \in leaf_entry(plan, mappings[i].virtual.start - 1)
                 PROVE  FALSE
    BY ZenonT(60) DEF StackIsGuarded
  <2>2. PICK j \in 1..Len(mappings) :
          /\ mappings[j].kind = "Guard"
          /\ mappings[j].virtual.start + 1 = mappings[i].virtual.start
          /\ mappings[j].virtual.end = mappings[i].virtual.start
    BY <2>1, Zenon DEF IInv, Guarded
  <2>3. PICK page \in Nat : page = mappings[j].virtual.start
    BY <2>1, MappingTypes, Zenon
  <2>4. mappings[i].virtual.start - 1 = page /\ contains(mappings[j].virtual, page)
    <3>1. mappings[i].virtual.start = page + 1 /\ mappings[j].virtual.end = page + 1
      BY <2>2, <2>3, Zenon
    <3> QED
      BY <2>3, <3>1, SMTT(30) DEF contains
  <2>5. PICK k \in 1..Len(mappings), n \in Nat :
          LeafOf(plan, e, mappings[k], n) /\ mappings[k].virtual.start + n = page
    BY <2>1, <2>4, WalkOrigin, ZenonT(30)
  <2>6. mappings[k].mapped /\ contains(mappings[k].virtual, page)
    BY <2>1, <2>5, LeafInside, Zenon
  <2>7. k = j
    BY <2>1, <2>4, <2>6, OneMapping, ZenonT(60)
  <2> QED
    BY <2>1, <2>2, <2>6, <2>7, MappingTypes, Zenon DEF Sound
<1> QED
  BY <1>1, <1>2, AlwaysIInv, PTL DEF ProtectionsHold

\* The leaf at the end of a walk carries what the mapping says.
LEMMA LeafCarries ==
  ASSUME IInv, NEW page \in Nat, NEW e \in leaf_entry(plan, page)
  PROVE  \E k \in 1..Len(mappings) :
           /\ mappings[k].mapped /\ contains(mappings[k].virtual, page)
           /\ e.value = mappings[k].physical.start + (page - mappings[k].virtual.start)
           /\ e.flags = for_leaf(mappings[k].permissions, mappings[k].cache)
<1>1. PICK k \in 1..Len(mappings), n \in Nat :
        LeafOf(plan, e, mappings[k], n) /\ mappings[k].virtual.start + n = page
  BY WalkOrigin, Zenon
<1>2. mappings[k].mapped /\ contains(mappings[k].virtual, page)
  BY <1>1, LeafInside, Zenon
<1>3. /\ e.value = mappings[k].physical.start + n
      /\ e.flags = for_leaf(mappings[k].permissions, mappings[k].cache)
  BY <1>1, Zenon DEF LeafOf, Leaf
<1>4. mappings[k].virtual.start \in Nat
  BY MappingTypes, Zenon
<1>5. n = page - mappings[k].virtual.start
  BY <1>1, <1>4
<1> QED
  BY <1>2, <1>3, <1>5, Zenon

\* A built plan maps what the mappings say.
LEMMA PlansMatch == IInv => WalkMatchesMappings
\* translate gives the page of the mapping that covers it.
<1>Translates.
    ASSUME IInv, NEW page \in Nat, NEW v
    PROVE  v \in translate(page) <=>
             \E k \in 1..Len(mappings) :
               /\ mappings[k].mapped /\ contains(mappings[k].virtual, page)
               /\ v = mappings[k].physical.start + (page - mappings[k].virtual.start)
  <2> USE <1>Translates
  <2>1. PICK S : S = {i \in 1..Len(mappings) : contains(mappings[i].virtual, page)}
    BY Zenon
  <2>2. translate(page) =
          {mappings[i].physical.start + (page - mappings[i].virtual.start) :
             i \in {j \in FirstOf(S) : mappings[j].mapped}}
    BY <2>1, Zenon DEF translate
  <2>3. S \in SUBSET Nat /\ FirstOf(S) \subseteq S
    <3>1. Len(mappings) \in Nat
      BY DEF IInv, Policy
    <3> QED
      BY <2>1, <3>1 DEF FirstOf
  <2>4. ASSUME NEW k \in S PROVE k \in FirstOf(S)
    <3>1. PICK j : j \in FirstOf(S)
      BY <2>3, <2>4, FirstExists, Zenon
    <3>2. j \in S
      BY <2>3, <3>1, Zenon
    <3>3. j = k
      BY <2>1, <2>4, <3>2, OneMapping, Zenon
    <3> QED
      BY <3>1, <3>3, Zenon
  <2>5. FirstOf(S) = S
    BY <2>3, <2>4, ZenonT(60)
  <2> QED
    BY <2>1, <2>2, <2>5, Zenon
\* A covered page of a built plan has the leaf of its mapping.
<1>CoveredHasLeaf.
    ASSUME IInv, stage = "built", NEW page \in Nat, NEW k \in 1..Len(mappings),
           mappings[k].mapped, contains(mappings[k].virtual, page)
    PROVE  \E e \in leaf_entry(plan, page) :
             e.value = mappings[k].physical.start + (page - mappings[k].virtual.start)
  <2> USE <1>CoveredHasLeaf
  <2>1. plan \in Plans /\ Structure(plan) /\ Complete(plan, mappings, cursor)
        /\ cursor.mapping > Len(mappings) /\ cursor.mapping \in Nat
    BY Zenon DEF IInv
  <2>2. PICK vs \in Nat, ve \in Nat :
          vs = mappings[k].virtual.start /\ ve = mappings[k].virtual.end
    BY MappingTypes, Zenon
  <2>3. vs <= page /\ page < ve
    BY <2>2, Zenon DEF contains
  <2>4. PICK n \in Nat : n = page - vs
    BY <2>3
  <2>5. n \in 0..(length(mappings[k].virtual) - 1) /\ vs + n = page
    <3>1. length(mappings[k].virtual) = ve - vs
      BY <2>2, Zenon DEF length
    <3> QED
      BY <2>3, <2>4, <3>1
  <2>6. Passed(cursor, k, n)
    <3>1. Len(mappings) \in Nat
      BY DEF IInv, Policy
    <3> QED
      BY <2>1, <3>1 DEF Passed
  <2>7. PICK i \in 1..Len(plan.entries) : LeafOf(plan, plan.entries[i], mappings[k], n)
    BY <2>1, <2>5, <2>6, Zenon DEF Complete
  <2>8. PICK e : e = plan.entries[i]
    BY Zenon
  <2>9. Leaf(plan, e, page, mappings[k].physical.start + n,
             for_leaf(mappings[k].permissions, mappings[k].cache))
    BY <2>2, <2>5, <2>7, <2>8, Zenon DEF LeafOf
  <2>10. /\ e.kind = "PhysicalFrame" /\ e.index = virtual_address_indices(page)[4]
         /\ OnPath(plan, e.table_slot, page)
         /\ e.value = mappings[k].physical.start + n
    BY <2>9, ZenonT(60) DEF Leaf
  <2>11. e \in leaf_entry(plan, page)
    BY <2>1, <2>8, <2>10, WalkEnds, ZenonT(30)
  <2> QED
    BY <2>2, <2>4, <2>10, <2>11, Zenon
<1>1. ASSUME IInv, stage = "built", NEW page \in Nat
      PROVE  /\ {e.value : e \in leaf_entry(plan, page)} = translate(page)
             /\ (Covering(page) = {}) = (translate(page) = {})
             /\ \A m \in Covering(page) : \A e \in leaf_entry(plan, page) :
                  /\ ("WRITABLE" \in e.flags) = ("WRITE" \in m.permissions)
                  /\ ("NO_EXECUTE" \in e.flags) = ("EXECUTE" \notin m.permissions)
                  /\ ("CACHE_DISABLE" \in e.flags) = (m.cache = "Uncached")
                  /\ e.value = m.physical.start + (page - m.virtual.start)
  <2>1. \A v : v \in {e.value : e \in leaf_entry(plan, page)} <=> v \in translate(page)
    <3>1. ASSUME NEW e \in leaf_entry(plan, page) PROVE e.value \in translate(page)
      BY <1>1, LeafCarries, <1>Translates, SMTT(30)
    <3>2. ASSUME NEW v \in translate(page)
          PROVE  \E e \in leaf_entry(plan, page) : v = e.value
      <4>1. PICK k \in 1..Len(mappings) :
              /\ mappings[k].mapped /\ contains(mappings[k].virtual, page)
              /\ v = mappings[k].physical.start + (page - mappings[k].virtual.start)
        BY <1>1, <3>2, <1>Translates, Zenon
      <4> QED
        BY <1>1, <4>1, <1>CoveredHasLeaf, Zenon
    <3> QED
      BY <3>1, <3>2, ZenonT(60)
  <2>2. {e.value : e \in leaf_entry(plan, page)} = translate(page)
    BY <2>1, Zenon
  <2>3. \A m : m \in Covering(page) <=>
          \E k \in 1..Len(mappings) :
            m = mappings[k] /\ mappings[k].mapped /\ contains(mappings[k].virtual, page)
    BY Zenon DEF Covering
  <2>4. (Covering(page) = {}) = (translate(page) = {})
    <3>1. ASSUME NEW m \in Covering(page) PROVE translate(page) # {}
      <4>1. PICK k \in 1..Len(mappings) :
              mappings[k].mapped /\ contains(mappings[k].virtual, page)
        BY <2>3, <3>1, Zenon
      <4>2. mappings[k].physical.start + (page - mappings[k].virtual.start)
              \in translate(page)
        BY <1>1, <4>1, <1>Translates, Zenon
      <4> QED
        BY <4>2, Zenon
    <3>2. ASSUME NEW v \in translate(page) PROVE Covering(page) # {}
      <4>1. PICK k \in 1..Len(mappings) :
              mappings[k].mapped /\ contains(mappings[k].virtual, page)
        BY <1>1, <3>2, <1>Translates, Zenon
      <4>2. mappings[k] \in Covering(page)
        BY <2>3, <4>1, ZenonT(60)
      <4> QED
        BY <4>2, Zenon
    <3> QED
      BY <3>1, <3>2, Zenon
  <2>5. ASSUME NEW m \in Covering(page), NEW e \in leaf_entry(plan, page)
        PROVE  /\ ("WRITABLE" \in e.flags) = ("WRITE" \in m.permissions)
               /\ ("NO_EXECUTE" \in e.flags) = ("EXECUTE" \notin m.permissions)
               /\ ("CACHE_DISABLE" \in e.flags) = (m.cache = "Uncached")
               /\ e.value = m.physical.start + (page - m.virtual.start)
    <3>1. PICK k \in 1..Len(mappings) :
            m = mappings[k] /\ contains(mappings[k].virtual, page)
      BY <2>3, <2>5, Zenon
    <3>2. PICK l \in 1..Len(mappings) :
            /\ contains(mappings[l].virtual, page)
            /\ e.value = mappings[l].physical.start + (page - mappings[l].virtual.start)
            /\ e.flags = for_leaf(mappings[l].permissions, mappings[l].cache)
      BY <1>1, <2>5, LeafCarries, Zenon
    <3>3. k = l
      BY <1>1, <3>1, <3>2, OneMapping, Zenon
    <3>4. e.flags = for_leaf(m.permissions, m.cache)
      BY <3>1, <3>2, <3>3, Zenon
    <3> QED
      BY <3>1, <3>2, <3>3, <3>4, FlagsOfLeaf, SMTT(30)
  <2> QED
    BY <2>2, <2>4, <2>5, ZenonT(60)
<1>2. \A page \in VirtualPages : page \in Nat
  BY DEF VirtualPages
<1> QED
  BY <1>1, <1>2, Zenon DEF WalkMatchesMappings

\* For every caller and every capacity: a plan that ConstructionPlan::build
\* returns maps exactly the pages of the MappingPlan, to its frames, with its
\* permissions and cache policy.
THEOREM PlansTranslate == Spec => []WalkMatchesMappings
  BY PlansMatch, AlwaysIInv, PTL

-----------------------------------------------------------------------------
(* The removals.                                                             *)

\* Clearing the entries that transition_removals lists unmaps every low page
\* and leaves the walk of every high page as it was, for every plan that build
\* returns (push_removal, ensure_child).
THEOREM RemovalsTheorem == Spec => []RemovalsClearTheLowHalf
\* What clearing the listed entries does to a lookup: nothing outside the low
\* half of the root, where it leaves no table.
<1>ClearedFinds.
    ASSUME NEW p \in Plans, Recorded(p), NEW q, q = Cleared(p), NEW slot, NEW index
    PROVE  /\ ~(slot = 0 /\ LowIndex(index)) =>
                find_entry(q, slot, index) = find_entry(p, slot, index)
           /\ slot = 0 /\ LowIndex(index) =>
                \A e \in find_entry(q, slot, index) : e.kind = "Cleared"
  <2> USE <1>ClearedFinds
  <2>1. PICK E \in Seq(Entries), n \in Nat : E = p.entries /\ n = Len(E)
    BY DEF Plans
  <2>2. PICK F : F = [i \in 1..n |-> IF Listed(p, E[i]) THEN [E[i] EXCEPT !.kind = "Cleared"]
                                   ELSE E[i]]
    BY Zenon
  <2>3. q.entries = F
    <3>1. q = [p EXCEPT !.entries = F]
      BY <2>1, <2>2, Zenon DEF Cleared
    <3> QED
      BY <3>1, Zenon DEF Plans
  <2>4. Len(F) = n
    BY <2>2, SMTT(30)
  <2>5. ASSUME NEW i \in 1..n
        PROVE  /\ F[i].table_slot = E[i].table_slot /\ F[i].index = E[i].index
               /\ Listed(p, E[i]) => F[i].kind = "Cleared"
               /\ ~Listed(p, E[i]) => F[i] = E[i]
    <3>1. E[i] \in Entries
      BY <2>1
    <3>2. PICK e \in Entries : e = E[i]
      BY <3>1, Zenon
    <3>3. F[i] = IF Listed(p, e) THEN [e EXCEPT !.kind = "Cleared"] ELSE e
      BY <2>2, <3>2, Zenon
    <3>4. CASE Listed(p, e)
      <4>1. F[i] = [e EXCEPT !.kind = "Cleared"]
        BY <3>3, <3>4, Zenon
      <4>2. F[i].table_slot = e.table_slot /\ F[i].index = e.index /\ F[i].kind = "Cleared"
        BY <4>1, Zenon DEF Entries
      <4> QED
        BY <3>2, <3>4, <4>2, Zenon
    <3>5. CASE ~Listed(p, e)
      <4>1. F[i] = e
        BY <3>3, <3>5, Zenon
      <4> QED
        BY <3>2, <3>5, <4>1, Zenon
    <3> QED
      BY <3>4, <3>5, Zenon
  <2>6. PICK hits : hits = {i \in 1..n : E[i].table_slot = slot /\ E[i].index = index}
    BY Zenon
  <2>7. find_entry(p, slot, index) = {E[i] : i \in FirstOf(hits)}
    BY <2>1, <2>6, Zenon DEF find_entry
  <2>8. find_entry(q, slot, index) = {F[i] : i \in FirstOf(hits)}
    <3>1. hits = {i \in 1..Len(q.entries) :
                    q.entries[i].table_slot = slot /\ q.entries[i].index = index}
      BY <2>3, <2>4, <2>5, <2>6, Zenon
    <3> QED
      BY <2>3, <3>1, Zenon DEF find_entry
  <2>9. \A i \in FirstOf(hits) : i \in 1..n /\ E[i].table_slot = slot /\ E[i].index = index
    BY <2>6, Zenon DEF FirstOf
  <2>10. ASSUME ~(slot = 0 /\ LowIndex(index)), NEW i \in FirstOf(hits)
         PROVE  F[i] = E[i]
    <3>1. ~Listed(p, E[i])
      <4>1. SUFFICES ASSUME Listed(p, E[i]) PROVE FALSE
        BY Zenon
      <4>2. PICK j \in 1..Len(p.removals) :
              p.removals[j].table_slot = slot /\ p.removals[j].index = index
        BY <2>9, <4>1, Zenon DEF Listed
      <4> QED
        BY <2>10, <4>2, Zenon DEF Recorded
    <3> QED
      BY <2>5, <2>9, <3>1, Zenon
  <2>11. ASSUME slot = 0, LowIndex(index), NEW i \in FirstOf(hits)
         PROVE  F[i].kind = "Cleared"
    <3>1. Listed(p, E[i])
      BY <2>1, <2>9, <2>11, ZenonT(30) DEF Recorded
    <3> QED
      BY <2>5, <2>9, <3>1, Zenon
  <2>12. ~(slot = 0 /\ LowIndex(index)) =>
           find_entry(q, slot, index) = find_entry(p, slot, index)
    BY <2>7, <2>8, <2>10, Zenon
  <2>13. slot = 0 /\ LowIndex(index) => \A e \in find_entry(q, slot, index) : e.kind = "Cleared"
    BY <2>8, <2>11, Zenon
  <2> QED
    BY <2>12, <2>13, Zenon
\* A step of a walk never comes back to the root.
<1>NeverTheRoot.
    ASSUME NEW p \in Plans, Structure(p), NEW slot, NEW index,
           NEW e \in find_entry(p, slot, index), e.kind = "TableSlot"
    PROVE  e.value # 0
  <2> USE <1>NeverTheRoot
  <2>1. PICK v : v = e.value
    BY Zenon
  <2>2. Below(p, slot, index, v)
    BY <2>1, WalkStep, Zenon
  <2> QED
    BY <2>1, <2>2, Zenon DEF Below
\* Clearing the removals of a plan unmaps the low pages and no other.
<1>ClearedWalk.
    ASSUME NEW p \in Plans, Structure(p), Recorded(p), NEW page \in Nat
    PROVE  leaf_entry(Cleared(p), page)
             = IF page < HIGH_CANONICAL_START THEN {} ELSE leaf_entry(p, page)
  <2> USE <1>ClearedWalk
  <2>1. PICK q : q = Cleared(p)
    BY Zenon
  <2> DEFINE index == virtual_address_indices(page)
             at(r, slots, i, kind) ==
               {e \in UNION {find_entry(r, slot, index[i]) : slot \in slots} : e.kind = kind}
             below(r, slots, i) == {e.value : e \in at(r, slots, i, "TableSlot")}
  <2>2. leaf_entry(p, page)
          = at(p, below(p, below(p, below(p, {0}, 1), 2), 3), 4, "PhysicalFrame")
    BY Zenon DEF leaf_entry
  <2>3. leaf_entry(q, page)
          = at(q, below(q, below(q, below(q, {0}, 1), 2), 3), 4, "PhysicalFrame")
    BY Zenon DEF leaf_entry
  <2>4. page < HIGH_CANONICAL_START <=> LowIndex(index[1])
    BY LowPage, Zenon
  <2> HIDE DEF index
  <2>5. ASSUME NEW slot, NEW i
        PROVE  /\ ~(slot = 0 /\ LowIndex(index[i])) =>
                    find_entry(q, slot, index[i]) = find_entry(p, slot, index[i])
               /\ slot = 0 /\ LowIndex(index[i]) =>
                    \A e \in find_entry(q, slot, index[i]) : e.kind = "Cleared"
    <3>1. PICK x : x = index[i]
      BY Zenon
    <3>2. /\ ~(slot = 0 /\ LowIndex(x)) => find_entry(q, slot, x) = find_entry(p, slot, x)
          /\ slot = 0 /\ LowIndex(x) =>
               \A e \in find_entry(q, slot, x) : e.kind = "Cleared"
      BY <2>1, <1>ClearedFinds
    <3> QED
      BY <3>1, <3>2, Zenon
  <2>6. ASSUME NEW slots, NEW i, NEW kind,
               \A slot \in slots : ~(slot = 0 /\ LowIndex(index[i]))
        PROVE  at(q, slots, i, kind) = at(p, slots, i, kind)
    <3>1. \A slot \in slots : find_entry(q, slot, index[i]) = find_entry(p, slot, index[i])
      BY <2>5, <2>6, Zenon
    <3>2. \A x : x \in at(q, slots, i, kind) <=> x \in at(p, slots, i, kind)
      BY <3>1, Zenon
    <3> QED
      BY <3>2, Zenon
  <2>7. ASSUME NEW slots, NEW i PROVE 0 \notin below(p, slots, i)
    <3>1. \A slot, e : e \in find_entry(p, slot, index[i]) /\ e.kind = "TableSlot"
                         => e.value # 0
      BY <1>NeverTheRoot, Zenon
    <3> QED
      BY <3>1, Zenon
  <2>8. CASE page < HIGH_CANONICAL_START
    <3>1. at(q, {0}, 1, "TableSlot") = {}
      <4>1. \A e \in find_entry(q, 0, index[1]) : e.kind = "Cleared"
        BY <2>4, <2>5, <2>8, Zenon
      <4> QED
        BY <4>1, Zenon
    <3>2. below(q, {0}, 1) = {}
      BY <3>1, Zenon
    <3>3. \A i, kind : at(q, {}, i, kind) = {}
      BY Zenon
    <3>4. \A i : below(q, {}, i) = {}
      BY <3>3, Zenon
    <3>5. leaf_entry(q, page) = {}
      <4> HIDE DEF at, below
      <4> QED
        BY <2>3, <3>2, <3>3, <3>4, Zenon
    <3> QED
      BY <2>1, <2>8, <3>5, Zenon
  <2>9. CASE ~(page < HIGH_CANONICAL_START)
    <3>1. \A slots, i : (\A slot \in slots : ~(slot = 0 /\ LowIndex(index[i]))) =>
                          below(q, slots, i) = below(p, slots, i)
      <4> HIDE DEF at
      <4> QED
        BY <2>6, Zenon
    <3>2. below(q, {0}, 1) = below(p, {0}, 1)
      <4>1. \A slot \in {0} : ~(slot = 0 /\ LowIndex(index[1]))
        BY <2>4, <2>9, Zenon
      <4> HIDE DEF below
      <4> QED
        BY <3>1, <4>1, Zenon
    <3>3. ASSUME NEW slots, NEW i, NEW j
          PROVE  below(q, below(p, slots, i), j) = below(p, below(p, slots, i), j)
      <4>1. \A slot \in below(p, slots, i) : ~(slot = 0 /\ LowIndex(index[j]))
        <5> HIDE DEF below
        <5> QED
          BY <2>7, Zenon
      <4> HIDE DEF below
      <4> QED
        BY <3>1, <4>1, Zenon
    <3>4. ASSUME NEW slots, NEW i, NEW j, NEW kind
          PROVE  at(q, below(p, slots, i), j, kind) = at(p, below(p, slots, i), j, kind)
      <4> HIDE DEF below, at
      <4>1. \A slot \in below(p, slots, i) : ~(slot = 0 /\ LowIndex(index[j]))
        BY <2>7, Zenon
      <4> QED
        BY <2>6, <4>1, Zenon
    <3>5. leaf_entry(q, page) = leaf_entry(p, page)
      <4> HIDE DEF at, below
      <4>1. PICK S1, S2, S3 : S1 = below(p, {0}, 1) /\ S2 = below(p, S1, 2)
                              /\ S3 = below(p, S2, 3)
        BY Zenon
      <4>2. below(q, {0}, 1) = S1
        BY <3>2, <4>1, Zenon
      <4>3. below(q, S1, 2) = S2
        BY <3>3, <4>1
      <4>4. below(q, S2, 3) = S3
        BY <3>3, <4>1
      <4>5. at(q, S3, 4, "PhysicalFrame") = at(p, S3, 4, "PhysicalFrame")
        BY <3>4, <4>1
      <4>6. leaf_entry(p, page) = at(p, S3, 4, "PhysicalFrame")
        BY <2>2, <4>1, Zenon
      <4>7. leaf_entry(q, page) = at(q, S3, 4, "PhysicalFrame")
        BY <2>3, <4>2, <4>3, <4>4, ZenonT(30)
      <4> QED
        BY <4>5, <4>6, <4>7, Zenon
    <3> QED
      BY <2>1, <2>9, <3>5, Zenon
  <2> QED
    BY <2>8, <2>9, Zenon
<1>1. IInv => RemovalsClearTheLowHalf
  <2>1. SUFFICES ASSUME IInv, NEW page \in VirtualPages
                 PROVE  leaf_entry(Cleared(plan), page)
                          = IF page < HIGH_CANONICAL_START THEN {}
                            ELSE leaf_entry(plan, page)
    BY Zenon DEF RemovalsClearTheLowHalf
  <2>2. PICK n \in Nat : n = page
    BY DEF VirtualPages
  <2>3. PICK p \in Plans : p = plan /\ Structure(p) /\ Recorded(p)
    BY <2>1, Zenon DEF IInv
  <2> QED
    BY <2>2, <2>3, <1>ClearedWalk, Zenon
<1> QED
  BY <1>1, AlwaysIInv, PTL

-----------------------------------------------------------------------------
(* The shape of the tables.                                                  *)

\* The planned tables are in shape and fit their array.
SInv ==
  /\ Shaped(plan)
  /\ stage = "mapping" => Len(plan.tables) = 1
  /\ stage \in {"building", "built"} => Fits(plan)

\* The plan that build starts with is the root alone.
LEMMA InitSInv == Init => SInv
<1>1. SUFFICES ASSUME Init PROVE SInv
  BY Zenon
<1>2. PICK root : root = [level |-> 4, parent_slot |-> 0, parent_index |-> 0]
  BY Zenon
<1>3. plan.tables = <<root>> /\ plan.entries = <<>> /\ plan.removals = <<>>
  BY <1>1, <1>2, Zenon DEF Init, EmptyPlan
<1>4. Len(plan.tables) = 1 /\ plan.tables[1] = root /\ root.level = 4
  BY <1>2, <1>3
<1>5. Len(plan.entries) = 0 /\ Len(plan.removals) = 0
  BY <1>3, Zenon
<1>6. Levelled(plan.tables)
  BY <1>4 DEF Levelled
<1>7. Linked(plan.entries) /\ Matched(plan.entries, plan.removals)
  BY <1>5 DEF Linked, Matched
<1>8. stage = "mapping"
  BY <1>1, Zenon DEF Init
<1> QED
  BY <1>4, <1>6, <1>7, <1>8, Zenon DEF SInv, Shaped

\* The shape is an invariant.
LEMMA NextSInv == IInv /\ SInv /\ [Next]_vars => SInv'
\* An Err leaves the plan alone.
<1>RefuseSInv.
    ASSUME SInv, NEW why, Refuse(why)
    PROVE  SInv'
  <2> USE <1>RefuseSInv
  <2>1. stage' = "refused" /\ plan' = plan
    BY Zenon DEF Refuse
  <2> QED
    BY <2>1, Zenon DEF SInv
\* So does an insertion.
<1>InsertSInv.
    ASSUME SInv, NEW m, NEW allowed, insert(m, allowed)
    PROVE  SInv'
  <2> USE <1>InsertSInv
  <2>1. CASE Refuse("Layout")
    BY <2>1, <1>RefuseSInv, Zenon
  <2>2. CASE UNCHANGED <<stage, cursor, plan, error>>
    BY <2>2, Zenon DEF SInv
  <2> QED
    BY <2>1, <2>2, Zenon DEF insert
\* begin: the root fits.
<1>BeginSInv.
    ASSUME SInv, begin
    PROVE  SInv'
  <2> USE <1>BeginSInv
  <2>1. CASE \E why : Refuse(why)
    BY <2>1, <1>RefuseSInv, Zenon
  <2>2. CASE TABLES # 0 /\ stage' = "building" /\ plan' = plan
    <3>1. TABLES \in Nat
      BY PagePlanAssumption, Zenon
    <3>2. Len(plan.tables) = 1
      BY Zenon DEF SInv, begin
    <3>3. Fits(plan)
      BY <2>2, <3>1, <3>2 DEF Fits
    <3> QED
      BY <2>2, <3>3, Zenon DEF SInv
  <2> QED
    BY <2>1, <2>2, Zenon DEF begin
\* The page the cursor stands on is a virtual page.
<1>CursorPage.
    ASSUME IInv, cursor.mapping <= Len(mappings), NEW m, m = mappings[cursor.mapping], m.mapped
    PROVE  /\ m.virtual.start + cursor.page \in VirtualPages
           /\ m.physical.start + cursor.page \in Nat
  <2> USE <1>CursorPage
  <2>1. cursor.mapping \in 1..Len(mappings) /\ cursor.page \in Nat
    BY SMTT(30) DEF IInv, Policy
  <2>2. PICK vs \in Nat, ve \in Nat, ps \in Nat :
          vs = m.virtual.start /\ ve = m.virtual.end /\ ps = m.physical.start
    BY <2>1, MappingTypes, Zenon
  <2>3. ve <= VirtualEnd
    BY <2>1, <2>2, MappingTypes, Zenon DEF Sound
  <2>4. cursor.page < length(m.virtual)
    BY Zenon DEF IInv, CursorInside
  <2>5. length(m.virtual) = ve - vs
    BY <2>2, Zenon DEF length
  <2>6. COUNT * COUNT * COUNT * COUNT \in Nat
    BY CountType, Z3
  <2>7. PICK n \in Nat, e \in Nat : n = cursor.page /\ e = VirtualEnd
    BY <2>1, <2>6, Zenon DEF VirtualEnd
  <2>8. vs + n \in 0..(e - 1) /\ ps + n \in Nat
    BY <2>3, <2>4, <2>5, <2>7
  <2> QED
    BY <2>2, <2>7, <2>8, Zenon DEF VirtualPages
\* add_mapping: insert_page keeps the shape.
<1>AddMappingSInv.
    ASSUME IInv, SInv, add_mapping
    PROVE  SInv'
  <2> USE <1>AddMappingSInv
  <2>1. stage = "building" /\ cursor.mapping <= Len(mappings)
    BY Zenon DEF add_mapping
  <2>2. PICK m : m = mappings[cursor.mapping]
    BY Zenon
  <2>3. PICK page, frame :
          page = m.virtual.start + cursor.page /\ frame = m.physical.start + cursor.page
    BY Zenon
  <2>4. PICK next : next = insert_page(plan, page, frame, m.permissions, m.cache)
    BY Zenon
  <2>5. \/ \E why : Refuse(why)
        \/ /\ m.mapped => next.error = "none"
           /\ plan' = IF m.mapped THEN next ELSE plan
           /\ UNCHANGED <<caller, mappings, stage, error>>
    BY <2>2, <2>3, <2>4, AddMappingCases, Zenon
  <2>6. CASE \E why : Refuse(why)
    BY <2>6, <1>RefuseSInv, Zenon
  <2>7. CASE /\ m.mapped => next.error = "none"
             /\ plan' = IF m.mapped THEN next ELSE plan
             /\ UNCHANGED <<caller, mappings, stage, error>>
    <3>1. Shaped(plan) /\ Fits(plan) /\ plan \in Plans /\ Structure(plan)
      BY <2>1, Zenon DEF SInv, IInv
    <3>2. stage' = "building"
      BY <2>1, <2>7, Zenon
    <3>3. Shaped(plan') /\ Fits(plan')
      <4>1. CASE ~m.mapped
        <5>1. plan' = plan
          BY <2>7, <4>1, Zenon
        <5> QED
          BY <3>1, <5>1, Zenon
      <4>2. CASE m.mapped
        <5>1. plan' = next /\ next.error = "none"
          BY <2>7, <4>2, Zenon
        <5>2. page \in VirtualPages /\ frame \in Nat
          BY <2>1, <2>2, <2>3, <4>2, <1>CursorPage, Zenon
        <5>3. page \in Nat
          BY <5>2, IndexRange, Zenon
        <5>4. Shaped(next) /\ Fits(next)
          BY <2>4, <3>1, <5>1, <5>2, <5>3, InsertPage, SMTT(30)
        <5> QED
          BY <5>1, <5>4, Zenon
      <4> QED
        BY <4>1, <4>2, Zenon
    <3> QED
      BY <3>2, <3>3, Zenon DEF SInv, Shaped, Fits
  <2> QED
    BY <2>5, <2>6, <2>7, Zenon
\* finish leaves the plan alone.
<1>FinishSInv.
    ASSUME SInv, finish
    PROVE  SInv'
  <2> USE <1>FinishSInv
  <2>1. CASE Refuse("MissingParent")
    BY <2>1, <1>RefuseSInv, Zenon
  <2>2. CASE stage' = "built" /\ plan' = plan
    BY <2>2, Zenon DEF SInv, finish
  <2> QED
    BY <2>1, <2>2, Zenon DEF finish
<1>1. SUFFICES ASSUME IInv, SInv, [Next]_vars PROVE SInv'
  BY Zenon
<1>2. CASE insert_mapping
  BY <1>1, <1>2, <1>InsertSInv, Zenon DEF insert_mapping
<1>3. CASE insert_guard
  BY <1>1, <1>3, <1>InsertSInv, Zenon DEF insert_guard
<1>4. CASE begin
  BY <1>1, <1>4, <1>BeginSInv, Zenon
<1>5. CASE add_mapping
  BY <1>1, <1>5, <1>AddMappingSInv
<1>6. CASE finish
  BY <1>1, <1>6, <1>FinishSInv
<1>7. CASE UNCHANGED vars
  BY <1>1, <1>7, Zenon DEF vars, SInv
<1> QED
  BY <1>1, <1>2, <1>3, <1>4, <1>5, <1>6, <1>7, Zenon DEF Next, Plan, Ended

-----------------------------------------------------------------------------
(* Materialized tables: what is written and what is read back.               *)

\* The owner holds one distinct supported frame per planned table.
Owned ==
  /\ frames \in Seq(Nat) /\ Len(frames) = Len(plan.tables)
  /\ \A i, j \in 1..Len(frames) : frames[i] = frames[j] => i = j
  /\ \A i \in 1..Len(frames) : frames[i] < SUPPORTED_PHYSICAL_END
  /\ DOMAIN memory = {frames[i] : i \in 1..Len(frames)}

\* What verify_materialized has found out about an entry it accepts: it is
\* planned, or it is zero and no leaf is planned there.
AsRead(slot, index) ==
  IF memory[frames[slot + 1]][index] = Zero
    THEN \A e \in find_entry(plan, slot, index) : e.kind # "PhysicalFrame"
  ELSE \E e \in find_entry(plan, slot, index) :
         memory[frames[slot + 1]][index] = encoded_value(e)

ReadUpTo(n) == \A slot \in 0..(n - 1), index \in TableIndices : AsRead(slot, index)

\* Reachable tables have been seen in one of the first n tables.
SeenUpTo(n) ==
  \A child \in reachable \ {0} : \E slot \in 0..(n - 1) : child \in ChildrenSeen(slot)

\* The tables belong to a built plan, and what has been read so far is as planned.
TInv ==
  /\ table \in Nat
  /\ phase = "planning" => table = 0
  /\ phase # "planning" => stage = "built" /\ Owned /\ table <= Len(plan.tables)
  /\ phase \in {"reading", "verified"} => ReadUpTo(table) /\ SeenUpTo(table)
  /\ phase = "verified" => table = Len(plan.tables) /\ AllReachable

\* What has been read depends on the plan, the frames and the memory alone.
LEMMA ReadStays ==
  ASSUME plan' = plan, frames' = frames, memory' = memory
  PROVE  /\ \A slot, index : AsRead(slot, index)' = AsRead(slot, index)
         /\ \A slot : ChildrenSeen(slot)' = ChildrenSeen(slot)
         /\ Owned' = Owned
<1>1. \A p, slot, index : find_entry(p, slot, index)' = find_entry(p', slot, index)
  BY Zenon
<1>2. \A e : encoded_value(e)' = encoded_value(e)
  BY Zenon DEF encoded_value
<1>3. \A slot, index : AsRead(slot, index)' = AsRead(slot, index)
  BY <1>2, Zenon DEF AsRead
<1>4. \A slot : ChildrenSeen(slot)' = ChildrenSeen(slot)
  BY Zenon DEF ChildrenSeen
<1>5. Owned' = Owned
  BY DEF Owned
<1> QED
  BY <1>3, <1>4, <1>5, Zenon

\* GiveUp keeps the invariant.
LEMMA GiveUpTInv ==
  ASSUME TInv, phase # "planning", NEW why, GiveUp(why)
  PROVE  TInv'
<1>1. /\ phase' = "failed" /\ table' = table /\ stage' = stage
      /\ plan' = plan /\ frames' = frames /\ memory' = memory
  BY Zenon DEF GiveUp, vars
<1>2. Owned' = Owned
  BY <1>1, ReadStays, Zenon
<1> QED
  BY <1>1, <1>2, Zenon DEF TInv

\* No plan is changed once it is built.
LEMMA PlanningTInv ==
  ASSUME TInv, Planning
  PROVE  TInv'
<1>1. stage # "built"
  BY Zenon DEF Planning, Plan, insert_mapping, insert_guard, begin, add_mapping, finish
<1>2. phase = "planning" /\ table = 0
  BY <1>1, Zenon DEF TInv
<1>3. phase' = "planning" /\ table' = 0
  BY <1>2, Zenon DEF Planning, tvars
<1> QED
  BY <1>3, Zenon DEF TInv

\* allocate takes the first frames of a list.
LEMMA AllocateTInv ==
  ASSUME IInv, SInv, TInv, allocate
  PROVE  TInv'
<1>1. PICK list \in FrameLists :
        /\ frames' = SubSeq(list, 1, Len(plan.tables))
        /\ memory' = [f \in {list[i] : i \in 1..Len(plan.tables)} |->
                        [index \in TableIndices |-> Zero]]
  BY Zenon DEF allocate
<1>2. /\ phase = "planning" /\ stage = "built" /\ phase' = "writing"
      /\ table' = table /\ stage' = stage /\ plan' = plan
  BY Zenon DEF allocate, vars
<1>3. /\ list \in Seq(Nat) /\ Len(list) = TABLES
      /\ \A i, j \in 1..TABLES : list[i] = list[j] => i = j
      /\ \A i \in 1..TABLES : list[i] \in 1..(SUPPORTED_PHYSICAL_END - 1)
  BY PageTablesAssumption, Zenon
<1>4. PICK n \in Nat : n = Len(plan.tables)
  BY DEF IInv, Plans
<1>5. n <= TABLES /\ TABLES \in Nat
  BY <1>2, <1>4, PagePlanAssumption, Zenon DEF SInv, Fits
<1>6. PICK f : f = SubSeq(list, 1, n)
  BY Zenon
<1>7. f \in Seq(Nat) /\ Len(f) = n /\ \A i \in 1..n : f[i] = list[i]
  BY <1>3, <1>5, <1>6
<1>8. \A i \in 1..n : i \in 1..TABLES
  BY <1>5
<1>9. \A i, j \in 1..n : f[i] = f[j] => i = j
  BY <1>3, <1>7, <1>8, Zenon
<1>10. \A i \in 1..n : f[i] < SUPPORTED_PHYSICAL_END
  BY <1>3, <1>7, <1>8, PagePlanAssumption
<1>11. DOMAIN memory' = {list[i] : i \in 1..n}
  BY <1>1, <1>4, Zenon
<1>12. {list[i] : i \in 1..n} = {f[i] : i \in 1..n}
  BY <1>7, Zenon
<1>13. Owned'
  <2>1. frames' = f /\ Len(plan'.tables) = n
    BY <1>1, <1>2, <1>4, <1>6, Zenon
  <2>2. \A i, j \in 1..Len(f) : f[i] = f[j] => i = j
    BY <1>7, <1>9, Zenon
  <2>3. \A i \in 1..Len(f) : f[i] < SUPPORTED_PHYSICAL_END
    BY <1>7, <1>10, Zenon
  <2>4. DOMAIN memory' = {f[i] : i \in 1..Len(f)}
    BY <1>7, <1>11, <1>12, Zenon
  <2>5. f \in Seq(Nat) /\ Len(f) = Len(plan'.tables)
    BY <1>7, <2>1, Zenon
  <2> QED
    BY <2>1, <2>2, <2>3, <2>4, <2>5, Zenon DEF Owned
<1>14. table' = 0 /\ 0 <= n
  BY <1>2 DEF TInv
<1> QED
  BY <1>2, <1>4, <1>13, <1>14, Zenon DEF TInv

\* materialize changes what the frames hold, not the frames.
LEMMA MaterializeTInv ==
  ASSUME IInv, TInv, materialize
  PROVE  TInv'
<1>1. phase = "writing" /\ table < Len(plan.tables)
  BY Zenon DEF materialize
<1>2. CASE GiveUp("Access")
  BY <1>1, <1>2, GiveUpTInv, Zenon
<1>3. CASE /\ \E held : memory' = [memory EXCEPT ![frames[table + 1]] = held]
           /\ table' = table + 1
           /\ UNCHANGED <<phase, frames, reachable, faults, reason>>
           /\ UNCHANGED vars
  <2>1. DOMAIN memory' = DOMAIN memory
    BY <1>3, Zenon
  <2>2. phase' = phase /\ frames' = frames /\ plan' = plan /\ stage' = stage
    BY <1>3, Zenon DEF vars
  <2>3. stage = "built" /\ Owned /\ table \in Nat
    BY <1>1, Zenon DEF TInv
  <2>4. Owned'
    BY <2>1, <2>2, <2>3, Zenon DEF Owned
  <2>5. table' \in Nat /\ table' <= Len(plan.tables)
    <3>1. Len(plan.tables) \in Nat
      BY DEF IInv, Plans
    <3> QED
      BY <1>1, <1>3, <2>3, <3>1
  <2> QED
    BY <1>1, <2>2, <2>3, <2>4, <2>5, Zenon DEF TInv
<1> QED
  BY <1>2, <1>3, Zenon DEF materialize

\* The disturbed word lies in an owned frame.
LEMMA DisturbTInv ==
  ASSUME TInv, Disturb
  PROVE  TInv'
<1>1. /\ phase = "written" /\ phase' = phase /\ frames' = frames /\ table' = table
      /\ plan' = plan /\ stage' = stage /\ DOMAIN memory' = DOMAIN memory
  BY Zenon DEF Disturb, vars
<1>2. Owned'
  BY <1>1, Zenon DEF TInv, Owned
<1> QED
  BY <1>1, <1>2, Zenon DEF TInv

\* verify begins with the root.
LEMMA VerifyTInv ==
  ASSUME IInv, TInv, verify
  PROVE  TInv'
<1>1. /\ phase = "written" /\ phase' = "reading" /\ frames' = frames /\ table' = 0
      /\ reachable' = {0} /\ plan' = plan /\ stage' = stage /\ memory' = memory
  BY Zenon DEF verify, vars
<1>2. Owned'
  BY <1>1, ReadStays, Zenon DEF TInv
<1>3. ReadUpTo(table)' /\ SeenUpTo(table)'
  BY <1>1 DEF ReadUpTo, SeenUpTo
<1>4. 0 <= Len(plan.tables)
  BY DEF IInv, Plans
<1> QED
  BY <1>1, <1>2, <1>3, <1>4, Zenon DEF TInv

\* verify_table: every entry of the table has passed.
LEMMA VerifyTableTInv ==
    IInv /\ TInv /\ verify_table =>
        TInv'
\* An entry that passes is zero without a planned leaf, or as planned.
<1>EntryAccepted.
    ASSUME NEW slot, NEW index, CheckEntry(slot, index) = "Ok"
    PROVE  AsRead(slot, index)
  <2> USE <1>EntryAccepted
  <2>1. PICK actual : actual = memory[frames[slot + 1]][index]
    BY Zenon
  <2>2. PICK expected : expected = find_entry(plan, slot, index)
    BY Zenon
  <2>3. PICK entry : entry = CHOOSE e \in expected : TRUE
    BY Zenon
  <2>4. PICK verdict :
          verdict = IF entry.kind = "TableSlot" THEN CheckChild(slot, actual, entry) ELSE "Ok"
    BY Zenon
  <2>5. IF actual = Zero
          THEN "Ok" = IF \E e \in expected : e.kind = "PhysicalFrame" THEN "EntryMismatch"
                      ELSE "Ok"
        ELSE "Ok" = IF ~validate_entry_bits(actual, expected) THEN "InvalidBits"
                    ELSE IF expected = {} THEN "UnexpectedNonZero"
                    ELSE IF verdict = "Ok" /\ ~ValueMatches(actual, entry)
                      THEN "EntryMismatch" ELSE verdict
    BY <2>1, <2>2, <2>3, <2>4, Zenon DEF CheckEntry
  <2>6. CASE actual = Zero
    <3>1. ~\E e \in expected : e.kind = "PhysicalFrame"
      BY <2>5, <2>6, Zenon
    <3> QED
      BY <2>1, <2>2, <2>6, <3>1, Zenon DEF AsRead
  <2>7. CASE actual # Zero
    <3>1. expected # {} /\ ValueMatches(actual, entry)
      BY <2>5, <2>7, Zenon
    <3>2. entry \in expected
      BY <2>3, <3>1, Zenon
    <3>3. actual = encoded_value(entry)
      BY <3>1, Zenon DEF ValueMatches
    <3> QED
      BY <2>1, <2>2, <2>7, <3>2, <3>3, Zenon DEF AsRead
  <2> QED
    BY <2>6, <2>7, Zenon
<1> HAVE IInv /\ TInv /\ verify_table
<1>1. phase = "reading" /\ table < Len(plan.tables)
  BY Zenon DEF verify_table
<1>2. CASE \E why : GiveUp(why)
  BY <1>1, <1>2, GiveUpTInv, Zenon
<1>3. CASE /\ {index \in TableIndices : CheckEntry(table, index) # "Ok"} = {}
           /\ table' = table + 1
           /\ reachable' = reachable \cup ChildrenSeen(table)
           /\ UNCHANGED <<phase, frames, memory, faults, reason>>
           /\ UNCHANGED vars
  <2>1. /\ phase' = "reading" /\ frames' = frames /\ memory' = memory
        /\ plan' = plan /\ stage' = stage
    BY <1>1, <1>3, Zenon DEF vars
  <2>2. PICK n \in Nat : n = table
    BY Zenon DEF TInv
  <2>3. table' = n + 1 /\ n + 1 <= Len(plan.tables)
    <3>1. Len(plan.tables) \in Nat
      BY DEF IInv, Plans
    <3> QED
      BY <1>1, <1>3, <2>2, <3>1
  <2>4. \A slot : slot \in 0..(n + 1 - 1) <=> slot \in 0..(n - 1) \/ slot = n
    OBVIOUS
  <2>5. ReadUpTo(n) /\ SeenUpTo(n) /\ Owned /\ stage = "built"
    BY <1>1, <2>2, Zenon DEF TInv
  <2>6. \A index \in TableIndices : AsRead(n, index)
    BY <1>3, <2>2, <1>EntryAccepted, Zenon
  <2>7. ReadUpTo(n + 1)
    <3>1. ASSUME NEW slot \in 0..(n + 1 - 1), NEW index \in TableIndices
          PROVE  AsRead(slot, index)
      <4>1. slot \in 0..(n - 1) \/ slot = n
        BY <2>4, Zenon
      <4> QED
        BY <2>5, <2>6, <4>1, Zenon DEF ReadUpTo
    <3> QED
      BY <3>1 DEF ReadUpTo
  <2>8. ReadUpTo(table)'
    BY <2>1, <2>3, <2>7, ReadStays, Zenon DEF ReadUpTo
  <2>9. ASSUME NEW child \in reachable' \ {0}
        PROVE  \E slot \in 0..(n + 1 - 1) : child \in ChildrenSeen(slot)
    <3>1. CASE child \in ChildrenSeen(n)
      BY <2>4, <3>1, Zenon
    <3>2. CASE child \in reachable \ {0}
      BY <2>4, <2>5, <3>2, Zenon DEF SeenUpTo
    <3> QED
      BY <1>3, <2>2, <3>1, <3>2, Zenon
  <2>10. SeenUpTo(table)'
    <3>1. \A slot : ChildrenSeen(slot)' = ChildrenSeen(slot)
      BY <2>1, ReadStays, Zenon
    <3>2. \A child \in reachable' \ {0} :
            \E slot \in 0..(n + 1 - 1) : child \in ChildrenSeen(slot)'
      BY <2>9, <3>1, Zenon
    <3> QED
      BY <2>3, <3>2 DEF SeenUpTo
  <2>11. Owned'
    BY <2>1, <2>5, ReadStays, Zenon
  <2> QED
    BY <2>1, <2>3, <2>5, <2>8, <2>10, <2>11 DEF TInv
<1> QED
  BY <1>2, <1>3, Zenon DEF verify_table

\* verify_end: the whole hierarchy has been read.
LEMMA VerifyEndTInv ==
  ASSUME TInv, verify_end
  PROVE  TInv'
<1>1. phase = "reading" /\ table = Len(plan.tables)
  BY Zenon DEF verify_end
<1>2. CASE \E why : GiveUp(why)
  BY <1>1, <1>2, GiveUpTInv, Zenon
<1>3. CASE /\ AllReachable /\ phase' = "verified"
           /\ UNCHANGED <<frames, memory, table, reachable, faults, reason>>
           /\ UNCHANGED vars
  <2>1. /\ frames' = frames /\ memory' = memory /\ table' = table
        /\ reachable' = reachable /\ plan' = plan /\ stage' = stage
    BY <1>3, Zenon DEF vars
  <2>2. /\ table \in Nat /\ ReadUpTo(table) /\ SeenUpTo(table) /\ Owned /\ stage = "built"
        /\ table <= Len(plan.tables)
    BY <1>1, Zenon DEF TInv
  <2>3. ReadUpTo(table)'
    BY <2>1, <2>2, ReadStays, Zenon DEF ReadUpTo
  <2>4. SeenUpTo(table)'
    BY <2>1, <2>2, ReadStays, Zenon DEF SeenUpTo
  <2>5. Owned' /\ AllReachable'
    BY <1>3, <2>1, <2>2, ReadStays, Zenon DEF AllReachable
  <2> QED
    BY <1>1, <1>3, <2>1, <2>2, <2>3, <2>4, <2>5 DEF TInv
<1> QED
  BY <1>2, <1>3, Zenon DEF verify_end

\* The invariants hold together of every behaviour of the tables.
LEMMA TablesNextInv ==
  IInv /\ SInv /\ TInv /\ [TablesNext]_<<vars, tvars>> => IInv' /\ SInv' /\ TInv'
<1>1. SUFFICES ASSUME IInv, SInv, TInv, [TablesNext]_<<vars, tvars>>
               PROVE  IInv' /\ SInv' /\ TInv'
  BY Zenon
<1>2. \A why : GiveUp(why) => UNCHANGED vars
  BY Zenon DEF GiveUp
<1>3. [Next]_vars
  <2>1. Planning => [Next]_vars
    BY Zenon DEF Planning, Next
  <2>2. allocate \/ Materialized \/ Disturb \/ verify => [Next]_vars
    BY Zenon DEF allocate, Materialized, Disturb, verify
  <2>3. materialize => [Next]_vars
    BY <1>2, Zenon DEF materialize
  <2>4. verify_table => [Next]_vars
    BY <1>2, Zenon DEF verify_table
  <2>5. verify_end => [Next]_vars
    BY <1>2, Zenon DEF verify_end
  <2>6. TablesEnded \/ UNCHANGED <<vars, tvars>> => [Next]_vars
    BY Zenon DEF TablesEnded
  <2> QED
    BY <1>1, <2>1, <2>2, <2>3, <2>4, <2>5, <2>6, Zenon DEF TablesNext
<1>4. IInv' /\ SInv'
  BY <1>1, <1>3, NextIInv, NextSInv, Zenon
<1>5. TInv'
  <2>1. CASE Materialized
    <3>1. /\ phase = "writing" /\ phase' = "written" /\ table' = table
          /\ frames' = frames /\ memory' = memory /\ plan' = plan /\ stage' = stage
      BY <2>1, Zenon DEF Materialized, vars
    <3>2. Owned' = Owned
      BY <3>1, ReadStays, Zenon
    <3> QED
      BY <1>1, <3>1, <3>2, Zenon DEF TInv
  <2>2. CASE UNCHANGED <<vars, tvars>>
    <3>1. /\ phase' = phase /\ table' = table /\ reachable' = reachable
          /\ frames' = frames /\ memory' = memory /\ plan' = plan /\ stage' = stage
      BY <2>2, Zenon DEF tvars, vars
    <3>2. ReadUpTo(table)' = ReadUpTo(table)
      BY <3>1, ReadStays, Zenon DEF ReadUpTo
    <3>3. SeenUpTo(table)' = SeenUpTo(table)
      <4>1. \A slot : ChildrenSeen(slot)' = ChildrenSeen(slot)
        BY <3>1, ReadStays, Zenon
      <4> QED
        BY <3>1, <4>1, Zenon DEF SeenUpTo
    <3>4. Owned' = Owned /\ AllReachable' = AllReachable
      BY <3>1, ReadStays, Zenon DEF AllReachable
    <3> QED
      BY <1>1, <3>1, <3>2, <3>3, <3>4, Zenon DEF TInv
  <2>3. TablesEnded => UNCHANGED <<vars, tvars>>
    BY Zenon DEF TablesEnded
  <2> QED
    BY <1>1, <2>1, <2>2, <2>3, PlanningTInv, AllocateTInv, MaterializeTInv, DisturbTInv,
       VerifyTInv, VerifyTableTInv, VerifyEndTInv, Zenon DEF TablesNext
<1> QED
  BY <1>4, <1>5, Zenon

\* So they are invariants.
LEMMA TablesInvariance == TablesSpec => [](IInv /\ SInv /\ TInv)
<1>1. TablesInit => IInv /\ SInv /\ TInv
  <2>1. TablesInit => IInv /\ SInv
    BY InitIInv, InitSInv, Zenon DEF TablesInit
  <2>2. TablesInit => TInv
    BY DEF TablesInit, TInv
  <2> QED
    BY <2>1, <2>2, Zenon
<1> QED
  BY <1>1, TablesNextInv, PTL DEF TablesSpec

\* The word of an entry that points at the table in slot c.
Link(c) == [address |-> frames[c + 1], flags |-> INTERMEDIATE]

\* The words in the owned frames.
Stored == {memory[f][i] : f \in DOMAIN memory, i \in TableIndices}

\* A walk of k words through intermediate entries that has come to a slot.
Down(walk, k, slot) ==
  /\ walk \in Seq(Stored) /\ Len(walk) = k
  /\ \A i \in 1..k : walk[i].flags = INTERMEDIATE
  /\ IF k = 0 THEN slot = 0 ELSE walk[k] = Link(slot)

\* The words that HardwareWalk may append to a walk.
NextWords(walk, index) ==
  IF walk = <<>> THEN Present(frames[1], index)
  ELSE IF walk[Len(walk)].address \in DOMAIN memory
    THEN Present(walk[Len(walk)].address, index) ELSE {}

\* A walk of three intermediate entries and a word.
Ends(walk, w) ==
  /\ walk[4] = w
  /\ \A i \in 1..3 : walk[i].flags = INTERMEDIATE

\* The walks one word longer.
Longer(walks, index) ==
  UNION {{Append(walk, w) : w \in NextWords(walk, index)} : walk \in walks}

\* Every walk of a set has come to a slot of a set, and every such slot has a walk.
ComeTo(walks, k, slots) ==
  /\ \A walk \in walks : \E slot \in slots : Down(walk, k, slot)
  /\ \A slot \in slots : \E walk \in walks : Down(walk, k, slot)

\* The slots one level down.
SlotsBelow(slots, index) == {c \in Slots(plan) : \E slot \in slots : Below(plan, slot, index, c)}

\* A processor's walks to a page end with the page's leaf.
LEMMA WalksAreLeaves ==
  \A page \in VirtualPages :
    IInv /\ SInv /\ TInv /\ phase = "verified" =>
        /\ \A walk \in HardwareWalk(page) : \E e \in leaf_entry(plan, page) : \E w :
             Ends(walk, w) /\ w.address = e.value /\ w.flags = e.flags
        /\ \A e \in leaf_entry(plan, page) : \E walk \in HardwareWalk(page) : \E w :
             Ends(walk, w) /\ w.address = e.value
\* The child that a marked entry names hangs at its index.
<1>SeenBelow.
    ASSUME IInv, NEW slot, NEW child \in ChildrenSeen(slot)
    PROVE  \E index \in TableIndices :
             /\ memory[frames[slot + 1]][index] # Zero
             /\ Below(plan, slot, index, child)
  <2> USE <1>SeenBelow
  <2>1. PICK index \in TableIndices :
          /\ memory[frames[slot + 1]][index] # Zero
          /\ \E e \in find_entry(plan, slot, index) : e.kind = "TableSlot" /\ e.value = child
    BY Zenon DEF ChildrenSeen
  <2>2. plan \in Plans /\ Structure(plan)
    BY Zenon DEF IInv
  <2>3. Below(plan, slot, index, child)
    BY <2>1, <2>2, WalkStep, Zenon
  <2> QED
    BY <2>1, <2>3, Zenon
\* At most one entry is found at an index.
<1>FindsOne.
    ASSUME IInv, NEW slot, NEW index, NEW e \in find_entry(plan, slot, index)
    PROVE  /\ find_entry(plan, slot, index) = {e}
           /\ \E i \in 1..Len(plan.entries) :
                e = plan.entries[i] /\ e.table_slot = slot /\ e.index = index
  <2> USE <1>FindsOne
  <2>1. plan \in Plans /\ Structure(plan)
    BY Zenon DEF IInv
  <2>2. PICK i \in Hits(plan, slot, index) : e = plan.entries[i]
    BY <2>1, Finds, Zenon
  <2>3. find_entry(plan, slot, index) = {plan.entries[i]}
    BY <2>1, Finds, Zenon
  <2> QED
    BY <2>2, <2>3, Zenon DEF Hits
\* Verified tables hold what materialize writes: no entry has got lost, as every
\* table is reachable and hangs at one index only.
<1>VerifiedWord.
    ASSUME IInv, TInv, phase = "verified", NEW slot \in Slots(plan), NEW index \in TableIndices
    PROVE  /\ \A e \in find_entry(plan, slot, index) :
                memory[frames[slot + 1]][index] = encoded_value(e)
           /\ find_entry(plan, slot, index) = {} => memory[frames[slot + 1]][index] = Zero
  <2> USE <1>VerifiedWord
  <2>1. PICK word : word = memory[frames[slot + 1]][index]
    BY Zenon
  <2>2. /\ ReadUpTo(Len(plan.tables)) /\ SeenUpTo(Len(plan.tables)) /\ AllReachable
        /\ plan \in Plans /\ Structure(plan)
    BY Zenon DEF TInv, IInv
  <2>3. AsRead(slot, index)
    BY <2>2, Zenon DEF ReadUpTo, Slots
  <2>4. find_entry(plan, slot, index) = {} => word = Zero
    BY <2>1, <2>3, Zenon DEF AsRead
  <2>5. ASSUME NEW e \in find_entry(plan, slot, index) PROVE word = encoded_value(e)
    <3>1. CASE word # Zero
      <4>1. PICK f \in find_entry(plan, slot, index) : word = encoded_value(f)
        BY <2>1, <2>3, <3>1, Zenon DEF AsRead
      <4>2. f = e
        <5>1. find_entry(plan, slot, index) = {e}
          BY <1>FindsOne
        <5> QED
          BY <5>1, Zenon
      <4> QED
        BY <4>1, <4>2, Zenon
    <3>2. CASE word = Zero
      <4>1. e.kind # "PhysicalFrame"
        BY <2>1, <2>3, <3>2, Zenon DEF AsRead
      <4>2. e.kind = "TableSlot"
        <5>1. PICK i \in 1..Len(plan.entries) : e = plan.entries[i]
          BY <1>FindsOne
        <5>2. plan.entries \in Seq(Entries)
          BY <2>2, Zenon DEF Plans
        <5>3. e \in Entries
          BY <5>1, <5>2
        <5> QED
          BY <4>1, <5>3, Zenon DEF Entries
      <4>3. PICK child : child = e.value
        BY Zenon
      <4>4. Below(plan, slot, index, child)
        BY <2>2, <4>2, <4>3, WalkStep, Zenon
      <4>5. child \in reachable \ {0}
        <5>1. child \in 1..(Len(plan.tables) - 1)
          BY <2>2, <4>4 DEF Below, Slots, Plans
        <5> QED
          BY <2>2, <5>1 DEF AllReachable
      <4>6. PICK other : child \in ChildrenSeen(other)
        BY <2>2, <4>5, Zenon DEF SeenUpTo
      <4>7. PICK at \in TableIndices :
              memory[frames[other + 1]][at] # Zero /\ Below(plan, other, at, child)
        BY <4>6, <1>SeenBelow, Zenon
      <4>8. other = slot /\ at = index
        BY <4>4, <4>7, Zenon DEF Below
      <4> QED
        BY <2>1, <3>2, <4>7, <4>8, Zenon
    <3> QED
      BY <3>1, <3>2, Zenon
  <2> QED
    BY <2>1, <2>4, <2>5, Zenon
\* The level of a child is one less.
<1>LevelBelow.
    ASSUME IInv, SInv, NEW up, NEW index, NEW c, Below(plan, up, index, c)
    PROVE  /\ plan.tables[c + 1].level \in 1..3
           /\ plan.tables[up + 1].level = plan.tables[c + 1].level + 1
  <2> USE <1>LevelBelow
  <2>1. Levelled(plan.tables) /\ Len(plan.tables) \in Nat
    BY DEF SInv, Shaped, IInv, Plans
  <2>2. c \in 1..(Len(plan.tables) - 1) /\ plan.tables[c + 1].parent_slot = up
    BY <2>1 DEF Below, Slots
  <2> QED
    BY <2>1, <2>2, Zenon DEF Levelled
\* A path comes to a table of level 1.
<1>LevelOfPath.
    ASSUME IInv, SInv, NEW a, NEW b, NEW pt, NEW i1, NEW i2, NEW i3,
           Below(plan, 0, i1, a), Below(plan, a, i2, b), Below(plan, b, i3, pt)
    PROVE  /\ plan.tables[1].level = 4 /\ plan.tables[a + 1].level = 3
           /\ plan.tables[b + 1].level = 2 /\ plan.tables[pt + 1].level = 1
  <2> USE <1>LevelOfPath
  <2>1. plan.tables[1].level = 4
    BY Zenon DEF SInv, Shaped, Levelled
  <2>2. PICK x \in 1..3, y \in 1..3, z \in 1..3 :
          /\ x = plan.tables[a + 1].level /\ y = plan.tables[b + 1].level
          /\ z = plan.tables[pt + 1].level /\ x = y + 1 /\ y = z + 1
    <3>1. plan.tables[a + 1].level \in 1..3
      BY <1>LevelBelow, Zenon
    <3>2. /\ plan.tables[b + 1].level \in 1..3
          /\ plan.tables[a + 1].level = plan.tables[b + 1].level + 1
      BY <1>LevelBelow, Zenon
    <3>3. /\ plan.tables[pt + 1].level \in 1..3
          /\ plan.tables[b + 1].level = plan.tables[pt + 1].level + 1
      BY <1>LevelBelow, Zenon
    <3> QED
      BY <3>1, <3>2, <3>3, Zenon
  <2>3. plan.tables[1].level = x + 1
    <3>1. plan.tables[0 + 1].level = plan.tables[a + 1].level + 1
      BY <1>LevelBelow, Zenon
    <3> QED
      BY <2>2, <3>1
  <2>4. x = 3 /\ y = 2 /\ z = 1
    BY <2>1, <2>2, <2>3
  <2> QED
    BY <2>1, <2>2, <2>4, Zenon
\* The leaves are the entries of the tables of level 1.
<1>KindOfLevel.
    ASSUME IInv, SInv, NEW slot, NEW index, NEW e \in find_entry(plan, slot, index)
    PROVE  /\ e \in Entries
           /\ e.kind = "PhysicalFrame" => plan.tables[slot + 1].level = 1
           /\ e.kind = "TableSlot" =>
                /\ Below(plan, slot, index, e.value) /\ e.flags = INTERMEDIATE
                /\ plan.tables[slot + 1].level \in 2..4
  <2> USE <1>KindOfLevel
  <2>1. PICK i \in 1..Len(plan.entries) : e = plan.entries[i] /\ e.table_slot = slot
    BY <1>FindsOne
  <2>2. /\ plan \in Plans /\ Structure(plan) /\ Leaves(plan, mappings)
        /\ Linked(plan.entries) /\ plan.entries \in Seq(Entries)
    BY Zenon DEF IInv, SInv, Shaped, Plans
  <2>3. e \in Entries
    BY <2>1, <2>2
  <2>4. ASSUME e.kind = "PhysicalFrame" PROVE plan.tables[slot + 1].level = 1
    <3>1. PICK k \in 1..Len(mappings), n \in Nat : LeafOf(plan, e, mappings[k], n)
      BY <2>1, <2>2, <2>4, Zenon DEF Leaves
    <3>2. PICK page : OnPath(plan, slot, page)
      BY <2>1, <3>1, Zenon DEF LeafOf, Leaf
    <3> QED
      BY <3>2, <1>LevelOfPath, Zenon DEF OnPath
  <2>5. ASSUME e.kind = "TableSlot"
        PROVE  /\ Below(plan, slot, index, e.value) /\ e.flags = INTERMEDIATE
               /\ plan.tables[slot + 1].level \in 2..4
    <3>1. Below(plan, slot, index, e.value)
      BY <2>2, <2>5, WalkStep, Zenon
    <3>2. PICK c : c = e.value
      BY Zenon
    <3>3. PICK x \in 1..3 : plan.tables[slot + 1].level = x + 1
      BY <3>1, <3>2, <1>LevelBelow, Zenon
    <3>4. e.flags = INTERMEDIATE
      BY <2>1, <2>2, <2>5, Zenon DEF Linked
    <3> QED
      BY <3>1, <3>3, <3>4
  <2> QED
    BY <2>3, <2>4, <2>5, Zenon
\* Above level 1 the processor finds the child tables at their indices.
<1>UpperWords.
    ASSUME IInv, SInv, TInv, phase = "verified", NEW slot \in Slots(plan),
           NEW index \in TableIndices, plan.tables[slot + 1].level # 1, NEW w
    PROVE  w \in Present(frames[slot + 1], index)
             <=> \E c : Below(plan, slot, index, c) /\ w = Link(c)
  <2> USE <1>UpperWords
  <2>1. PICK word : word = memory[frames[slot + 1]][index]
    BY Zenon
  <2>2. w \in Present(frames[slot + 1], index) <=> w = word /\ "PRESENT" \in w.flags
    BY <2>1, Zenon DEF Present
  <2>3. ASSUME NEW e \in find_entry(plan, slot, index)
        PROVE  e.kind = "TableSlot" /\ Below(plan, slot, index, e.value) /\ word = Link(e.value)
    <3>1. e \in Entries /\ e.kind # "PhysicalFrame"
      BY <1>KindOfLevel, Zenon
    <3>2. e.kind = "TableSlot"
      BY <3>1, Zenon DEF Entries
    <3>3. Below(plan, slot, index, e.value) /\ e.flags = INTERMEDIATE
      BY <3>2, <1>KindOfLevel, Zenon
    <3>4. word = encoded_value(e)
      BY <2>1, <1>VerifiedWord, Zenon
    <3>5. encoded_value(e) = Link(e.value)
      BY <3>2, <3>3, Zenon DEF encoded_value, Link
    <3> QED
      BY <3>2, <3>3, <3>4, <3>5, Zenon
  <2>4. \A c : "PRESENT" \in Link(c).flags
    BY Zenon DEF Link, INTERMEDIATE
  <2>5. ASSUME w = word, "PRESENT" \in w.flags
        PROVE  \E c : Below(plan, slot, index, c) /\ w = Link(c)
    <3>1. word # Zero
      BY <2>5 DEF Zero
    <3>2. PICK e : e \in find_entry(plan, slot, index)
      BY <2>1, <3>1, <1>VerifiedWord, Zenon
    <3> QED
      BY <2>3, <2>5, <3>2, Zenon
  <2>6. ASSUME NEW c, Below(plan, slot, index, c), w = Link(c)
        PROVE  w = word /\ "PRESENT" \in w.flags
    <3>1. plan \in Plans /\ Structure(plan)
      BY Zenon DEF IInv
    <3>2. PICK e \in find_entry(plan, slot, index) : e.kind = "TableSlot" /\ e.value = c
      BY <2>6, <3>1, WalkStep
    <3> QED
      BY <2>3, <2>4, <2>6, <3>2, Zenon
  <2> QED
    BY <2>2, <2>5, <2>6, Zenon
\* At level 1 it finds the leaf of the page.
<1>LowerWords.
    ASSUME IInv, SInv, TInv, phase = "verified", NEW page \in VirtualPages, NEW pt,
           OnPath(plan, pt, page), NEW w
    PROVE  /\ w \in Present(frames[pt + 1], virtual_address_indices(page)[4])
                => \E e \in leaf_entry(plan, page) :
                     w.address = e.value /\ w.flags = e.flags
           /\ \A e \in leaf_entry(plan, page) : e.table_slot = pt =>
                \E x \in Present(frames[pt + 1], virtual_address_indices(page)[4]) :
                  x.address = e.value
  <2> USE <1>LowerWords
  <2>1. PICK index \in TableIndices : index = virtual_address_indices(page)[4]
    BY IndexRange
  <2>2. PICK word : word = memory[frames[pt + 1]][index]
    BY Zenon
  <2>3. \A x : x \in Present(frames[pt + 1], index) <=> x = word /\ "PRESENT" \in x.flags
    BY <2>2, Zenon DEF Present
  <2>4. plan \in Plans /\ Structure(plan) /\ page \in Nat
    BY IndexRange, Zenon DEF IInv
  <2>5. pt \in Slots(plan) /\ plan.tables[pt + 1].level = 1
    <3>1. pt \in Slots(plan)
      BY Zenon DEF OnPath, Below
    <3> QED
      BY <3>1, <1>LevelOfPath, Zenon DEF OnPath
  <2>6. ASSUME NEW e \in find_entry(plan, pt, index)
        PROVE  /\ e.kind = "PhysicalFrame" /\ e \in leaf_entry(plan, page)
               /\ word.address = e.value /\ word.flags = e.flags
    <3>1. e.kind = "PhysicalFrame"
      <4>1. e \in Entries /\ (e.kind = "TableSlot" => plan.tables[pt + 1].level \in 2..4)
        BY <1>KindOfLevel, Zenon
      <4> QED
        BY <2>5, <4>1 DEF Entries
    <3>2. PICK i \in 1..Len(plan.entries) :
            e = plan.entries[i] /\ e.table_slot = pt /\ e.index = index
      BY <1>FindsOne
    <3>3. e \in leaf_entry(plan, page)
      BY <2>1, <2>4, <3>1, <3>2, WalkEnds, Zenon
    <3>4. word = encoded_value(e)
      BY <2>2, <2>5, <1>VerifiedWord, Zenon
    <3>5. encoded_value(e).address = e.value /\ encoded_value(e).flags = e.flags
      BY <3>1, Zenon DEF encoded_value
    <3> QED
      BY <3>1, <3>3, <3>4, <3>5, Zenon
  <2>7. ASSUME w \in Present(frames[pt + 1], index)
        PROVE  \E e \in leaf_entry(plan, page) : w.address = e.value /\ w.flags = e.flags
    <3>1. w = word /\ "PRESENT" \in word.flags
      BY <2>3, <2>7, Zenon
    <3>2. word # Zero
      BY <3>1 DEF Zero
    <3>3. PICK e : e \in find_entry(plan, pt, index)
      BY <2>2, <2>5, <3>2, <1>VerifiedWord, Zenon
    <3> QED
      BY <2>6, <3>1, <3>3, Zenon
  <2>8. ASSUME NEW e \in leaf_entry(plan, page), e.table_slot = pt
        PROVE  \E x \in Present(frames[pt + 1], index) : x.address = e.value
    <3>1. PICK i \in 1..Len(plan.entries) : e = plan.entries[i] /\ e.index = index
      BY <2>1, <2>4, WalkEnds
    <3>2. e \in find_entry(plan, pt, index)
      <4>1. i \in Hits(plan, pt, index)
        BY <2>8, <3>1, Zenon DEF Hits
      <4> QED
        BY <2>4, <3>1, <4>1, Finds
    <3>3. word.address = e.value /\ word.flags = e.flags
      BY <2>6, <3>2, Zenon
    <3>4. "PRESENT" \in e.flags
      <4>1. PICK permissions, cache : e.flags = for_leaf(permissions, cache)
        BY <2>4, LeafCarries, Zenon
      <4> QED
        BY <4>1, Zenon DEF for_leaf
    <3> QED
      BY <2>3, <3>3, <3>4, Zenon
  <2> QED
    BY <2>1, <2>7, <2>8, Zenon
\* They are the words of the slot the walk has come to.
<1>WordsOfSlot.
    ASSUME Owned, NEW slot \in Slots(plan), NEW index \in TableIndices,
           NEW k \in Nat, NEW walk, Down(walk, k, slot)
    PROVE  /\ NextWords(walk, index) = Present(frames[slot + 1], index)
           /\ NextWords(walk, index) \subseteq Stored
  <2> USE <1>WordsOfSlot
  <2>1. frames[slot + 1] \in DOMAIN memory
    <3>1. Len(frames) = Len(plan.tables) /\ Len(frames) \in Nat
      BY DEF Owned
    <3>2. slot + 1 \in 1..Len(frames)
      BY <3>1 DEF Slots
    <3> QED
      BY <3>2, Zenon DEF Owned
  <2>2. NextWords(walk, index) = Present(frames[slot + 1], index)
    <3>1. CASE k = 0
      <4>1. walk = <<>> /\ slot = 0
        BY <3>1 DEF Down
      <4>2. frames[slot + 1] = frames[1]
        BY <4>1
      <4> QED
        BY <4>1, <4>2, Zenon DEF NextWords
    <3>2. CASE k # 0
      <4>1. walk # <<>> /\ Len(walk) = k /\ walk[k] = Link(slot)
        BY <3>2 DEF Down
      <4>2. walk[Len(walk)].address = frames[slot + 1]
        BY <4>1 DEF Link
      <4> QED
        BY <2>1, <4>1, <4>2, Zenon DEF NextWords
    <3> QED
      BY <3>1, <3>2, Zenon
  <2>3. Present(frames[slot + 1], index) \subseteq Stored
    BY <2>1 DEF Present, Stored
  <2> QED
    BY <2>2, <2>3, Zenon
\* Appending a word.
<1>Appended.
    ASSUME NEW k \in Nat, NEW slot, NEW walk, Down(walk, k, slot), NEW w \in Stored
    PROVE  /\ Append(walk, w)[k + 1] = w
           /\ \A i \in 1..k : Append(walk, w)[i].flags = INTERMEDIATE
           /\ \A c : w = Link(c) => Down(Append(walk, w), k + 1, c)
  <2> USE <1>Appended
  <2>0. PICK longer : longer = Append(walk, w)
    BY Zenon
  <2>1. /\ walk \in Seq(Stored) /\ Len(walk) = k
        /\ \A i \in 1..k : walk[i].flags = INTERMEDIATE
    BY Zenon DEF Down
  <2>2. /\ longer \in Seq(Stored) /\ Len(longer) = k + 1 /\ longer[k + 1] = w
        /\ \A i \in 1..k : longer[i] = walk[i]
    BY <2>0, <2>1, Grown
  <2>3. \A i \in 1..k : longer[i].flags = INTERMEDIATE
    BY <2>1, <2>2, Zenon
  <2>4. ASSUME NEW c, w = Link(c) PROVE Down(longer, k + 1, c)
    <3>1. w.flags = INTERMEDIATE
      BY <2>4, Zenon DEF Link
    <3>2. \A i \in 1..(k + 1) : longer[i].flags = INTERMEDIATE
      <4>1. \A i \in 1..(k + 1) : i \in 1..k \/ i = k + 1
        OBVIOUS
      <4> QED
        BY <2>2, <2>3, <3>1, <4>1, Zenon
    <3>3. k + 1 # 0
      OBVIOUS
    <3> QED
      BY <2>2, <2>4, <3>2, <3>3, Zenon DEF Down
  <2> QED
    BY <2>0, <2>2, <2>3, <2>4, Zenon
\* The fourth word.
<1>AppendedFourth.
    ASSUME NEW slot, NEW walk, Down(walk, 3, slot), NEW w \in Stored
    PROVE  Ends(Append(walk, w), w)
  <2> USE <1>AppendedFourth
  <2>1. PICK longer : longer = Append(walk, w)
    BY Zenon
  <2>2. /\ walk \in Seq(Stored) /\ Len(walk) = 3
        /\ \A i \in 1..3 : walk[i].flags = INTERMEDIATE
    BY Zenon DEF Down
  <2>3. /\ longer[Len(walk) + 1] = w
        /\ \A i \in 1..Len(walk) : longer[i] = walk[i]
    BY <2>1, <2>2, Grown
  <2>4. longer[4] = w /\ \A i \in 1..3 : longer[i] = walk[i]
    BY <2>2, <2>3
  <2>5. Ends(longer, w)
    BY <2>2, <2>4, Zenon DEF Ends
  <2> QED
    BY <2>1, <2>5, Zenon
\* Above level 1 a walk goes on to the child at the index.
<1>WalkDown.
    ASSUME IInv, SInv, TInv, phase = "verified", NEW slot \in Slots(plan),
           NEW index \in TableIndices, plan.tables[slot + 1].level # 1,
           NEW k \in Nat, NEW walk, Down(walk, k, slot)
    PROVE  /\ \A w \in NextWords(walk, index) :
                \E c : Below(plan, slot, index, c) /\ Down(Append(walk, w), k + 1, c)
           /\ \A c : Below(plan, slot, index, c) =>
                \E w \in NextWords(walk, index) : Down(Append(walk, w), k + 1, c)
  <2> USE <1>WalkDown
  <2>1. Owned
    BY Zenon DEF TInv
  <2>2. /\ NextWords(walk, index) = Present(frames[slot + 1], index)
        /\ NextWords(walk, index) \subseteq Stored
    BY <2>1, <1>WordsOfSlot, Zenon
  <2>3. ASSUME NEW w
        PROVE  w \in NextWords(walk, index)
                 <=> \E c : Below(plan, slot, index, c) /\ w = Link(c)
    BY <2>2, <1>UpperWords
  <2>4. ASSUME NEW w \in NextWords(walk, index), NEW c, w = Link(c)
        PROVE  Down(Append(walk, w), k + 1, c)
    <3>1. w \in Stored
      BY <2>2, Zenon
    <3> QED
      BY <2>4, <3>1, <1>Appended, Zenon
  <2> QED
    BY <2>3, <2>4, Zenon
\* At level 1 a walk ends with the leaf.
<1>WalkToLeaf.
    ASSUME IInv, SInv, TInv, phase = "verified", NEW page \in VirtualPages, NEW pt,
           OnPath(plan, pt, page), NEW walk, Down(walk, 3, pt)
    PROVE  /\ \A w \in NextWords(walk, virtual_address_indices(page)[4]) :
                \E e \in leaf_entry(plan, page) :
                  /\ Ends(Append(walk, w), w)
                  /\ w.address = e.value /\ w.flags = e.flags
           /\ \A e \in leaf_entry(plan, page) : e.table_slot = pt =>
                \E w \in NextWords(walk, virtual_address_indices(page)[4]) :
                  Ends(Append(walk, w), w) /\ w.address = e.value
  <2> USE <1>WalkToLeaf
  <2>1. PICK index \in TableIndices : index = virtual_address_indices(page)[4]
    BY IndexRange
  <2>2. Owned /\ pt \in Slots(plan)
    BY Zenon DEF TInv, OnPath, Below
  <2>3. /\ NextWords(walk, index) = Present(frames[pt + 1], index)
        /\ NextWords(walk, index) \subseteq Stored
    BY <2>2, <1>WordsOfSlot, Zenon
  <2>4. ASSUME NEW w \in NextWords(walk, index)
        PROVE  Ends(Append(walk, w), w)
    <3>1. w \in Stored
      BY <2>3, Zenon
    <3> QED
      BY <3>1, <1>AppendedFourth, Zenon
  <2>5. ASSUME NEW w \in NextWords(walk, index)
        PROVE  \E e \in leaf_entry(plan, page) : w.address = e.value /\ w.flags = e.flags
    <3>1. w \in Present(frames[pt + 1], virtual_address_indices(page)[4])
      BY <2>1, <2>3, <2>5, Zenon
    <3> QED
      BY <3>1, <1>LowerWords
  <2>6. ASSUME NEW e \in leaf_entry(plan, page), e.table_slot = pt
        PROVE  \E w \in NextWords(walk, index) : w.address = e.value
    <3>1. \E w \in Present(frames[pt + 1], virtual_address_indices(page)[4]) :
            w.address = e.value
      BY <2>6, <1>LowerWords, Zenon
    <3> QED
      BY <2>1, <2>3, <3>1, Zenon
  <2> QED
    BY <2>1, <2>4, <2>5, <2>6, Zenon
<1>LongerFrom.
    ASSUME NEW walks, NEW index, NEW x \in Longer(walks, index)
    PROVE  \E walk \in walks : \E w \in NextWords(walk, index) : x = Append(walk, w)
  <2> USE <1>LongerFrom
  <2>1. PICK S \in {{Append(walk, w) : w \in NextWords(walk, index)} : walk \in walks} : x \in S
    BY Zenon DEF Longer
  <2>2. PICK walk \in walks : S = {Append(walk, w) : w \in NextWords(walk, index)}
    BY Zenon
  <2>3. PICK w \in NextWords(walk, index) : x = Append(walk, w)
    BY <2>1, <2>2, Zenon
  <2> QED
    BY <2>3, Zenon
<1>LongerHas.
    ASSUME NEW walks, NEW index, NEW walk \in walks, NEW w \in NextWords(walk, index)
    PROVE  Append(walk, w) \in Longer(walks, index)
  <2> USE <1>LongerHas
  <2> DEFINE from(v) == {Append(v, u) : u \in NextWords(v, index)}
  <2>1. PICK x : x = Append(walk, w)
    BY Zenon
  <2>2. x \in from(walk)
    BY <2>1, Zenon
  <2>3. Longer(walks, index) = UNION {from(v) : v \in walks}
    BY Zenon DEF Longer
  <2> HIDE DEF from
  <2>4. from(walk) \in {from(v) : v \in walks}
    BY Zenon
  <2>5. x \in Longer(walks, index)
    BY <2>2, <2>3, <2>4, Zenon
  <2> QED
    BY <2>1, <2>5, Zenon
<1>ComeDown.
    ASSUME IInv, SInv, TInv, phase = "verified", NEW index \in TableIndices,
           NEW slots \in SUBSET Slots(plan),
           \A slot \in slots : plan.tables[slot + 1].level # 1,
           NEW k \in Nat, NEW walks, ComeTo(walks, k, slots)
    PROVE  ComeTo(Longer(walks, index), k + 1, SlotsBelow(slots, index))
  <2> USE <1>ComeDown
  <2>1. ASSUME NEW x \in Longer(walks, index)
        PROVE  \E c \in SlotsBelow(slots, index) : Down(x, k + 1, c)
    <3>0. PICK walk \in walks : \E w \in NextWords(walk, index) : x = Append(walk, w)
      BY <2>1, <1>LongerFrom
    <3>1. PICK w \in NextWords(walk, index) : x = Append(walk, w)
      BY <3>0, Zenon
    <3>2. PICK slot \in slots : Down(walk, k, slot)
      BY Zenon DEF ComeTo
    <3>3. slot \in Slots(plan) /\ plan.tables[slot + 1].level # 1
      BY Zenon
    <3>4. PICK c : Below(plan, slot, index, c) /\ Down(Append(walk, w), k + 1, c)
      BY <3>2, <3>3, <1>WalkDown, Zenon
    <3>5. c \in SlotsBelow(slots, index)
      BY <3>4, Zenon DEF SlotsBelow, Below
    <3> QED
      BY <3>1, <3>4, <3>5, Zenon
  <2>2. ASSUME NEW c \in SlotsBelow(slots, index)
        PROVE  \E x \in Longer(walks, index) : Down(x, k + 1, c)
    <3>1. PICK slot \in slots : Below(plan, slot, index, c)
      BY <2>2, Zenon DEF SlotsBelow
    <3>2. PICK walk \in walks : Down(walk, k, slot)
      BY Zenon DEF ComeTo
    <3>3. slot \in Slots(plan) /\ plan.tables[slot + 1].level # 1
      BY Zenon
    <3>4. PICK w \in NextWords(walk, index) : Down(Append(walk, w), k + 1, c)
      BY <3>1, <3>2, <3>3, <1>WalkDown, Zenon
    <3>5. Append(walk, w) \in Longer(walks, index)
      BY <1>LongerHas, Zenon
    <3> QED
      BY <3>4, <3>5, Zenon
  <2> QED
    BY <2>1, <2>2, Zenon DEF ComeTo
\* The levels on the way down.
<1>SlotsBelowLevel.
    ASSUME IInv, SInv, NEW slots \in SUBSET Slots(plan), NEW index, NEW level \in 1..3,
           \A slot \in slots : plan.tables[slot + 1].level = level + 1
    PROVE  \A c \in SlotsBelow(slots, index) : plan.tables[c + 1].level = level
  <2> USE <1>SlotsBelowLevel
  <2> SUFFICES ASSUME NEW c \in SlotsBelow(slots, index)
               PROVE  plan.tables[c + 1].level = level
    BY Zenon
  <2>1. PICK slot \in slots : Below(plan, slot, index, c)
    BY Zenon DEF SlotsBelow
  <2>2. /\ plan.tables[c + 1].level \in 1..3
        /\ plan.tables[slot + 1].level = plan.tables[c + 1].level + 1
    BY <2>1, <1>LevelBelow, Zenon
  <2>3. plan.tables[slot + 1].level = level + 1
    BY Zenon
  <2> QED
    BY <2>2, <2>3
<1> TAKE page \in VirtualPages
<1> HAVE IInv /\ SInv /\ TInv /\ phase = "verified"
<1> DEFINE at(i) == virtual_address_indices(page)[i]
           S1 == Longer({<<>>}, at(1))
           S2 == Longer(S1, at(2))
           S3 == Longer(S2, at(3))
           C1 == SlotsBelow({0}, at(1))
           C2 == SlotsBelow(C1, at(2))
           C3 == SlotsBelow(C2, at(3))
<1>1. HardwareWalk(page) = Longer(S3, at(4))
  BY Zenon DEF HardwareWalk, Longer, NextWords
<1>2. /\ at(1) \in TableIndices /\ at(2) \in TableIndices
      /\ at(3) \in TableIndices /\ at(4) \in TableIndices
  BY IndexRange
<1>3. {0} \in SUBSET Slots(plan) /\ plan.tables[1].level = 4
  BY DEF Slots, IInv, Plans, Structure, SInv, Shaped, Levelled
<1>4. ComeTo({<<>>}, 0, {0})
  <2>1. <<>> \in Seq(Stored) /\ Len(<<>>) = 0
    OBVIOUS
  <2>2. Down(<<>>, 0, 0)
    BY <2>1 DEF Down
  <2> QED
    BY <2>2, Zenon DEF ComeTo
<1>5. /\ C1 \in SUBSET Slots(plan) /\ C2 \in SUBSET Slots(plan) /\ C3 \in SUBSET Slots(plan)
  BY Zenon DEF SlotsBelow
<1> HIDE DEF at
<1>6. \A slot \in {0} : plan.tables[slot + 1].level = 4
  BY <1>3
<1>7. \A slot \in C1 : plan.tables[slot + 1].level = 3
  <2>1. 3 \in 1..3 /\ 3 + 1 = 4
    OBVIOUS
  <2>2. \A slot \in {0} : plan.tables[slot + 1].level = 3 + 1
    BY <1>6, <2>1, Zenon
  <2> QED
    BY <1>3, <2>1, <2>2, <1>SlotsBelowLevel
<1>8. \A slot \in C2 : plan.tables[slot + 1].level = 2
  <2> HIDE DEF C1
  <2>1. \A slot \in C1 : plan.tables[slot + 1].level = 2 + 1
    BY <1>7
  <2> QED
    BY <1>5, <2>1, <1>SlotsBelowLevel
<1>9. ComeTo(S1, 1, C1)
  <2>1. \A slot \in {0} : plan.tables[slot + 1].level # 1
    BY <1>6
  <2>2. 0 \in Nat /\ 0 + 1 = 1
    OBVIOUS
  <2>3. ComeTo(S1, 0 + 1, C1)
    BY <1>2, <1>3, <1>4, <2>1, <2>2, <1>ComeDown, Zenon
  <2> QED
    BY <2>2, <2>3, Zenon
<1> HIDE DEF S1, C1
<1>10. ComeTo(S2, 2, C2)
  <2>1. \A slot \in C1 : plan.tables[slot + 1].level # 1
    BY <1>7
  <2>2. 1 \in Nat /\ 1 + 1 = 2
    OBVIOUS
  <2>3. ComeTo(S2, 1 + 1, C2)
    BY <1>2, <1>5, <1>9, <2>1, <2>2, <1>ComeDown, Zenon
  <2> QED
    BY <2>2, <2>3, Zenon
<1>11. ASSUME NEW pt PROVE pt \in C3 <=> OnPath(plan, pt, page)
  <2> USE DEF C1, at
  <2>1. ASSUME pt \in C3 PROVE OnPath(plan, pt, page)
    BY <2>1, Zenon DEF SlotsBelow, OnPath
  <2>2. ASSUME OnPath(plan, pt, page) PROVE pt \in C3
    BY <2>2, Zenon DEF SlotsBelow, OnPath, Below
  <2> QED
    BY <2>1, <2>2, Zenon
<1> HIDE DEF S2, C2
<1>12. ComeTo(S3, 3, C3)
  <2>1. \A slot \in C2 : plan.tables[slot + 1].level # 1
    BY <1>8
  <2>2. 2 \in Nat /\ 2 + 1 = 3
    OBVIOUS
  <2>3. ComeTo(S3, 2 + 1, C3)
    BY <1>2, <1>5, <1>10, <2>1, <2>2, <1>ComeDown, Zenon
  <2> QED
    BY <2>2, <2>3, Zenon
<1> HIDE DEF S3, C3
<1>13. ASSUME NEW x \in HardwareWalk(page)
       PROVE  \E e \in leaf_entry(plan, page) : \E w :
                Ends(x, w) /\ w.address = e.value /\ w.flags = e.flags
  <2>0. PICK walk \in S3 : \E w \in NextWords(walk, at(4)) : x = Append(walk, w)
    BY <1>1, <1>13, <1>LongerFrom
  <2>1. PICK w \in NextWords(walk, at(4)) : x = Append(walk, w)
    BY <2>0, Zenon
  <2>2. PICK pt \in C3 : Down(walk, 3, pt)
    BY <1>12, Zenon DEF ComeTo
  <2>3. OnPath(plan, pt, page)
    BY <1>11, Zenon
  <2>4. \E e \in leaf_entry(plan, page) :
          Ends(Append(walk, w), w) /\ w.address = e.value /\ w.flags = e.flags
    BY <2>2, <2>3, <1>WalkToLeaf DEF at
  <2> QED
    BY <2>1, <2>4, Zenon
<1>14. ASSUME NEW e \in leaf_entry(plan, page)
       PROVE  \E walk \in HardwareWalk(page) : \E w : Ends(walk, w) /\ w.address = e.value
  <2>1. plan \in Plans /\ Structure(plan)
    BY Zenon DEF IInv
  <2>2. OnPath(plan, e.table_slot, page)
    BY <2>1, WalkEnds, Zenon
  <2>3. PICK walk \in S3 : Down(walk, 3, e.table_slot)
    BY <1>11, <1>12, <2>2, Zenon DEF ComeTo
  <2>4. PICK w \in NextWords(walk, at(4)) : Ends(Append(walk, w), w) /\ w.address = e.value
    BY <2>2, <2>3, <1>WalkToLeaf DEF at
  <2>5. Append(walk, w) \in HardwareWalk(page)
    BY <1>1, <1>LongerHas, Zenon
  <2> QED
    BY <2>4, <2>5, Zenon
<1> QED
  BY <1>13, <1>14, Zenon

-----------------------------------------------------------------------------
(* What a processor sees in verified tables.                                 *)

LEMMA VerifiedTranslate ==
  IInv /\ SInv /\ TInv => VerifiedTablesTranslateThePlan
\* A walk's flags are those of three intermediate entries and of the leaf.
<1>FlagsOfWalk.
    ASSUME NEW walk, NEW w, Ends(walk, w), w.flags \in SUBSET Flags
    PROVE  /\ walk[4] = w
           /\ (\A i \in 1..4 : "WRITABLE" \in walk[i].flags) <=> "WRITABLE" \in w.flags
           /\ (\E i \in 1..4 : "NO_EXECUTE" \in walk[i].flags) <=> "NO_EXECUTE" \in w.flags
           /\ \A i \in 1..4 : walk[i].flags \cap {"USER", "HUGE_PAGE", "OTHER"} = {}
  <2> USE <1>FlagsOfWalk
  <2>1. walk[4] = w /\ \A i \in 1..3 : walk[i].flags = INTERMEDIATE
    BY Zenon DEF Ends
  <2>2. \A i \in 1..4 : i \in 1..3 \/ i = 4
    OBVIOUS
  <2>3. 4 \in 1..4 /\ 1..3 \subseteq 1..4
    OBVIOUS
  <2>4. /\ "WRITABLE" \in INTERMEDIATE /\ "NO_EXECUTE" \notin INTERMEDIATE
        /\ INTERMEDIATE \cap {"USER", "HUGE_PAGE", "OTHER"} = {}
    BY Zenon DEF INTERMEDIATE
  <2>5. w.flags \cap {"USER", "HUGE_PAGE", "OTHER"} = {}
    BY Zenon DEF Flags
  <2> QED
    BY <2>1, <2>2, <2>3, <2>4, <2>5, Zenon
<1> SUFFICES ASSUME IInv, SInv, TInv, phase = "verified", NEW page \in VirtualPages
    PROVE  /\ {walk[4].address : walk \in HardwareWalk(page)} = translate(page)
           /\ \A walk \in HardwareWalk(page), m \in Covering(page) :
                /\ (\A i \in 1..4 : "WRITABLE" \in walk[i].flags) = ("WRITE" \in m.permissions)
                /\ (\E i \in 1..4 : "NO_EXECUTE" \in walk[i].flags)
                     = ("EXECUTE" \notin m.permissions)
                /\ \A i \in 1..4 : walk[i].flags \cap {"USER", "HUGE_PAGE", "OTHER"} = {}
  BY Zenon DEF VerifiedTablesTranslateThePlan
<1>1. stage = "built"
  BY Zenon DEF TInv
<1>2. WalkMatchesMappings
  BY PlansMatch, Zenon
<1>3. /\ {e.value : e \in leaf_entry(plan, page)} = translate(page)
      /\ \A m \in Covering(page) : \A e \in leaf_entry(plan, page) :
           /\ ("WRITABLE" \in e.flags) = ("WRITE" \in m.permissions)
           /\ ("NO_EXECUTE" \in e.flags) = ("EXECUTE" \notin m.permissions)
  BY <1>1, <1>2, Zenon DEF WalkMatchesMappings
<1>4. ASSUME NEW walk \in HardwareWalk(page)
      PROVE  \E e \in leaf_entry(plan, page) : \E w :
               Ends(walk, w) /\ w.address = e.value /\ w.flags = e.flags
  BY WalksAreLeaves, Zenon
<1>5. ASSUME NEW e \in leaf_entry(plan, page)
      PROVE  \E walk \in HardwareWalk(page) : \E w : Ends(walk, w) /\ w.address = e.value
  BY WalksAreLeaves, Zenon
<1>6. ASSUME NEW e \in leaf_entry(plan, page) PROVE e.flags \in SUBSET Flags
  <2>1. plan \in Plans /\ Structure(plan)
    BY Zenon DEF IInv
  <2>2. PICK i \in 1..Len(plan.entries) : e = plan.entries[i]
    BY <2>1, WalkEnds
  <2>3. plan.entries \in Seq(Entries)
    BY <2>1, Zenon DEF Plans
  <2>4. e \in Entries
    BY <2>2, <2>3
  <2> QED
    BY <2>4, Zenon DEF Entries
<1>7. ASSUME NEW walk \in HardwareWalk(page)
      PROVE  \E e \in leaf_entry(plan, page) :
               /\ walk[4].address = e.value
               /\ (\A i \in 1..4 : "WRITABLE" \in walk[i].flags) <=> "WRITABLE" \in e.flags
               /\ (\E i \in 1..4 : "NO_EXECUTE" \in walk[i].flags) <=> "NO_EXECUTE" \in e.flags
               /\ \A i \in 1..4 : walk[i].flags \cap {"USER", "HUGE_PAGE", "OTHER"} = {}
  <2>1. PICK e \in leaf_entry(plan, page) : \E w :
               Ends(walk, w) /\ w.address = e.value /\ w.flags = e.flags
    BY <1>4, Zenon
  <2>2. PICK w : Ends(walk, w) /\ w.address = e.value /\ w.flags = e.flags
    BY <2>1, Zenon
  <2>3. w.flags \in SUBSET Flags
    BY <1>6, <2>2, Zenon
  <2>4. /\ walk[4] = w
        /\ (\A i \in 1..4 : "WRITABLE" \in walk[i].flags) <=> "WRITABLE" \in w.flags
        /\ (\E i \in 1..4 : "NO_EXECUTE" \in walk[i].flags) <=> "NO_EXECUTE" \in w.flags
        /\ \A i \in 1..4 : walk[i].flags \cap {"USER", "HUGE_PAGE", "OTHER"} = {}
    BY <2>2, <2>3, <1>FlagsOfWalk, Zenon
  <2> QED
    BY <2>2, <2>4, Zenon
<1>8. {walk[4].address : walk \in HardwareWalk(page)}
        = {e.value : e \in leaf_entry(plan, page)}
  <2>1. ASSUME NEW walk \in HardwareWalk(page)
        PROVE  walk[4].address \in {e.value : e \in leaf_entry(plan, page)}
    BY <1>7, Zenon
  <2>2. ASSUME NEW e \in leaf_entry(plan, page)
        PROVE  e.value \in {walk[4].address : walk \in HardwareWalk(page)}
    <3>1. PICK walk \in HardwareWalk(page) : \E w : Ends(walk, w) /\ w.address = e.value
      BY <1>5, Zenon
    <3>2. walk[4].address = e.value
      BY <3>1, Zenon DEF Ends
    <3> QED
      BY <3>2, Zenon
  <2> QED
    BY <2>1, <2>2, Zenon
<1>9. ASSUME NEW walk \in HardwareWalk(page), NEW m \in Covering(page)
      PROVE  /\ (\A i \in 1..4 : "WRITABLE" \in walk[i].flags) = ("WRITE" \in m.permissions)
             /\ (\E i \in 1..4 : "NO_EXECUTE" \in walk[i].flags)
                  = ("EXECUTE" \notin m.permissions)
             /\ \A i \in 1..4 : walk[i].flags \cap {"USER", "HUGE_PAGE", "OTHER"} = {}
  <2>1. PICK e \in leaf_entry(plan, page) :
          /\ (\A i \in 1..4 : "WRITABLE" \in walk[i].flags) <=> "WRITABLE" \in e.flags
          /\ (\E i \in 1..4 : "NO_EXECUTE" \in walk[i].flags) <=> "NO_EXECUTE" \in e.flags
          /\ \A i \in 1..4 : walk[i].flags \cap {"USER", "HUGE_PAGE", "OTHER"} = {}
    BY <1>7, Zenon
  <2>2. /\ "WRITABLE" \in e.flags <=> "WRITE" \in m.permissions
        /\ "NO_EXECUTE" \in e.flags <=> "EXECUTE" \notin m.permissions
    BY <1>3, Zenon
  <2>3. (\A i \in 1..4 : "WRITABLE" \in walk[i].flags) <=> "WRITE" \in m.permissions
    BY <2>1, <2>2, Zenon
  <2>4. (\E i \in 1..4 : "NO_EXECUTE" \in walk[i].flags) <=> "EXECUTE" \notin m.permissions
    BY <2>1, <2>2, Zenon
  <2>5. (\A i \in 1..4 : "WRITABLE" \in walk[i].flags) = ("WRITE" \in m.permissions)
    <3>1. CASE "WRITE" \in m.permissions
      <4>1. (\A i \in 1..4 : "WRITABLE" \in walk[i].flags) = TRUE
        BY <2>3, <3>1, Zenon
      <4>2. ("WRITE" \in m.permissions) = TRUE
        BY <3>1, Zenon
      <4> QED
        BY <4>1, <4>2, Zenon
    <3>2. CASE "WRITE" \notin m.permissions
      <4>1. (\A i \in 1..4 : "WRITABLE" \in walk[i].flags) = FALSE
        BY <2>3, <3>2, Zenon
      <4>2. ("WRITE" \in m.permissions) = FALSE
        BY <3>2
      <4> QED
        BY <4>1, <4>2, Zenon
    <3> QED
      BY <3>1, <3>2, Zenon
  <2>6. (\E i \in 1..4 : "NO_EXECUTE" \in walk[i].flags) = ("EXECUTE" \notin m.permissions)
    BY <2>4, Zenon
  <2> QED
    BY <2>1, <2>5, <2>6, Zenon
<1> QED
  BY <1>3, <1>8, <1>9, Zenon

\* Whatever is done to the memory between materialize and verify, tables that
\* PageTableMaterializer::verify accepted translate exactly the pages of the
\* mapping plan, with its permissions, on every walk a processor can make.
THEOREM TablesTranslate == TablesSpec => []VerifiedTablesTranslateThePlan
<1>1. TablesSpec => [](IInv /\ SInv /\ TInv)
  BY TablesInvariance, Zenon
<1> QED
  BY <1>1, VerifiedTranslate, PTL

=============================================================================
