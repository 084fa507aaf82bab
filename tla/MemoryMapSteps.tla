---------------------------- MODULE MemoryMapSteps ----------------------------
(***************************************************************************)
(* The inductive invariant of the conversion of the memory map, for every   *)
(* raw map, every list of reservations, every page size and every capacity. *)
(*                                                                         *)
(* IInv follows the conversion phase by phase: the lists being sorted are   *)
(* permutations of the input, sorted up to the loop counter; the            *)
(* descriptors kept and those still to be merged describe the raw map; the  *)
(* output describes the map below a front that moves up (cursor, or the end *)
(* of the map), cut along the reservations; and the page count of a         *)
(* reservation falls behind the front exactly if there is a hole in the map *)
(* below it.                                                                *)
(***************************************************************************)
EXTENDS MemoryMap, TLAPS

FirmwareKinds ==
  {"usable", "loader", "runtime", "acpi_reclaim", "unusable", "persistent", "reserved"}

Descriptors ==
  [kind: BootKinds \cup FirmwareKinds, start: 0..MaxAddress, pages: Nat, attributes: Nat]

Phases == {"push", "finish", "convert", "sort", "merge", "apply", "cut", "done", "failed"}

TypeOK ==
  /\ post_exit \in BOOLEAN
  /\ raw \in Seq(RawDescriptors) /\ wanted \in Seq(Reservations)
  /\ phase \in Phases
  /\ items \in Seq(Reservations)
  /\ scratch \in Seq(Descriptors) /\ output \in Seq(Descriptors)
  /\ covered \in Seq(Nat)
  /\ index \in Nat /\ inner \in Nat /\ cursor \in Nat /\ write \in Nat

Bytes == 0..MaxAddress

Label(d) == <<d.kind, d.attributes>>

\* What validate_range accepts.
Well(d) == d.pages > 0 /\ d.start % PageSize = 0 /\ RangeEnd(d) <= MaxAddress

AllWell(list) == \A k \in 1..Len(list) : Well(list[k])

SortedTo(list, n) ==
  \A k, m \in 1..Len(list) : k < m /\ m <= n => list[k].start <= list[m].start

\* In address order and without a shared byte, among the indices in set.
ApartOn(list, set) ==
  \A k, m \in set : k < m => RangeEnd(list[k]) <= list[m].start

Apart(list) == ApartOn(list, 1..Len(list))

Disjoint(list) ==
  \A k, m \in 1..Len(list) : \A a \in Bytes :
    Holds(list[k], a) /\ Holds(list[m], a) => k = m

Bijective(f, I) ==
  /\ \A k, m \in I : f[k] = f[m] => k = m
  /\ \A m \in I : \E k \in I : f[k] = m

Rearranged(list, other, I) ==
  \E f \in [I -> I] : Bijective(f, I) /\ \A k \in I : list[k] = other[f[k]]

Permutes(list, other) ==
  Len(list) = Len(other) /\ Rearranged(list, other, 1..Len(list))

\* The translated raw map.
Map == [k \in 1..Len(raw) |-> Converted(raw[k])]

\* The descriptors of list at the indices in set say of every byte what map M
\* says.
Describes(M, list, set) ==
  /\ \A q \in set : \A a \in Bytes : Holds(list[q], a) =>
       \E k \in 1..Len(M) : Holds(M[k], a) /\ Label(list[q]) = Label(M[k])
  /\ \A k \in 1..Len(M) : \A a \in Bytes : Holds(M[k], a) =>
       \E q \in set : Holds(list[q], a) /\ Label(list[q]) = Label(M[k])

Firmware(list) == \A k \in 1..Len(list) : list[k].kind \in FirmwareKinds

Pushed ==
  /\ Len(items) <= Len(wanted)
  /\ \A k \in 1..Len(items) : items[k] = wanted[k]
  /\ AllWell(items)
  /\ Len(items) <= RESERVATION_CAPACITY

Finishing ==
  /\ Permutes(items, wanted) /\ AllWell(items)
  /\ Len(items) <= RESERVATION_CAPACITY
  /\ index >= 2 /\ SortedTo(items, index - 1)

ItemsDone ==
  /\ Permutes(items, wanted) /\ AllWell(items)
  /\ Len(items) <= RESERVATION_CAPACITY
  /\ Apart(items)

Sorting ==
  /\ Permutes(scratch, Map) /\ AllWell(scratch) /\ Firmware(scratch)
  /\ Len(scratch) >= 1
  /\ index >= 2 /\ SortedTo(scratch, index - 1)

\* What merge_base_descriptors knows of its buffer S when w descriptors are kept
\* and the next one to read is i.
Kept(M, S, w, i) ==
  LET live == 1..w \cup i..Len(S) IN
  /\ S \in Seq(Descriptors) /\ AllWell(S) /\ Firmware(S)
  /\ ApartOn(S, live) /\ Describes(M, S, live)

Merging ==
  /\ write \in 1..Len(scratch) /\ index \in (write + 1)..(Len(scratch) + 1)
  /\ Len(scratch) <= Len(Map)
  /\ Kept(Map, scratch, write, index)
  /\ Disjoint(Map)

Normalized ==
  /\ Len(scratch) >= 1 /\ Len(scratch) <= Len(Map)
  /\ AllWell(scratch) /\ Firmware(scratch)
  /\ Apart(scratch)
  /\ Describes(Map, scratch, 1..Len(scratch))
  /\ Disjoint(Map)

ItemsReady ==
  \/ phase \in {"apply", "cut", "done"}
  \/ phase \in {"convert", "sort", "merge"} /\ ~post_exit

MapReady ==
  \/ phase \in {"apply", "cut", "done"}
  \/ phase \in {"push", "finish"} /\ post_exit

\* A descriptor of list S holds the byte.
Mapped(S, a) == \E q \in 1..Len(S) : Holds(S[q], a)

\* The label of byte a in the map S cut along the reservations R.
Says(S, R, label, a) ==
  \/ \E m \in 1..Len(R) : Holds(R[m], a) /\ label = <<R[m].kind, 0>>
  \/ /\ \A m \in 1..Len(R) : ~Holds(R[m], a)
     /\ \E q \in 1..Len(S) : Holds(S[q], a) /\ label = Label(S[q])

\* Where a descriptor of the output may start.
Boundary(S, R, a) ==
  \/ \E q \in 1..Len(S) : a = S[q].start
  \/ \E m \in 1..Len(R) : a = R[m].start \/ a = RangeEnd(R[m])

\* List O is the map S, cut along R, below address f.
Drawn(S, R, O, f) ==
  /\ \A k \in 1..Len(O) : Well(O[k]) /\ RangeEnd(O[k]) <= f /\ Boundary(S, R, O[k].start)
  /\ Apart(O)
  /\ \A k \in 1..Len(O) : \A a \in Bytes : Holds(O[k], a) =>
       Mapped(S, a) /\ Says(S, R, Label(O[k]), a)
  /\ \A a \in Bytes : Mapped(S, a) /\ a < f => \E k \in 1..Len(O) : Holds(O[k], a)
  /\ \A k \in 1..(Len(O) - 1) : O[k].kind \notin BootKinds => ~Mergeable(O[k], O[k + 1])

\* The cursor in descriptor i, with the first j - 1 reservations behind it.
Place(S, R, i, j, c) ==
  /\ S[i].start <= c /\ c <= RangeEnd(S[i]) /\ c % PageSize = 0
  /\ \/ c = S[i].start \/ c = RangeEnd(S[i])
     \/ \E m \in 1..Len(R) : c = RangeEnd(R[m])
  /\ \A m \in 1..Len(R) : m < j =>
       RangeEnd(R[m]) <= c \/ RangeEnd(S[i]) <= R[m].start \/ c = RangeEnd(S[i])

Front(S, i, c) == IF i <= Len(S) THEN c ELSE RangeEnd(S[Len(S)])

\* The part of reservation r below address f ends here.
Clamp(r, f) ==
  IF f <= r.start THEN r.start ELSE IF f < RangeEnd(r) THEN f ELSE RangeEnd(r)

\* n pages of reservation r were met below f: all of them, or there is a hole.
Counted(S, r, n, f) ==
  LET met == r.start + n * PageSize IN
  /\ met <= Clamp(r, f)
  /\ met = Clamp(r, f) =>
       \A a \in Bytes : r.start <= a /\ a < Clamp(r, f) => Mapped(S, a)
  /\ met < Clamp(r, f) =>
       \E a \in Addresses : r.start <= a /\ a < Clamp(r, f) /\ ~Mapped(S, a)

Cutting ==
  LET f == Front(scratch, index, cursor) IN
  /\ index \in 1..(Len(scratch) + 1) /\ inner \in 1..(Len(items) + 1)
  /\ index <= Len(scratch) => Place(scratch, items, index, inner, cursor)
  /\ Drawn(scratch, items, output, f)
  /\ Len(output) <= CONVERTED_DESCRIPTOR_CAPACITY
  /\ Len(covered) = Len(items)
  /\ \A k \in 1..Len(items) : Counted(scratch, items[k], covered[k], f)

IInv ==
  /\ TypeOK
  /\ phase # "failed" => error = "none"
  /\ phase = "push" => Pushed
  /\ phase = "finish" => Finishing
  /\ phase \in {"convert", "sort", "merge"} /\ post_exit => items = <<>>
  /\ ItemsReady => ItemsDone
  /\ phase = "sort" => Sorting
  /\ phase = "merge" => Merging
  /\ MapReady => Normalized
  /\ phase \notin {"cut", "done", "failed"} => output = <<>>
  /\ phase = "cut" => Cutting
  /\ ConvertedMapIsExact /\ ReservationsAreCovered /\ RefusedForAReason

-----------------------------------------------------------------------------
(* Addresses and pages                                                     *)

\* A multiple of the page size is aligned, and its page number is the factor.
LEMMA Multiple ==
  ASSUME NEW n \in Nat
  PROVE  /\ PageSize * n \in Nat
         /\ (PageSize * n) % PageSize = 0 /\ (PageSize * n) \div PageSize = n
  BY MemoryMapAssumption, Z3

\* An aligned address is a multiple of the page size.
LEMMA Aligned ==
  ASSUME NEW a \in Nat, a % PageSize = 0
  PROVE  \E n \in Nat : a = PageSize * n
<1>1. a \div PageSize \in Nat /\ a = PageSize * (a \div PageSize) + (a % PageSize)
  BY MemoryMapAssumption, Z3
<1>2. PageSize * (a \div PageSize) \in Nat
  BY <1>1, Multiple, Zenon
<1>3. a = PageSize * (a \div PageSize)
  BY <1>1, <1>2
<1> QED
  BY <1>1, <1>3, Zenon

\* The end of a range.
LEMMA Ends ==
  ASSUME NEW d, d.start \in Nat, d.pages \in Nat
  PROVE  /\ RangeEnd(d) \in Nat /\ d.start <= RangeEnd(d)
         /\ d.pages > 0 <=> d.start < RangeEnd(d)
         /\ d.start % PageSize = 0 => RangeEnd(d) % PageSize = 0
<1> DEFINE s == d.start
           n == d.pages
<1>1. n * PageSize \in Nat /\ (n > 0 <=> n * PageSize > 0)
  BY MemoryMapAssumption, Z3
<1>2. ASSUME s % PageSize = 0 PROVE (s + n * PageSize) % PageSize = 0
  <2>1. PICK m \in Nat : s = PageSize * m
    BY <1>2, Aligned, Zenon
  <2>2. s + n * PageSize = PageSize * (m + n) /\ m + n \in Nat
    BY <2>1, MemoryMapAssumption, Z3
  <2> QED
    BY <2>2, Multiple, Zenon
<1>3. RangeEnd(d) = s + n * PageSize
  BY Zenon DEF RangeEnd
<1> HIDE DEF s, n
<1>4. s = d.start /\ n = d.pages
  BY Zenon DEF s, n
<1> QED
  BY <1>1, <1>2, <1>3, <1>4

\* The pages between two aligned addresses.
LEMMA Span ==
  ASSUME NEW a \in Nat, NEW b \in Nat, a % PageSize = 0, b % PageSize = 0, a <= b
  PROVE  /\ (b - a) \div PageSize \in Nat
         /\ ((b - a) \div PageSize) * PageSize = b - a
         /\ (b - a) \div PageSize = 0 <=> a = b
<1>1. PICK m \in Nat : a = PageSize * m
  BY Aligned, Zenon
<1>2. PICK n \in Nat : b = PageSize * n
  BY Aligned, Zenon
<1>3. m <= n
  <2> SUFFICES ASSUME n < m PROVE FALSE
    OBVIOUS
  <2>1. PICK e \in Nat : m = n + 1 + e
    <3>1. m - n - 1 \in Nat /\ m = n + 1 + (m - n - 1)
      OBVIOUS
    <3> QED
      BY <3>1, Zenon
  <2>2. PageSize * (n + 1 + e) = PageSize * n + PageSize + PageSize * e
    BY MemoryMapAssumption, Z3
  <2>3. PageSize * e \in Nat /\ PageSize * n \in Nat
    BY Multiple, Zenon
  <2> QED
    BY <1>1, <1>2, <2>1, <2>2, <2>3, MemoryMapAssumption
<1>4. PICK e \in Nat : n = m + e
  <2>1. n - m \in Nat /\ n = m + (n - m)
    BY <1>3
  <2> QED
    BY <2>1, Zenon
<1>5. PageSize * (m + e) = PageSize * m + PageSize * e /\ PageSize * e = e * PageSize
  BY MemoryMapAssumption, Z3
<1>6. PageSize * m \in Nat /\ PageSize * e \in Nat
  BY Multiple, Zenon
<1>7. b - a = PageSize * e
  BY <1>1, <1>2, <1>4, <1>5, <1>6
<1>8. (b - a) \div PageSize = e
  BY <1>7, Multiple, Zenon
<1>9. e = 0 <=> PageSize * e = 0
  BY MemoryMapAssumption, Z3
<1> QED
  BY <1>5, <1>7, <1>8, <1>9

-----------------------------------------------------------------------------
(* Insertion sort                                                          *)

\* What the library says of sets of numbers; CountingHolds in MemoryMapProofs:
\* a non-empty set has a least element, and a list without a repetition is not
\* longer than the range of its elements.
Counting ==
  /\ \A N \in SUBSET Nat : N # {} => \E i \in N : \A j \in N : i <= j
  /\ \A l, n \in Nat : \A F \in [1..l -> 1..n] :
       l > n => \E x \in 1..l, y \in 1..l : x # y /\ F[x] = F[y]

\* The place that a round of insertion sort finds exists.
LEMMA PositionIs ==
  ASSUME Counting, NEW list, NEW k \in Nat \ {0}, \A q \in 1..k : list[q].start \in Nat
  PROVE  /\ Position(list, k) \in 1..k
         /\ \A q \in Position(list, k)..(k - 1) : list[q].start > list[k].start
         /\ Position(list, k) > 1 => list[Position(list, k) - 1].start <= list[k].start
<1> DEFINE N == {p \in 1..k : \A q \in p..(k - 1) : list[q].start > list[k].start}
<1>1. k \in N /\ N \in SUBSET Nat
  OBVIOUS
<1>2. PICK p \in N : \A j \in N : p <= j
  BY <1>1, Zenon DEF Counting
<1>3. p \in 1..k /\ \A q \in p..(k - 1) : list[q].start > list[k].start
  BY Zenon
<1>4. ASSUME p > 1 PROVE list[p - 1].start <= list[k].start
  <2> SUFFICES ASSUME list[p - 1].start > list[k].start PROVE FALSE
    BY <1>3, <1>4
  <2>1. p - 1 \in 1..k
    BY <1>3, <1>4
  <2>2. \A q \in (p - 1)..(k - 1) : list[q].start > list[k].start
    BY <1>3
  <2>3. p - 1 \in N
    BY <2>1, <2>2, Zenon
  <2> HIDE DEF N
  <2> QED
    BY <1>2, <1>3, <2>3
<1> QED
  BY <1>3, <1>4, Zenon DEF Position

\* Where the elements of the list after a round come from.
Origin(p, k, n) ==
  [q \in 1..n |-> IF q < p \/ q > k THEN q ELSE IF q = p THEN k ELSE q - 1]

LEMMA OriginIs ==
  ASSUME NEW n \in Nat, NEW k \in 1..n, NEW p \in 1..k
  PROVE  /\ Origin(p, k, n) \in [1..n -> 1..n]
         /\ Bijective(Origin(p, k, n), 1..n)
<1>1. Origin(p, k, n) \in [1..n -> 1..n]
  BY DEF Origin
<1>2. \A q, m \in 1..n : Origin(p, k, n)[q] = Origin(p, k, n)[m] => q = m
  BY DEF Origin
<1>3. ASSUME NEW m \in 1..n PROVE \E q \in 1..n : Origin(p, k, n)[q] = m
  <2>1. CASE m < p \/ m > k
    BY <2>1, Zenon DEF Origin
  <2>2. CASE m = k
    <3>1. Origin(p, k, n)[p] = m /\ p \in 1..n
      BY <2>2 DEF Origin
    <3> QED
      BY <3>1, Zenon
  <2>3. CASE p <= m /\ m < k
    <3>1. Origin(p, k, n)[m + 1] = m /\ m + 1 \in 1..n
      BY <2>3 DEF Origin
    <3> QED
      BY <3>1, Zenon
  <2> QED
    BY <2>1, <2>2, <2>3
<1> QED
  BY <1>1, <1>2, <1>3, Zenon DEF Bijective

\* A round of insertion sort permutes the list.
LEMMA InsertedIs ==
  ASSUME Counting,
         NEW D, \A d \in D : d.start \in Nat, NEW list \in Seq(D), NEW k \in 1..Len(list)
  PROVE  LET p == Position(list, k)
             new == Inserted(list, k)
         IN  /\ p \in 1..k /\ new \in Seq(D) /\ Len(new) = Len(list)
             /\ \A q \in 1..Len(list) : new[q] = list[Origin(p, k, Len(list))[q]]
<1> DEFINE p == Position(list, k)
           n == Len(list)
<1>1. n \in Nat /\ k \in Nat \ {0} /\ \A q \in 1..n : list[q] \in D
  OBVIOUS
<1>2. \A q \in 1..k : list[q].start \in Nat
  BY <1>1
<1>3. p \in 1..k
  BY <1>1, <1>2, PositionIs, Zenon
<1> HIDE DEF p
<1> DEFINE new == [q \in 1..n |-> IF q < p \/ q > k THEN list[q]
                                  ELSE IF q = p THEN list[k]
                                  ELSE list[q - 1]]
<1>4. Inserted(list, k) = new
  BY Zenon DEF Inserted, p
<1>5. \A q \in 1..n : new[q] = list[Origin(p, k, n)[q]]
  BY <1>1, <1>3, Zenon DEF Origin
<1>6. Origin(p, k, n) \in [1..n -> 1..n]
  BY <1>1, <1>3, OriginIs, Zenon
<1>7. \A q \in 1..n : new[q] \in D
  BY <1>1, <1>5, <1>6, Zenon
<1>8. new \in [1..n -> D]
  BY <1>7, Zenon
<1>9. new \in Seq(D) /\ Len(new) = n
  BY <1>1, <1>8
<1> QED
  BY <1>3, <1>4, <1>5, <1>9, Zenon DEF p

\* A round of insertion sort keeps what holds of the elements, and how the list
\* is made up.
LEMMA InsertedKeeps ==
  \A D : \A list \in Seq(D) : \A k \in 1..Len(list) : \A other :
    Counting /\ (\A d \in D : d.start \in Nat) /\ Permutes(list, other) =>
        LET new == Inserted(list, k)
        IN  /\ new \in Seq(D) /\ Len(new) = Len(list)
            /\ Permutes(new, other)
            /\ AllWell(list) => AllWell(new)
            /\ Firmware(list) => Firmware(new)
\* One permutation after another.
<1>Composition.
    ASSUME NEW I, NEW new, NEW list, NEW other,
           Rearranged(new, list, I), Rearranged(list, other, I)
    PROVE  Rearranged(new, other, I)
  <2> USE <1>Composition
  <2>0. PICK o \in [I -> I] : Bijective(o, I) /\ \A q \in I : new[q] = list[o[q]]
    BY Zenon DEF Rearranged
  <2>1. PICK f \in [I -> I] : Bijective(f, I) /\ \A q \in I : list[q] = other[f[q]]
    BY Zenon DEF Rearranged
  <2> DEFINE g == [q \in I |-> f[o[q]]]
  <2>2. g \in [I -> I] /\ \A q \in I : g[q] = f[o[q]] /\ o[q] \in I
    BY Zenon
  <2> HIDE DEF g
  <2>3. ASSUME NEW q \in I, NEW m \in I, g[q] = g[m] PROVE q = m
    <3>1. o[q] \in I /\ o[m] \in I /\ f[o[q]] = f[o[m]]
      BY <2>2, <2>3, Zenon
    <3>2. \A x, y \in I : f[x] = f[y] => x = y
      BY <2>1, Zenon DEF Bijective
    <3>3. o[q] = o[m]
      BY <3>1, <3>2, Zenon
    <3> QED
      BY <2>0, <3>3, Zenon DEF Bijective
  <2>4. ASSUME NEW m \in I PROVE \E q \in I : g[q] = m
    <3>1. PICK r \in I : f[r] = m
      BY <2>1, Zenon DEF Bijective
    <3>2. PICK q \in I : o[q] = r
      BY <2>0, Zenon DEF Bijective
    <3>3. g[q] = m
      BY <2>2, <3>1, <3>2, Zenon
    <3> QED
      BY <3>3, Zenon
  <2>5. ASSUME NEW q \in I PROVE new[q] = other[g[q]]
    <3>1. new[q] = list[o[q]] /\ o[q] \in I /\ g[q] = f[o[q]]
      BY <2>0, <2>2, Zenon
    <3>2. list[o[q]] = other[f[o[q]]]
      BY <2>1, <3>1, Zenon
    <3> QED
      BY <3>1, <3>2, Zenon
  <2>6. Bijective(g, I)
    BY <2>3, <2>4, Zenon DEF Bijective
  <2> QED
    BY <2>2, <2>5, <2>6, Zenon DEF Rearranged
<1> TAKE D
<1> TAKE list \in Seq(D)
<1> TAKE k \in 1..Len(list)
<1> TAKE other
<1> HAVE Counting /\ (\A d \in D : d.start \in Nat) /\ Permutes(list, other)
<1> DEFINE new == Inserted(list, k)
<1>1. PICK n \in Nat : n = Len(list)
  OBVIOUS
<1>2. PICK p \in 1..k : p = Position(list, k)
  BY InsertedIs, Zenon
<1> DEFINE o == Origin(p, k, n)
<1>3. /\ new \in Seq(D) /\ Len(new) = n
      /\ \A q \in 1..n : new[q] = list[o[q]]
  BY <1>1, <1>2, InsertedIs, Zenon
<1>4. o \in [1..n -> 1..n] /\ Bijective(o, 1..n)
  <2>1. k \in 1..n
    BY <1>1, Zenon
  <2> QED
    BY <2>1, OriginIs, Zenon
<1> HIDE DEF new, o
<1>5. n = Len(other) /\ Rearranged(list, other, 1..n)
  BY <1>1, Zenon DEF Permutes
<1>6. Rearranged(new, list, 1..n)
  BY <1>3, <1>4, Zenon DEF Rearranged
<1>7. \A q \in 1..n : o[q] \in 1..n
  BY <1>4, Zenon
<1>8. Rearranged(new, other, 1..n)
  BY <1>5, <1>6, <1>Composition, Zenon
<1>9. Permutes(new, other)
  BY <1>3, <1>5, <1>8, Zenon DEF Permutes
<1>10. ASSUME AllWell(list) PROVE AllWell(new)
  BY <1>1, <1>3, <1>7, <1>10, Zenon DEF AllWell
<1>11. ASSUME Firmware(list) PROVE Firmware(new)
  BY <1>1, <1>3, <1>7, <1>11, Zenon DEF Firmware
<1> QED
  BY <1>1, <1>3, <1>9, <1>10, <1>11, Zenon DEF new

\* A round of insertion sort sorts one element more.
LEMMA InsertedSorts ==
  ASSUME Counting,
         NEW D, \A d \in D : d.start \in Nat, NEW list \in Seq(D), NEW k \in 1..Len(list),
         SortedTo(list, k - 1)
  PROVE  SortedTo(Inserted(list, k), k)
<1> DEFINE new == Inserted(list, k)
           p == Position(list, k)
           s == [q \in 1..Len(list) |-> list[q].start]
<1>1. PICK n \in Nat : n = Len(list)
  OBVIOUS
<1>2. /\ p \in 1..k /\ Len(new) = n
      /\ \A q \in 1..n : new[q] = list[Origin(p, k, n)[q]]
  BY <1>1, InsertedIs, Zenon
<1>3. \A q \in 1..n : list[q].start \in Nat
  BY <1>1
<1>4. /\ \A q \in p..(k - 1) : list[q].start > list[k].start
      /\ p > 1 => list[p - 1].start <= list[k].start
  <2>1. k \in Nat \ {0} /\ \A q \in 1..k : list[q].start \in Nat
    BY <1>1, <1>3
  <2> QED
    BY <2>1, PositionIs, Zenon
<1> HIDE DEF p, new
<1>5. Origin(p, k, n) \in [1..n -> 1..n]
  BY <1>1, <1>2, OriginIs, Zenon
<1>6. \A q \in 1..n : s[q] = list[q].start /\ s[q] \in Nat
  BY <1>1, <1>3, Zenon
<1> HIDE DEF s
<1>7. \A q, m \in 1..n : q < m /\ m <= k - 1 => s[q] <= s[m]
  BY <1>1, <1>6, Zenon DEF SortedTo
<1>8. /\ \A q \in p..(k - 1) : s[q] > s[k]
      /\ p > 1 => s[p - 1] <= s[k]
  <2>1. k \in 1..n /\ \A q \in p..(k - 1) : q \in 1..n
    BY <1>1, <1>2
  <2>2. p > 1 => p - 1 \in 1..n
    BY <1>1, <1>2
  <2> QED
    BY <1>4, <1>6, <2>1, <2>2, Zenon
<1>9. \A q \in 1..n : Origin(p, k, n)[q] = IF q < p \/ q > k THEN q ELSE IF q = p THEN k ELSE q - 1
  BY Zenon DEF Origin
<1>10. ASSUME NEW q \in 1..n, NEW m \in 1..n, q < m, m <= k
       PROVE  s[Origin(p, k, n)[q]] <= s[Origin(p, k, n)[m]]
  <2>1. k \in 1..n /\ p \in 1..n
    BY <1>1, <1>2
  <2>2. CASE m < p
    BY <1>2, <1>7, <1>9, <1>10, <2>1, <2>2
  <2>3. CASE m = p
    <3>1. q <= p - 1 /\ p - 1 \in 1..n /\ p > 1
      BY <1>10, <2>1, <2>3
    <3>2. s[q] <= s[p - 1]
      <4>1. q = p - 1 \/ q < p - 1
        BY <3>1
      <4>2. p - 1 <= k - 1
        BY <1>1, <1>2
      <4> QED
        BY <1>6, <1>7, <3>1, <4>1, <4>2
    <3>3. Origin(p, k, n)[q] = q /\ Origin(p, k, n)[m] = k
      <4>1. ~(m < p) /\ ~(m > k) /\ q < p
        BY <1>10, <2>1, <2>3
      <4> QED
        BY <1>9, <2>3, <4>1, Zenon
    <3> QED
      BY <1>6, <1>8, <2>1, <3>1, <3>2, <3>3
  <2>4. CASE m > p
    <3>1. Origin(p, k, n)[m] = m - 1 /\ m - 1 \in 1..n /\ m - 1 \in p..(k - 1)
      <4>1. ~(m < p) /\ ~(m > k) /\ m # p /\ m - 1 \in 1..n /\ m - 1 \in p..(k - 1)
        BY <1>10, <2>1, <2>4
      <4> QED
        BY <1>9, <4>1, Zenon
    <3>2. CASE q = p
      BY <1>2, <1>6, <1>8, <1>9, <1>10, <2>1, <3>1, <3>2
    <3>3. CASE q < p
      <4>1. Origin(p, k, n)[q] = q /\ q < m - 1 /\ m - 1 <= k - 1
        BY <1>9, <1>10, <2>1, <2>4, <3>3
      <4> QED
        BY <1>7, <3>1, <4>1, Zenon
    <3>4. CASE q > p
      <4>1. Origin(p, k, n)[q] = q - 1 /\ q - 1 < m - 1 /\ m - 1 <= k - 1 /\ q - 1 \in 1..n
        BY <1>9, <1>10, <2>1, <2>4, <3>4
      <4> QED
        BY <1>7, <3>1, <4>1, Zenon
    <3> QED
      BY <1>10, <2>1, <3>2, <3>3, <3>4
  <2> QED
    BY <1>10, <2>1, <2>2, <2>3, <2>4
<1>11. \A q \in 1..n : new[q].start = s[Origin(p, k, n)[q]]
  BY <1>2, <1>5, <1>6, Zenon
<1> QED
  BY <1>2, <1>10, <1>11, Zenon DEF SortedTo, new

-----------------------------------------------------------------------------
(* Sorted lists                                                            *)

\* Lists of descriptors or of reservations.
Ranges(D) == \A d \in D : d.start \in 0..MaxAddress /\ d.pages \in Nat

\* The ends of the ranges of a list.
LEMMA ListEnds ==
  ASSUME NEW D, Ranges(D), NEW list \in Seq(D)
  PROVE  /\ Len(list) \in Nat
         /\ \A k \in 1..Len(list) :
              /\ list[k] \in D
              /\ list[k].start \in Nat /\ list[k].start \in Bytes
              /\ list[k].pages \in Nat /\ RangeEnd(list[k]) \in Nat
              /\ list[k].start <= RangeEnd(list[k])
              /\ Well(list[k]) => /\ list[k].start < RangeEnd(list[k])
                                  /\ RangeEnd(list[k]) % PageSize = 0
                                  /\ list[k].start \in Addresses
<1>1. Len(list) \in Nat /\ \A k \in 1..Len(list) : list[k] \in D
  OBVIOUS
<1>2. ASSUME NEW d \in D
      PROVE  /\ d.start \in Nat /\ d.start \in Bytes
             /\ d.pages \in Nat /\ RangeEnd(d) \in Nat /\ d.start <= RangeEnd(d)
             /\ Well(d) => /\ d.start < RangeEnd(d) /\ RangeEnd(d) % PageSize = 0
                           /\ d.start \in Addresses
  <2>1. d.start \in 0..MaxAddress /\ d.pages \in Nat
    BY Zenon DEF Ranges
  <2>2. d.start \in Nat /\ d.start \in Bytes
    BY <2>1, MemoryMapAssumption DEF Bytes
  <2>3. /\ RangeEnd(d) \in Nat /\ d.start <= RangeEnd(d)
        /\ d.pages > 0 <=> d.start < RangeEnd(d)
        /\ d.start % PageSize = 0 => RangeEnd(d) % PageSize = 0
    BY <2>1, <2>2, Ends, Zenon
  <2>4. Well(d) => d.start \in Addresses
    BY <2>1, Zenon DEF Well, Addresses
  <2> QED
    BY <2>1, <2>2, <2>3, <2>4, Zenon DEF Well
<1> QED
  BY <1>1, <1>2, Zenon

SameElements(list, other) ==
  /\ \A k \in 1..Len(list) : \E x \in 1..Len(other) : list[k] = other[x]
  /\ \A x \in 1..Len(other) : \E k \in 1..Len(list) : list[k] = other[x]

\* A permuted list has the elements of the original.
LEMMA PermutedElements ==
  ASSUME NEW list, NEW other, Permutes(list, other)
  PROVE  SameElements(list, other)
<1> DEFINE I == 1..Len(list)
<1>1. Len(list) = Len(other) /\ Rearranged(list, other, I) /\ I = 1..Len(other)
  BY Zenon DEF Permutes
<1> HIDE DEF I
<1>2. PICK f \in [I -> I] : Bijective(f, I) /\ \A k \in I : list[k] = other[f[k]]
  BY <1>1, Zenon DEF Rearranged
<1>3. \A k \in I : \E x \in I : list[k] = other[x]
  BY <1>2, Zenon
<1>4. ASSUME NEW x \in I PROVE \E k \in I : list[k] = other[x]
  <2>1. PICK k \in I : f[k] = x
    BY <1>2, Zenon DEF Bijective
  <2> QED
    BY <1>2, <2>1, Zenon
<1>5. \A x \in I : \E k \in I : list[k] = other[x]
  BY <1>4, Zenon
<1> QED
  BY <1>1, <1>3, <1>5, Zenon DEF I, SameElements

\* What two elements of a permuted list share, two elements of the original do.
LEMMA PermutedShared ==
  ASSUME NEW list, NEW other, Permutes(list, other), SharedPage(list)
  PROVE  SharedPage(other)
<1> DEFINE I == 1..Len(list)
<1>1. Len(list) = Len(other) /\ Rearranged(list, other, I) /\ I = 1..Len(other)
  BY Zenon DEF Permutes
<1>2. PICK a \in Addresses : \E k, m \in I : k # m /\ Holds(list[k], a) /\ Holds(list[m], a)
  BY Zenon DEF SharedPage
<1> HIDE DEF I
<1>3. PICK k, m \in I : k # m /\ Holds(list[k], a) /\ Holds(list[m], a)
  BY <1>2, Zenon
<1>4. PICK f \in [I -> I] : Bijective(f, I) /\ \A q \in I : list[q] = other[f[q]]
  BY <1>1, Zenon DEF Rearranged
<1>5. f[k] \in I /\ f[m] \in I /\ list[k] = other[f[k]] /\ list[m] = other[f[m]]
  BY <1>4, Zenon
<1>6. f[k] # f[m]
  BY <1>3, <1>4, Zenon DEF Bijective
<1>7. Holds(other[f[k]], a) /\ Holds(other[f[m]], a)
  BY <1>3, <1>5, Zenon
<1> QED
  BY <1>1, <1>5, <1>6, <1>7, Zenon DEF SharedPage

LEMMA PermutedDisjoint ==
  ASSUME NEW list, NEW other, Permutes(list, other), Disjoint(list)
  PROVE  Disjoint(other)
<1> DEFINE I == 1..Len(list)
<1>1. Rearranged(list, other, I) /\ I = 1..Len(other)
  BY Zenon DEF Permutes
<1>2. \A k, m \in I : \A a \in Bytes : Holds(list[k], a) /\ Holds(list[m], a) => k = m
  BY Zenon DEF Disjoint
<1> HIDE DEF I
<1>3. PICK f \in [I -> I] : Bijective(f, I) /\ \A q \in I : list[q] = other[f[q]]
  BY <1>1, Zenon DEF Rearranged
<1>4. ASSUME NEW x \in I, NEW y \in I, NEW a \in Bytes, Holds(other[x], a), Holds(other[y], a)
      PROVE  x = y
  <2>1. PICK k \in I : f[k] = x
    BY <1>3, Zenon DEF Bijective
  <2>2. PICK m \in I : f[m] = y
    BY <1>3, Zenon DEF Bijective
  <2>3. list[k] = other[x] /\ list[m] = other[y]
    BY <1>3, <2>1, <2>2, Zenon
  <2>4. k = m
    BY <1>2, <1>4, <2>3, Zenon
  <2> QED
    BY <2>1, <2>2, <2>4, Zenon
<1> QED
  BY <1>1, <1>4, Zenon DEF Disjoint

\* In a sorted list an overlap of neighbours is a shared page, and without one
\* all ranges are apart.
LEMMA SortedList ==
  ASSUME NEW D, Ranges(D), NEW list \in Seq(D), AllWell(list), SortedTo(list, Len(list))
  PROVE  /\ ~Overlapping(list) => Apart(list)
         /\ Overlapping(list) => SharedPage(list)
<1>1. PICK n \in Nat : n = Len(list)
  BY ListEnds, Zenon
<1>2. \A k \in 1..n : /\ list[k].start \in Nat /\ RangeEnd(list[k]) \in Nat
                      /\ list[k].start < RangeEnd(list[k]) /\ list[k].start \in Addresses
  BY <1>1, ListEnds, Zenon DEF AllWell
<1>3. \A k, m \in 1..n : k < m => list[k].start <= list[m].start
  BY <1>1 DEF SortedTo
<1>4. ASSUME ~Overlapping(list) PROVE Apart(list)
  <2> SUFFICES ASSUME NEW k \in 1..n, NEW m \in 1..n, k < m
               PROVE  RangeEnd(list[k]) <= list[m].start
    BY <1>1, Zenon DEF Apart, ApartOn
  <2>1. k \in 1..(n - 1) /\ k + 1 \in 1..n /\ (k + 1 = m \/ k + 1 < m)
    OBVIOUS
  <2>2. ~(RangeEnd(list[k]) > list[k + 1].start)
    BY <1>1, <1>4, <2>1, Zenon DEF Overlapping
  <2>3. list[k + 1].start <= list[m].start
    <3>1. CASE k + 1 = m
      BY <1>2, <3>1
    <3>2. CASE k + 1 < m
      BY <1>3, <2>1, <3>2, Zenon
    <3> QED
      BY <2>1, <3>1, <3>2, Zenon
  <2>4. /\ RangeEnd(list[k]) \in Nat /\ list[k + 1].start \in Nat /\ list[m].start \in Nat
    BY <1>2, <2>1, Zenon
  <2> QED
    BY <2>2, <2>3, <2>4
<1>5. ASSUME Overlapping(list) PROVE SharedPage(list)
  <2>1. PICK k \in 1..(n - 1) : RangeEnd(list[k]) > list[k + 1].start
    BY <1>1, <1>5, Zenon DEF Overlapping
  <2>2. k \in 1..n /\ k + 1 \in 1..n /\ k < k + 1 /\ k # k + 1
    OBVIOUS
  <2>3. /\ list[k].start <= list[k + 1].start /\ list[k + 1].start \in Addresses
        /\ list[k + 1].start \in Nat /\ list[k + 1].start < RangeEnd(list[k + 1])
        /\ RangeEnd(list[k]) \in Nat
    BY <1>2, <1>3, <2>2, Zenon
  <2>4. Holds(list[k], list[k + 1].start) /\ Holds(list[k + 1], list[k + 1].start)
    BY <2>1, <2>3 DEF Holds
  <2> QED
    BY <1>1, <2>2, <2>3, <2>4, Zenon DEF SharedPage
<1> QED
  BY <1>4, <1>5, Zenon

\* Ranges apart share no byte.
LEMMA ApartDisjoint ==
  ASSUME NEW D, Ranges(D), NEW list \in Seq(D), Apart(list)
  PROVE  Disjoint(list)
<1>1. PICK n \in Nat : n = Len(list)
  BY ListEnds, Zenon
<1>2. \A k \in 1..n : list[k].start \in Nat /\ RangeEnd(list[k]) \in Nat
  BY <1>1, ListEnds, Zenon
<1>3. SUFFICES ASSUME NEW k \in 1..n, NEW m \in 1..n, NEW a \in Bytes,
                      Holds(list[k], a), Holds(list[m], a)
               PROVE  k = m
  BY <1>1, Zenon DEF Disjoint
<1>4. /\ list[k].start <= a /\ a < RangeEnd(list[k])
      /\ list[m].start <= a /\ a < RangeEnd(list[m])
  BY <1>3, Zenon DEF Holds
<1>5. /\ k < m => RangeEnd(list[k]) <= list[m].start
      /\ m < k => RangeEnd(list[m]) <= list[k].start
  BY <1>1, Zenon DEF Apart, ApartOn
<1>6. a \in Nat
  BY MemoryMapAssumption DEF Bytes
<1>7. /\ list[k].start \in Nat /\ RangeEnd(list[k]) \in Nat
      /\ list[m].start \in Nat /\ RangeEnd(list[m]) \in Nat
  BY <1>2, Zenon
<1> QED
  BY <1>4, <1>5, <1>6, <1>7, SMTT(30)

-----------------------------------------------------------------------------
(* Refusals and unfinished conversions                                     *)

LEMMA TypesOfLists ==
  /\ Ranges(Reservations) /\ Ranges(RawDescriptors) /\ Ranges(Descriptors)
  /\ \A d \in Reservations : d.start \in Nat
  /\ \A d \in Descriptors : d.start \in Nat
<1>1. Ranges(Reservations) /\ \A d \in Reservations : d.start \in Nat
  BY MemoryMapAssumption DEF Ranges, Reservations
<1>2. Ranges(RawDescriptors)
  BY MemoryMapAssumption, Zenon DEF Ranges, RawDescriptors
<1>3. Ranges(Descriptors) /\ \A d \in Descriptors : d.start \in Nat
  BY MemoryMapAssumption DEF Ranges, Descriptors
<1> QED
  BY <1>1, <1>2, <1>3, Zenon

\* What validate_range answers.
LEMMA ValidIsWell ==
  ASSUME NEW D, Ranges(D), NEW d \in D
  PROVE  /\ validate_range(d) = "none" <=> Well(d)
         /\ validate_range(d) \in {"none", "ZeroPages", "Unaligned", "RangeOverflow"}
<1>1. d.start \in Nat /\ d.pages \in Nat
  BY MemoryMapAssumption DEF Ranges
<1>2. RangeEnd(d) \in Nat
  BY <1>1, Ends, Zenon
<1>3. d.pages = 0 <=> ~(d.pages > 0)
  BY <1>1
<1>4. RangeEnd(d) > MaxAddress <=> ~(RangeEnd(d) <= MaxAddress)
  BY <1>2, MemoryMapAssumption
<1> QED
  BY <1>3, <1>4, Zenon DEF validate_range, Well, range_end_overflows

\* A refusal with a reason keeps the invariant.
LEMMA FailKeeps ==
  ASSUME IInv, NEW reason, Fail(reason), RefusedForAReason'
  PROVE  IInv'
<1>1. /\ phase' = "failed"
      /\ UNCHANGED <<post_exit, raw, wanted, items, scratch, output, covered,
                     index, inner, cursor, write>>
  BY Zenon DEF Fail, inputs, loops
<1>2. TypeOK'
  BY <1>1, Zenon DEF IInv, TypeOK, Phases
<1>3. ~ItemsReady' /\ ~MapReady'
  BY <1>1, Zenon DEF ItemsReady, MapReady
<1>4. ConvertedMapIsExact' /\ ReservationsAreCovered'
  BY <1>1, Zenon
     DEF ConvertedMapIsExact, PagesKeepTheirKind, MapIsMinimal, ReservationsAreCovered
<1> QED
  BY <1>1, <1>2, <1>3, <1>4, Zenon DEF IInv

\* A step between two phases of an unfinished conversion keeps the properties.
LEMMA UnfinishedKeeps ==
  ASSUME error = "none", error' = error, phase' \notin {"done", "failed"}
  PROVE  ConvertedMapIsExact' /\ ReservationsAreCovered' /\ RefusedForAReason'
<1>1. ConvertedMapIsExact' /\ ReservationsAreCovered'
  BY Zenon DEF ConvertedMapIsExact, PagesKeepTheirKind, MapIsMinimal, ReservationsAreCovered
<1>2. RefusedForAReason'
  BY Zenon DEF RefusedForAReason
<1> QED
  BY <1>1, <1>2, Zenon

\* Doing nothing keeps the invariant.
LEMMA StutterKeeps ==
  ASSUME IInv, UNCHANGED vars
  PROVE  IInv'
<1>1. UNCHANGED <<post_exit, raw, wanted, phase, error, items, scratch, output, covered,
                  index, inner, cursor, write>>
  BY Zenon DEF vars, inputs, loops
<1>2. Map' = Map
  BY <1>1, Zenon DEF Map, Converted
<1>3. TypeOK'
  BY <1>1, Zenon DEF IInv, TypeOK
<1>4. /\ (phase = "push" => Pushed)' /\ (phase = "finish" => Finishing)'
      /\ (ItemsReady => ItemsDone)'
  BY <1>1, Zenon DEF IInv, Pushed, Finishing, ItemsReady, ItemsDone
<1>5. /\ (phase = "sort" => Sorting)' /\ (phase = "merge" => Merging)'
      /\ (MapReady => Normalized)' /\ (phase = "cut" => Cutting)'
  BY <1>1, <1>2, Zenon DEF IInv, Sorting, Merging, MapReady, Normalized, Cutting
<1>6. ConvertedMapIsExact' /\ ReservationsAreCovered'
  <2>1. ConvertedMapIsExact /\ ReservationsAreCovered
    BY Zenon DEF IInv
  <2>2. ASSUME NEW a \in Addresses
        PROVE  InMap(a)' = InMap(a) /\ Reference(a)' = Reference(a)
    <3>1. InMap(a)' = InMap(a) /\ IsReserved(a)' = IsReserved(a)
      BY <1>1, Zenon DEF InMap, IsReserved
    <3>2. \A d : Converted(d)' = Converted(d)
      BY <1>1, Zenon DEF Converted
    <3> QED
      BY <1>1, <3>1, <3>2 DEF Reference
  <2>3. PagesKeepTheirKind'
    BY <1>1, <2>1, <2>2, Zenon DEF ConvertedMapIsExact, PagesKeepTheirKind
  <2>4. MapIsMinimal'
    BY <1>1, <2>1, Zenon DEF ConvertedMapIsExact, MapIsMinimal
  <2>5. ReservationsAreCovered'
    BY <1>1, <2>1, <2>2, Zenon DEF ReservationsAreCovered, SharedPage
  <2> QED
    BY <2>3, <2>4, <2>5, Zenon DEF ConvertedMapIsExact
<1>7. RefusedForAReason'
  <2>1. RefusedForAReason
    BY Zenon DEF IInv
  <2> QED
    BY <1>1, <2>1, Zenon DEF RefusedForAReason, Malformed, InMap, IsReserved
<1> QED
  BY <1>1, <1>3, <1>4, <1>5, <1>6, <1>7, Zenon DEF IInv

\* Nothing is known of an unfinished conversion's output.
LEMMA InitInv == Init => IInv
<1> SUFFICES ASSUME Init PROVE IInv
  BY Zenon
<1>1. /\ post_exit \in BOOLEAN /\ raw \in RawMaps /\ wanted \in ReservationLists
      /\ phase = IF post_exit THEN "convert" ELSE "push"
      /\ error = "none" /\ items = <<>> /\ scratch = <<>> /\ output = <<>> /\ covered = <<>>
      /\ index = 1 /\ inner = 1 /\ cursor = 0 /\ write = 1
  BY DEF Init, Start, FirstPhase
<1>2. TypeOK
  BY <1>1, MemoryMapAssumption DEF TypeOK, Phases
<1>3. Pushed
  BY <1>1, <1>2, MemoryMapAssumption DEF Pushed, AllWell, TypeOK
<1>4. phase \in {"convert", "push"} /\ ~ItemsReady /\ ~MapReady
  BY <1>1, Zenon DEF ItemsReady, MapReady
<1>5. ConvertedMapIsExact /\ ReservationsAreCovered /\ RefusedForAReason
  BY <1>1, <1>4, Zenon DEF ConvertedMapIsExact, PagesKeepTheirKind, MapIsMinimal,
     ReservationsAreCovered, RefusedForAReason
<1> QED
  BY <1>1, <1>2, <1>3, <1>4, <1>5, Zenon DEF IInv

-----------------------------------------------------------------------------
(* The reservation list                                                    *)

\* push refuses a bad range or a full list, or appends.
LEMMA PushKeeps ==
  ASSUME IInv, push
  PROVE  IInv'
<1> DEFINE r == wanted[Len(items) + 1]
<1>1. /\ phase = "push" /\ Len(items) < Len(wanted)
      /\ IF validate_range(r) # "none" THEN Fail(validate_range(r))
         ELSE IF Len(items) = RESERVATION_CAPACITY THEN Fail("ReservationCapacity")
         ELSE /\ items' = Append(items, r)
              /\ UNCHANGED <<inputs, phase, error, scratch, output, covered, loops>>
  BY Zenon DEF push
<1>2. TypeOK /\ Pushed /\ error = "none" /\ output = <<>>
  BY <1>1, Zenon DEF IInv
<1>3. PICK n \in Nat : n = Len(items)
  BY <1>2 DEF TypeOK
<1>4. /\ n + 1 \in 1..Len(wanted) /\ r \in Reservations /\ r = wanted[n + 1]
      /\ wanted \in Seq(Reservations)
  BY <1>1, <1>2, <1>3 DEF TypeOK
<1> HIDE DEF r
<1>5. /\ validate_range(r) = "none" <=> Well(r)
      /\ validate_range(r) \in {"none", "ZeroPages", "Unaligned", "RangeOverflow"}
  BY <1>4, TypesOfLists, ValidIsWell, Zenon
<1>6. CASE validate_range(r) # "none"
  <2>1. Fail(validate_range(r))
    BY <1>1, <1>6, Zenon
  <2>2. /\ error' = validate_range(r) /\ phase' = "failed" /\ wanted' = wanted /\ raw' = raw
    BY <2>1, Zenon DEF Fail, inputs
  <2>3. Malformed(wanted, validate_range(r))
    BY <1>4, Zenon DEF Malformed
  <2>4. RefusedForAReason'
    BY <1>5, <1>6, <2>2, <2>3, Zenon DEF RefusedForAReason
  <2> QED
    BY <2>1, <2>4, FailKeeps, Zenon
<1>7. CASE validate_range(r) = "none" /\ Len(items) = RESERVATION_CAPACITY
  <2>1. Fail("ReservationCapacity")
    BY <1>1, <1>7, Zenon
  <2>2. error' = "ReservationCapacity" /\ wanted' = wanted
    BY <2>1, Zenon DEF Fail, inputs
  <2>3. Len(wanted) > RESERVATION_CAPACITY
    BY <1>1, <1>4, <1>7, Zenon DEF TypeOK
  <2>4. RefusedForAReason'
    BY <2>2, <2>3, Zenon DEF RefusedForAReason
  <2> QED
    BY <2>1, <2>4, FailKeeps, Zenon
<1>8. CASE validate_range(r) = "none" /\ Len(items) # RESERVATION_CAPACITY
  <2>1. /\ items' = Append(items, r)
        /\ UNCHANGED <<post_exit, raw, wanted, phase, error, scratch, output, covered,
                       index, inner, cursor, write>>
    BY <1>1, <1>8, Zenon DEF inputs, loops
  <2>2. /\ items' \in Seq(Reservations) /\ Len(items') = n + 1
        /\ items'[n + 1] = r /\ \A k \in 1..n : items'[k] = items[k]
    BY <1>2, <1>3, <1>4, <2>1 DEF TypeOK
  <2>3. TypeOK'
    BY <1>2, <2>1, <2>2, Zenon DEF TypeOK
  <2>4. \A k \in 1..(n + 1) : k \in 1..n \/ k = n + 1
    OBVIOUS
  <2>5. \A k \in 1..Len(items') : items'[k] = wanted'[k] /\ Well(items'[k])
    BY <1>2, <1>3, <1>4, <1>5, <1>8, <2>1, <2>2, <2>4, SMTT(30) DEF Pushed, AllWell
  <2>6. Len(items') <= Len(wanted') /\ Len(items') <= RESERVATION_CAPACITY
    BY <1>2, <1>3, <1>4, <1>8, <2>1, <2>2, MemoryMapAssumption DEF Pushed
  <2>7. Pushed'
    BY <2>5, <2>6, Zenon DEF Pushed, AllWell
  <2>8. Map' = Map
    BY <2>1, Zenon DEF Map, Converted
  <2>9. phase' = "push" /\ error' = "none" /\ ~ItemsReady' /\ output' = <<>>
    BY <1>1, <1>2, <2>1, Zenon DEF ItemsReady
  <2>10. (MapReady => Normalized)'
    BY <2>1, <2>8, Zenon DEF IInv, MapReady, Normalized
  <2>11. ConvertedMapIsExact' /\ ReservationsAreCovered' /\ RefusedForAReason'
    BY <1>2, <2>1, <2>9, UnfinishedKeeps, Zenon
  <2> QED
    BY <2>3, <2>7, <2>9, <2>10, <2>11, Zenon DEF IInv
<1> QED
  BY <1>6, <1>7, <1>8, Zenon

\* finish starts to sort the list of all reservations.
LEMMA FinishBeginKeeps ==
  ASSUME IInv, FinishBegin
  PROVE  IInv'
<1>1. /\ phase = "push" /\ Len(items) = Len(wanted) /\ phase' = "finish" /\ index' = 2
      /\ UNCHANGED <<post_exit, raw, wanted, error, items, scratch, output, covered,
                     inner, cursor, write>>
  BY Zenon DEF FinishBegin, inputs
<1>2. TypeOK /\ Pushed /\ error = "none" /\ output = <<>>
  BY <1>1, Zenon DEF IInv
<1>3. TypeOK'
  BY <1>1, <1>2, Zenon DEF TypeOK, Phases
<1>4. PICK n \in Nat : n = Len(items)
  BY <1>2 DEF TypeOK
<1>5. Rearranged(items, wanted, 1..n)
  <2> DEFINE f == [k \in 1..n |-> k]
  <2>1. f \in [1..n -> 1..n] /\ \A k \in 1..n : f[k] = k
    BY Zenon
  <2> HIDE DEF f
  <2>2. Bijective(f, 1..n)
    BY <2>1, Zenon DEF Bijective
  <2>3. \A k \in 1..n : items[k] = wanted[f[k]]
    BY <1>2, <1>4, <2>1, Zenon DEF Pushed
  <2> QED
    BY <2>1, <2>2, <2>3, Zenon DEF Rearranged
<1>6. Permutes(items, wanted)
  BY <1>1, <1>4, <1>5, Zenon DEF Permutes
<1>7. SortedTo(items, 2 - 1)
  BY <1>4 DEF SortedTo
<1>8. Finishing'
  <2>1. SortedTo(items', index' - 1) /\ index' >= 2
    BY <1>1, <1>7
  <2> QED
    BY <1>1, <1>2, <1>6, <2>1, Zenon DEF Pushed, Finishing
<1>9. Map' = Map
  BY <1>1, Zenon DEF Map, Converted
<1>10. (MapReady => Normalized)'
  <2>1. MapReady' => MapReady
    BY <1>1, Zenon DEF MapReady
  <2> QED
    BY <1>1, <1>9, <2>1, Zenon DEF IInv, Normalized
<1>11. ~ItemsReady'
  BY <1>1, Zenon DEF ItemsReady
<1>12. ConvertedMapIsExact' /\ ReservationsAreCovered' /\ RefusedForAReason'
  BY <1>1, <1>2, UnfinishedKeeps, Zenon
<1> QED
  BY <1>1, <1>2, <1>3, <1>8, <1>10, <1>11, <1>12, Zenon DEF IInv

\* A round of the sort in finish.
LEMMA FinishSortKeeps ==
  ASSUME Counting, IInv, FinishSort
  PROVE  IInv'
<1>1. /\ phase = "finish" /\ index <= Len(items) /\ phase' = phase
      /\ items' = Inserted(items, index) /\ index' = index + 1
      /\ UNCHANGED <<post_exit, raw, wanted, error, scratch, output, covered,
                     inner, cursor, write>>
  BY Zenon DEF FinishSort, inputs
<1>2. TypeOK /\ Finishing /\ error = "none" /\ output = <<>>
  BY <1>1, Zenon DEF IInv
<1>3. items \in Seq(Reservations) /\ index \in 1..Len(items) /\ index \in Nat
  BY <1>1, <1>2 DEF TypeOK, Finishing
<1>4. /\ items' \in Seq(Reservations) /\ Len(items') = Len(items)
      /\ Permutes(items', wanted) /\ AllWell(items')
  BY <1>1, <1>2, <1>3, TypesOfLists, InsertedKeeps, Zenon DEF Finishing
<1>5. SortedTo(items', index' - 1)
  <2>1. SortedTo(items', index)
    BY <1>1, <1>2, <1>3, TypesOfLists, InsertedSorts, Zenon DEF Finishing
  <2>2. index' - 1 = index
    BY <1>1, <1>3
  <2> QED
    BY <2>1, <2>2, Zenon
<1>6. TypeOK'
  BY <1>1, <1>2, <1>3, <1>4 DEF TypeOK
<1>7. Finishing'
  <2>1. index' >= 2
    BY <1>1, <1>2, <1>3 DEF Finishing
  <2> QED
    BY <1>1, <1>2, <1>4, <1>5, <2>1, Zenon DEF Finishing
<1>8. Map' = Map
  BY <1>1, Zenon DEF Map, Converted
<1>9. (MapReady => Normalized)'
  BY <1>1, <1>8, Zenon DEF IInv, MapReady, Normalized
<1>10. ~ItemsReady'
  BY <1>1, Zenon DEF ItemsReady
<1>11. ConvertedMapIsExact' /\ ReservationsAreCovered' /\ RefusedForAReason'
  BY <1>1, <1>2, UnfinishedKeeps, Zenon
<1> QED
  BY <1>1, <1>2, <1>6, <1>7, <1>9, <1>10, <1>11, Zenon DEF IInv

\* finish refuses reservations that share a page; the others are apart.
LEMMA FinishKeeps ==
  ASSUME IInv, finish
  PROVE  IInv'
<1>1. /\ phase = "finish" /\ index > Len(items)
      /\ IF Overlapping(items) THEN Fail("ReservationOverlap")
         ELSE /\ phase' = IF post_exit THEN "apply" ELSE "convert"
              /\ UNCHANGED <<inputs, error, items, scratch, output, covered, loops>>
  BY Zenon DEF finish
<1>2. TypeOK /\ Finishing /\ error = "none" /\ output = <<>>
  BY <1>1, Zenon DEF IInv
<1>3. items \in Seq(Reservations) /\ Len(items) \in Nat /\ index \in Nat
  BY <1>2 DEF TypeOK
<1>4. SortedTo(items, Len(items))
  <2>1. \A m \in 1..Len(items) : m <= index - 1
    BY <1>1, <1>3
  <2> QED
    BY <1>2, <2>1, Zenon DEF Finishing, SortedTo
<1>5. CASE Overlapping(items)
  <2>1. SharedPage(items)
    BY <1>2, <1>3, <1>4, <1>5, TypesOfLists, SortedList, Zenon DEF Finishing
  <2>5. SharedPage(wanted)
    BY <1>2, <2>1, PermutedShared, Zenon DEF Finishing
  <2>6. Fail("ReservationOverlap")
    BY <1>1, <1>5, Zenon
  <2>7. error' = "ReservationOverlap" /\ wanted' = wanted
    BY <2>6, Zenon DEF Fail, inputs
  <2>8. RefusedForAReason'
    <3>1. SharedPage(wanted')
      BY <2>5, <2>7, Zenon
    <3> QED
      BY <2>7, <3>1, Zenon DEF RefusedForAReason
  <2> QED
    BY <2>6, <2>8, FailKeeps, Zenon
<1>6. CASE ~Overlapping(items)
  <2>1. /\ phase' = IF post_exit THEN "apply" ELSE "convert"
        /\ UNCHANGED <<post_exit, raw, wanted, error, items, scratch, output, covered,
                       index, inner, cursor, write>>
    BY <1>1, <1>6, Zenon DEF inputs, loops
  <2>2. Apart(items)
    BY <1>2, <1>3, <1>4, <1>6, TypesOfLists, SortedList, Zenon DEF Finishing
  <2>3. ItemsDone'
    BY <1>2, <2>1, <2>2, Zenon DEF Finishing, ItemsDone
  <2>4. TypeOK'
    BY <1>2, <2>1, Zenon DEF TypeOK, Phases
  <2>5. Map' = Map
    BY <2>1, Zenon DEF Map, Converted
  <2>6. (MapReady => Normalized)'
    <3>1. MapReady' => MapReady
      BY <1>1, <2>1, Zenon DEF MapReady
    <3> QED
      BY <2>1, <2>5, <3>1, Zenon DEF IInv, Normalized
  <2>7. phase' \in {"apply", "convert"} /\ (phase' = "convert" => ~post_exit')
    BY <2>1, Zenon
  <2>8. ConvertedMapIsExact' /\ ReservationsAreCovered' /\ RefusedForAReason'
    BY <1>2, <2>1, <2>7, UnfinishedKeeps, Zenon
  <2> QED
    BY <1>2, <2>1, <2>3, <2>4, <2>6, <2>7, <2>8, Zenon DEF IInv
<1> QED
  BY <1>5, <1>6, Zenon

-----------------------------------------------------------------------------
(* Translating, sorting and checking the raw map                           *)

\* So the translated map is the raw map but for the kinds.
LEMMA MapIs ==
    raw \in Seq(RawDescriptors) =>
        /\ Map \in Seq(Descriptors) /\ Len(Map) = Len(raw) /\ Firmware(Map)
        /\ \A k \in 1..Len(raw) :
             /\ Map[k] = Converted(raw[k]) /\ Map[k].attributes = raw[k].attributes
             /\ RangeEnd(Map[k]) = RangeEnd(raw[k]) /\ Well(Map[k]) = Well(raw[k])
             /\ \A a : Holds(Map[k], a) = Holds(raw[k], a)
\* Translating a raw descriptor changes nothing but its kind.
<1>ConvertedIs.
    ASSUME NEW d \in RawDescriptors
    PROVE  /\ Converted(d) \in Descriptors /\ Converted(d).kind \in FirmwareKinds
           /\ Converted(d).start = d.start /\ Converted(d).pages = d.pages
           /\ Converted(d).attributes = d.attributes
  <2> USE <1>ConvertedIs
  <2> DEFINE kind == IF post_exit THEN map_uefi_memory_kind_post_exit(d.type)
                     ELSE map_uefi_memory_kind(d.type)
  <2>1. map_uefi_memory_kind(d.type) \in FirmwareKinds
    BY Zenon DEF map_uefi_memory_kind, FirmwareKinds
  <2>2. kind \in FirmwareKinds
    BY <2>1, Zenon DEF map_uefi_memory_kind_post_exit, FirmwareKinds
  <2> HIDE DEF kind
  <2>3. Converted(d) = [kind |-> kind, start |-> d.start, pages |-> d.pages,
                        attributes |-> d.attributes]
    BY Zenon DEF Converted, kind
  <2>4. d.start \in 0..MaxAddress /\ d.pages \in Nat /\ d.attributes \in Nat
    BY Zenon DEF RawDescriptors
  <2> QED
    BY <2>2, <2>3, <2>4 DEF Descriptors
<1> HAVE raw \in Seq(RawDescriptors)
<1>1. PICK n \in Nat : n = Len(raw)
  OBVIOUS
<1>2. \A k \in 1..n : raw[k] \in RawDescriptors
  BY <1>1
<1>3. \A k \in 1..n : Map[k] = Converted(raw[k])
  BY <1>1, Zenon DEF Map
<1>4. ASSUME NEW k \in 1..n
      PROVE  /\ Map[k] \in Descriptors /\ Map[k].kind \in FirmwareKinds
             /\ Map[k].start = raw[k].start /\ Map[k].pages = raw[k].pages
             /\ Map[k].attributes = raw[k].attributes
  <2>1. raw[k] \in RawDescriptors /\ Map[k] = Converted(raw[k])
    BY <1>2, <1>3, Zenon
  <2> QED
    BY <2>1, <1>ConvertedIs, Zenon
<1>5. Map \in [1..n -> Descriptors]
  BY <1>1, <1>3, <1>4, Zenon DEF Map
<1>6. Map \in Seq(Descriptors) /\ Len(Map) = n
  BY <1>5
<1>7. Firmware(Map)
  BY <1>4, <1>6, Zenon DEF Firmware
<1>8. \A k \in 1..n : RangeEnd(Map[k]) = RangeEnd(raw[k])
  BY <1>4, Zenon DEF RangeEnd
<1>9. \A k \in 1..n : Well(Map[k]) = Well(raw[k])
  BY <1>4, <1>8, Zenon DEF Well
<1>10. \A k \in 1..n : \A a : Holds(Map[k], a) = Holds(raw[k], a)
  BY <1>4, <1>8, Zenon DEF Holds
<1> QED
  BY <1>1, <1>3, <1>4, <1>6, <1>7, <1>8, <1>9, <1>10, Zenon

\* The translation refuses an empty, an oversized or a malformed raw map.
LEMMA ConvertKeeps ==
    Counting /\ IInv /\ Convert =>
        IInv'
\* A list is a permutation of itself.
<1>PermutesItself.
    ASSUME NEW list, NEW other, Len(list) = Len(other),
           \A k \in 1..Len(list) : list[k] = other[k]
    PROVE  Permutes(list, other)
  <2> USE <1>PermutesItself
  <2> DEFINE I == 1..Len(list)
             f == [k \in I |-> k]
  <2> HIDE DEF I
  <2>1. f \in [I -> I] /\ \A k \in I : f[k] = k
    BY Zenon
  <2> HIDE DEF f
  <2>2. Bijective(f, I)
    BY <2>1, Zenon DEF Bijective
  <2>3. \A k \in I : list[k] = other[f[k]]
    BY <2>1, Zenon DEF I
  <2>4. Rearranged(list, other, I)
    BY <2>1, <2>2, <2>3, Zenon DEF Rearranged
  <2> QED
    BY <2>4, Zenon DEF Permutes, I
<1> HAVE Counting /\ IInv /\ Convert
<1> DEFINE bad == {k \in 1..Len(raw) : validate_range(raw[k]) # "none"}
           first == CHOOSE k \in bad : \A q \in bad : k <= q
<1>1. /\ phase = "convert"
      /\ IF Len(raw) = 0 \/ Len(raw) > CONVERTED_DESCRIPTOR_CAPACITY
         THEN Fail("Convert")
         ELSE IF bad # {} THEN Fail(validate_range(raw[first]))
         ELSE /\ scratch' = Map /\ phase' = "sort" /\ index' = 2
              /\ UNCHANGED <<inputs, error, items, output, covered, inner, cursor, write>>
  BY Zenon DEF Convert, Map
<1>2. TypeOK /\ error = "none" /\ output = <<>>
  BY <1>1, Zenon DEF IInv
<1>3. PICK n \in Nat : n = Len(raw) /\ raw \in Seq(RawDescriptors)
  BY <1>2 DEF TypeOK
<1>4. bad \in SUBSET Nat
  BY <1>3
<1>5. \A k \in 1..n :
        /\ validate_range(raw[k]) = "none" <=> Well(raw[k])
        /\ validate_range(raw[k]) \in {"none", "ZeroPages", "Unaligned", "RangeOverflow"}
  <2>1. \A k \in 1..n : raw[k] \in RawDescriptors
    BY <1>3
  <2> QED
    BY <2>1, TypesOfLists, ValidIsWell, Zenon
<1>6. CASE Len(raw) = 0 \/ Len(raw) > CONVERTED_DESCRIPTOR_CAPACITY
  <2>1. Fail("Convert")
    BY <1>1, <1>6, Zenon
  <2>2. error' = "Convert" /\ raw' = raw
    BY <2>1, Zenon DEF Fail, inputs
  <2>3. Len(raw) \notin 1..CONVERTED_DESCRIPTOR_CAPACITY
    BY <1>3, <1>6, MemoryMapAssumption
  <2>4. RefusedForAReason'
    BY <2>2, <2>3, Zenon DEF RefusedForAReason
  <2> QED
    BY <2>1, <2>4, FailKeeps, Zenon
<1>7. CASE /\ ~(Len(raw) = 0 \/ Len(raw) > CONVERTED_DESCRIPTOR_CAPACITY)
           /\ bad # {}
  <2>1. Fail(validate_range(raw[first]))
    BY <1>1, <1>7, Zenon
  <2>2. first \in bad
    <3> HIDE DEF bad
    <3>1. \E k \in bad : \A q \in bad : k <= q
      BY <1>4, <1>7, Zenon DEF Counting
    <3> QED
      BY <3>1, Zenon
  <2>3. first \in 1..n /\ validate_range(raw[first]) # "none"
    BY <1>3, <2>2, Zenon
  <2> HIDE DEF first, bad
  <2>4. /\ error' = validate_range(raw[first]) /\ phase' = "failed" /\ raw' = raw
    BY <2>1, Zenon DEF Fail, inputs
  <2>5. Malformed(raw, validate_range(raw[first]))
    BY <1>3, <2>3, Zenon DEF Malformed
  <2>6. validate_range(raw[first]) \in {"ZeroPages", "Unaligned", "RangeOverflow"}
    BY <1>5, <2>3, Zenon
  <2>7. RefusedForAReason'
    BY <2>4, <2>5, <2>6, Zenon DEF RefusedForAReason
  <2> QED
    BY <2>1, <2>7, FailKeeps, Zenon
<1>8. CASE /\ ~(Len(raw) = 0 \/ Len(raw) > CONVERTED_DESCRIPTOR_CAPACITY)
           /\ bad = {}
  <2>1. /\ scratch' = Map /\ phase' = "sort" /\ index' = 2
        /\ UNCHANGED <<post_exit, raw, wanted, error, items, output, covered,
                       inner, cursor, write>>
    BY <1>1, <1>8, Zenon DEF inputs
  <2>2. Map' = Map
    BY <2>1, Zenon DEF Map, Converted
  <2>3. /\ Map \in Seq(Descriptors) /\ Len(Map) = n /\ Firmware(Map)
        /\ \A k \in 1..n : Well(Map[k]) = Well(raw[k])
    BY <1>3, MapIs, Zenon
  <2>4. AllWell(Map)
    <3>1. \A k \in 1..n : validate_range(raw[k]) = "none"
      BY <1>3, <1>8, Zenon
    <3> QED
      BY <1>5, <2>3, <3>1, Zenon DEF AllWell
  <2>5. Permutes(scratch', Map')
    BY <2>1, <2>2, <1>PermutesItself, Zenon
  <2>6. Sorting'
    <3>1. SortedTo(scratch', index' - 1)
      BY <2>1, <2>3 DEF SortedTo
    <3>2. Len(scratch') >= 1 /\ index' >= 2
      BY <1>3, <1>8, <2>1, <2>3
    <3> QED
      BY <2>1, <2>3, <2>4, <2>5, <3>1, <3>2, Zenon DEF Sorting
  <2>7. TypeOK'
    BY <1>2, <2>1, <2>3, Zenon DEF TypeOK, Phases
  <2>8. (ItemsReady => ItemsDone)'
    <3>1. ItemsReady' => ItemsReady
      BY <1>1, <2>1, Zenon DEF ItemsReady
    <3> QED
      BY <2>1, <3>1, Zenon DEF IInv, ItemsDone
  <2>9. (phase \in {"convert", "sort", "merge"} /\ post_exit => items = <<>>)'
    BY <1>1, <2>1, Zenon DEF IInv
  <2>10. ~MapReady'
    BY <2>1, Zenon DEF MapReady
  <2>11. ConvertedMapIsExact' /\ ReservationsAreCovered' /\ RefusedForAReason'
    BY <1>2, <2>1, UnfinishedKeeps, Zenon
  <2> QED
    BY <1>2, <2>1, <2>6, <2>7, <2>8, <2>9, <2>10, <2>11, Zenon DEF IInv
<1> QED
  BY <1>6, <1>7, <1>8, Zenon

\* A round of insertion_sort.
LEMMA InsertionSortKeeps ==
  ASSUME Counting, IInv, insertion_sort
  PROVE  IInv'
<1>1. /\ phase = "sort" /\ index <= Len(scratch) /\ phase' = phase
      /\ scratch' = Inserted(scratch, index) /\ index' = index + 1
      /\ UNCHANGED <<post_exit, raw, wanted, error, items, output, covered,
                     inner, cursor, write>>
  BY Zenon DEF insertion_sort, inputs
<1>2. TypeOK /\ Sorting /\ error = "none" /\ output = <<>>
  BY <1>1, Zenon DEF IInv
<1>3. scratch \in Seq(Descriptors) /\ index \in 1..Len(scratch) /\ index \in Nat
  BY <1>1, <1>2 DEF TypeOK, Sorting
<1>4. /\ scratch' \in Seq(Descriptors) /\ Len(scratch') = Len(scratch)
      /\ Permutes(scratch', Map) /\ AllWell(scratch') /\ Firmware(scratch')
  BY <1>1, <1>2, <1>3, TypesOfLists, InsertedKeeps, Zenon DEF Sorting
<1>5. SortedTo(scratch', index' - 1)
  <2>1. SortedTo(scratch', index)
    BY <1>1, <1>2, <1>3, TypesOfLists, InsertedSorts, Zenon DEF Sorting
  <2>2. index' - 1 = index
    BY <1>1, <1>3
  <2> QED
    BY <2>1, <2>2, Zenon
<1>6. TypeOK'
  BY <1>1, <1>2, <1>3, <1>4 DEF TypeOK
<1>7. Map' = Map
  BY <1>1, Zenon DEF Map, Converted
<1>8. Sorting'
  <2>1. index' >= 2 /\ Len(scratch') >= 1
    BY <1>1, <1>2, <1>3, <1>4 DEF Sorting
  <2> QED
    BY <1>1, <1>2, <1>4, <1>5, <1>7, <2>1, Zenon DEF Sorting
<1>9. (ItemsReady => ItemsDone)' /\ ~MapReady'
  BY <1>1, Zenon DEF IInv, ItemsReady, ItemsDone, MapReady
<1>10. ConvertedMapIsExact' /\ ReservationsAreCovered' /\ RefusedForAReason'
  BY <1>1, <1>2, UnfinishedKeeps, Zenon
<1> QED
  BY <1>1, <1>2, <1>6, <1>8, <1>9, <1>10, Zenon DEF IInv

\* validate_non_overlapping refuses descriptors that share a page.
LEMMA ValidateKeeps ==
    IInv /\ validate_non_overlapping =>
        IInv'
<1>MapShares.
    ASSUME raw \in Seq(RawDescriptors), SharedPage(Map)
    PROVE  SharedPage(raw)
  <2> USE <1>MapShares
  <2>1. /\ Len(Map) = Len(raw)
        /\ \A k \in 1..Len(raw) : \A a : Holds(Map[k], a) = Holds(raw[k], a)
    BY MapIs, Zenon
  <2>2. PICK a \in Addresses, k, m \in 1..Len(raw) : k # m /\ Holds(Map[k], a) /\ Holds(Map[m], a)
    BY <2>1, Zenon DEF SharedPage
  <2>3. Holds(raw[k], a) /\ Holds(raw[m], a)
    BY <2>1, <2>2, Zenon
  <2> QED
    BY <2>2, <2>3, Zenon DEF SharedPage
\* A permutation of the map describes it.
<1>PermutedDescribes.
    ASSUME NEW M, NEW list, Permutes(list, M)
    PROVE  Describes(M, list, 1..Len(list))
  <2> USE <1>PermutedDescribes
  <2>1. SameElements(list, M)
    BY PermutedElements, Zenon
  <2>2. ASSUME NEW q \in 1..Len(list), NEW a \in Bytes, Holds(list[q], a)
        PROVE  \E k \in 1..Len(M) : Holds(M[k], a) /\ Label(list[q]) = Label(M[k])
    <3>1. PICK x \in 1..Len(M) : list[q] = M[x]
      BY <2>1, Zenon DEF SameElements
    <3> QED
      BY <2>2, <3>1, Zenon
  <2>3. ASSUME NEW k \in 1..Len(M), NEW a \in Bytes, Holds(M[k], a)
        PROVE  \E q \in 1..Len(list) : Holds(list[q], a) /\ Label(list[q]) = Label(M[k])
    <3>1. PICK q \in 1..Len(list) : list[q] = M[k]
      BY <2>1, Zenon DEF SameElements
    <3> QED
      BY <2>3, <3>1, Zenon
  <2> QED
    BY <2>2, <2>3, Zenon DEF Describes
<1> HAVE IInv /\ validate_non_overlapping
<1>1. /\ phase = "sort" /\ index > Len(scratch)
      /\ IF Overlapping(scratch) THEN Fail("DescriptorOverlap")
         ELSE /\ phase' = "merge" /\ index' = 2 /\ write' = 1
              /\ UNCHANGED <<inputs, error, items, scratch, output, covered, inner, cursor>>
  BY Zenon DEF validate_non_overlapping
<1>2. TypeOK /\ Sorting /\ error = "none" /\ output = <<>>
  BY <1>1, Zenon DEF IInv
<1>3. /\ scratch \in Seq(Descriptors) /\ Len(scratch) \in Nat /\ index \in Nat
      /\ raw \in Seq(RawDescriptors)
  BY <1>2 DEF TypeOK
<1>4. SortedTo(scratch, Len(scratch))
  <2>1. \A m \in 1..Len(scratch) : m <= index - 1
    BY <1>1, <1>3
  <2> QED
    BY <1>2, <2>1, Zenon DEF Sorting, SortedTo
<1>5. CASE Overlapping(scratch)
  <2>1. SharedPage(scratch)
    BY <1>2, <1>3, <1>4, <1>5, TypesOfLists, SortedList, Zenon DEF Sorting
  <2>2. SharedPage(Map)
    BY <1>2, <2>1, PermutedShared, Zenon DEF Sorting
  <2>3. SharedPage(raw)
    BY <1>3, <2>2, <1>MapShares, Zenon
  <2>4. Fail("DescriptorOverlap")
    BY <1>1, <1>5, Zenon
  <2>5. error' = "DescriptorOverlap" /\ raw' = raw
    BY <2>4, Zenon DEF Fail, inputs
  <2>6. SharedPage(raw')
    BY <2>3, <2>5, Zenon
  <2>7. RefusedForAReason'
    BY <2>5, <2>6, Zenon DEF RefusedForAReason
  <2> QED
    BY <2>4, <2>7, FailKeeps, Zenon
<1>6. CASE ~Overlapping(scratch)
  <2>1. /\ phase' = "merge" /\ index' = 2 /\ write' = 1
        /\ UNCHANGED <<post_exit, raw, wanted, error, items, scratch, output, covered,
                       inner, cursor>>
    BY <1>1, <1>6, Zenon DEF inputs
  <2>2. Apart(scratch)
    BY <1>2, <1>3, <1>4, <1>6, TypesOfLists, SortedList, Zenon DEF Sorting
  <2>3. Disjoint(Map)
    <3>1. Disjoint(scratch)
      BY <1>3, <2>2, TypesOfLists, ApartDisjoint, Zenon
    <3> QED
      BY <1>2, <3>1, PermutedDisjoint, Zenon DEF Sorting
  <2>4. Map' = Map
    BY <2>1, Zenon DEF Map, Converted
  <2>5. 1..1 \cup 2..Len(scratch) = 1..Len(scratch)
    BY <1>2, <1>3 DEF Sorting
  <2>6. Describes(Map, scratch, 1..Len(scratch)) /\ Len(scratch) = Len(Map)
    BY <1>2, <1>PermutedDescribes, Zenon DEF Sorting, Permutes
  <2>7. Merging'
    <3>1. write' \in 1..Len(scratch') /\ index' \in (write' + 1)..(Len(scratch') + 1)
      BY <1>2, <1>3, <2>1 DEF Sorting
    <3>2. Len(scratch') <= Len(Map')
      BY <1>3, <2>1, <2>4, <2>6
    <3>3. Kept(Map, scratch, 1, 2)
      BY <1>2, <1>3, <2>2, <2>5, <2>6, Zenon DEF Kept, Sorting, Apart
    <3> QED
      BY <2>1, <2>3, <2>4, <3>1, <3>2, <3>3, Zenon DEF Merging
  <2>8. TypeOK'
    BY <1>2, <2>1, Zenon DEF TypeOK, Phases
  <2>9. (ItemsReady => ItemsDone)'
    <3>1. ItemsReady' => ItemsReady
      BY <1>1, <2>1, Zenon DEF ItemsReady
    <3> QED
      BY <2>1, <3>1, Zenon DEF IInv, ItemsDone
  <2>10. (phase \in {"convert", "sort", "merge"} /\ post_exit => items = <<>>)'
    BY <1>1, <2>1, Zenon DEF IInv
  <2>11. ~MapReady'
    BY <2>1, Zenon DEF MapReady
  <2>12. ConvertedMapIsExact' /\ ReservationsAreCovered' /\ RefusedForAReason'
    BY <1>2, <2>1, UnfinishedKeeps, Zenon
  <2> QED
    BY <1>2, <2>1, <2>7, <2>8, <2>9, <2>10, <2>11, <2>12, Zenon DEF IInv
<1> QED
  BY <1>5, <1>6, Zenon

-----------------------------------------------------------------------------
(* Merging in place                                                        *)

\* Two descriptors that touch and say the same make one that says it of both.
LEMMA MergedIs ==
  ASSUME NEW d \in Descriptors, NEW e \in Descriptors, Mergeable(d, e), Well(d), Well(e)
  PROVE  LET m == MergeInto(d, e)
         IN  /\ m \in Descriptors /\ Well(m) /\ m.start = d.start /\ m.kind = d.kind
             /\ RangeEnd(m) = RangeEnd(e)
             /\ Label(m) = Label(d) /\ Label(m) = Label(e)
             /\ \A a \in Bytes : Holds(m, a) <=> Holds(d, a) \/ Holds(e, a)
<1> DEFINE m == MergeInto(d, e)
<1>1. /\ d.start \in 0..MaxAddress /\ d.pages \in Nat /\ d.start \in Nat
      /\ e.start \in 0..MaxAddress /\ e.pages \in Nat /\ e.start \in Nat
  BY MemoryMapAssumption DEF Descriptors
<1>2. m = [d EXCEPT !.pages = d.pages + e.pages]
  BY Zenon DEF MergeInto
<1>3. /\ m \in Descriptors /\ m.start = d.start /\ m.kind = d.kind
      /\ m.attributes = d.attributes /\ m.pages = d.pages + e.pages
  BY <1>1, <1>2 DEF Descriptors
<1> HIDE DEF m
<1>4. RangeEnd(d) = e.start /\ d.kind = e.kind /\ d.attributes = e.attributes
  BY Zenon DEF Mergeable
<1>5. RangeEnd(m) = RangeEnd(e)
  <2>1. (d.pages + e.pages) * PageSize = d.pages * PageSize + e.pages * PageSize
    BY <1>1, MemoryMapAssumption, Z3
  <2>2. d.pages * PageSize \in Nat /\ e.pages * PageSize \in Nat
    BY <1>1, MemoryMapAssumption, Z3
  <2> QED
    BY <1>1, <1>3, <1>4, <2>1, <2>2 DEF RangeEnd
<1>6. /\ RangeEnd(d) \in Nat /\ d.start < RangeEnd(d)
      /\ RangeEnd(e) \in Nat /\ e.start < RangeEnd(e)
  BY <1>1, Ends, Zenon DEF Well
<1>7. Well(m)
  BY <1>1, <1>3, <1>5 DEF Well
<1>8. Label(m) = Label(d) /\ Label(m) = Label(e)
  BY <1>3, <1>4, Zenon DEF Label
<1>9. ASSUME NEW a \in Bytes PROVE Holds(m, a) <=> Holds(d, a) \/ Holds(e, a)
  <2>1. a \in Nat
    BY MemoryMapAssumption DEF Bytes
  <2> QED
    BY <1>1, <1>3, <1>4, <1>5, <1>6, <2>1 DEF Holds
<1> QED
  BY <1>3, <1>5, <1>7, <1>8, <1>9, Zenon DEF m

\* A turn of merge_base_descriptors.
LEMMA MergeKeeps ==
    IInv /\ merge_base_descriptors =>
        IInv'
\* Lists whose descriptors say the same describe the same map.
<1>DescribesAgain.
    ASSUME NEW M, NEW S, NEW T, NEW L, NEW K, Describes(M, S, L),
           \A q \in K : \A a \in Bytes : Holds(T[q], a) =>
             \E p \in L : Holds(S[p], a) /\ Label(T[q]) = Label(S[p]),
           \A p \in L : \A a \in Bytes : Holds(S[p], a) =>
             \E q \in K : Holds(T[q], a) /\ Label(T[q]) = Label(S[p])
    PROVE  Describes(M, T, K)
  <2> USE <1>DescribesAgain
  <2>1. ASSUME NEW q \in K, NEW a \in Bytes, Holds(T[q], a)
        PROVE  \E k \in 1..Len(M) : Holds(M[k], a) /\ Label(T[q]) = Label(M[k])
    <3>1. PICK p \in L : Holds(S[p], a) /\ Label(T[q]) = Label(S[p])
      BY <2>1, Zenon
    <3>2. PICK k \in 1..Len(M) : Holds(M[k], a) /\ Label(S[p]) = Label(M[k])
      BY <3>1, Zenon DEF Describes
    <3> QED
      BY <3>1, <3>2, Zenon
  <2>2. ASSUME NEW k \in 1..Len(M), NEW a \in Bytes, Holds(M[k], a)
        PROVE  \E q \in K : Holds(T[q], a) /\ Label(T[q]) = Label(M[k])
    <3>1. PICK p \in L : Holds(S[p], a) /\ Label(S[p]) = Label(M[k])
      BY <2>2, Zenon DEF Describes
    <3>2. PICK q \in K : Holds(T[q], a) /\ Label(T[q]) = Label(S[p])
      BY <3>1, Zenon
    <3> QED
      BY <3>1, <3>2, Zenon
  <2> QED
    BY <2>1, <2>2, Zenon DEF Describes
\* A descriptor that goes on where the last one kept ends is joined to it.
<1>JoinKeeps.
    ASSUME NEW M, NEW S, NEW w \in Nat, NEW i \in Nat, Kept(M, S, w, i),
           w \in 1..Len(S), i \in (w + 1)..Len(S), Mergeable(S[w], S[i])
    PROVE  LET T == [S EXCEPT ![w] = MergeInto(S[w], S[i])]
           IN  Len(T) = Len(S) /\ Kept(M, T, w, i + 1)
  <2> USE <1>JoinKeeps
  <2> DEFINE m == MergeInto(S[w], S[i])
             T == [S EXCEPT ![w] = m]
  <2>0. S \in Seq(Descriptors) /\ AllWell(S) /\ Firmware(S)
    BY Zenon DEF Kept
  <2>1. PICK n \in Nat : n = Len(S)
    BY <2>0
  <2> DEFINE L == 1..w \cup i..n
             K == 1..w \cup (i + 1)..n
  <2>2. ApartOn(S, L) /\ Describes(M, S, L)
    BY <2>1, Zenon DEF Kept
  <2>3. /\ w \in 1..n /\ i \in 1..n /\ w < i /\ w \in L /\ i \in L /\ w \in K /\ i \notin K
        /\ \A q \in K : q \in L /\ q \in 1..n /\ (q > w => q > i) /\ q \in Nat
        /\ \A q \in L : q \in 1..n /\ (q \in K \/ q = i)
    BY <2>1
  <2> HIDE DEF L, K
  <2>4. /\ \A q \in 1..n : /\ S[q] \in Descriptors /\ Well(S[q]) /\ S[q].start \in Nat
                           /\ RangeEnd(S[q]) \in Nat /\ S[q].kind \in FirmwareKinds
    <3>1. \A q \in 1..n : S[q] \in Descriptors /\ S[q].start \in Nat /\ RangeEnd(S[q]) \in Nat
      BY <2>0, <2>1, TypesOfLists, ListEnds, Zenon
    <3> QED
      BY <2>0, <2>1, <3>1, Zenon DEF AllWell, Firmware
  <2>5. /\ m \in Descriptors /\ Well(m) /\ m.start = S[w].start /\ m.kind = S[w].kind
        /\ RangeEnd(m) = RangeEnd(S[i])
        /\ Label(m) = Label(S[w]) /\ Label(m) = Label(S[i])
        /\ \A a \in Bytes : Holds(m, a) <=> Holds(S[w], a) \/ Holds(S[i], a)
    BY <2>3, <2>4, MergedIs, Zenon
  <2> HIDE DEF m
  <2>6. /\ T \in Seq(Descriptors) /\ Len(T) = n /\ T[w] = m
        /\ \A q \in 1..n : q # w => T[q] = S[q]
    BY <2>0, <2>1, <2>3, <2>5
  <2> HIDE DEF T
  <2>7. AllWell(T) /\ Firmware(T)
    <3>1. ASSUME NEW q \in 1..n PROVE Well(T[q]) /\ T[q].kind \in FirmwareKinds
      BY <2>3, <2>4, <2>5, <2>6, Zenon
    <3> QED
      BY <2>6, <3>1, Zenon DEF AllWell, Firmware
  <2>8. ApartOn(T, K)
    <3> SUFFICES ASSUME NEW k \in K, NEW q \in K, k < q
                 PROVE  RangeEnd(T[k]) <= T[q].start
      BY Zenon DEF ApartOn
    <3>1. CASE k = w
      <4>1. q # w /\ q > w /\ i < q /\ T[q] = S[q] /\ RangeEnd(T[k]) = RangeEnd(S[i])
        BY <2>3, <2>5, <2>6, <3>1
      <4> QED
        BY <2>2, <2>3, <4>1, Zenon DEF ApartOn
    <3>2. CASE k # w
      <4>1. T[k] = S[k] /\ T[q].start = S[q].start
        BY <2>3, <2>5, <2>6, <3>2, Zenon
      <4> QED
        BY <2>2, <2>3, <4>1, Zenon DEF ApartOn
    <3> QED
      BY <3>1, <3>2, Zenon
  <2>9. ASSUME NEW q \in K, NEW a \in Bytes, Holds(T[q], a)
        PROVE  \E p \in L : Holds(S[p], a) /\ Label(T[q]) = Label(S[p])
    <3>1. CASE q = w
      BY <2>3, <2>5, <2>6, <2>9, <3>1, Zenon
    <3>2. CASE q # w
      <4>1. T[q] = S[q] /\ q \in L
        BY <2>3, <2>6, <3>2, Zenon
      <4> QED
        BY <2>9, <4>1, Zenon
    <3> QED
      BY <3>1, <3>2, Zenon
  <2>10. ASSUME NEW p \in L, NEW a \in Bytes, Holds(S[p], a)
         PROVE  \E q \in K : Holds(T[q], a) /\ Label(T[q]) = Label(S[p])
    <3>1. CASE p = w \/ p = i
      BY <2>3, <2>5, <2>6, <2>10, <3>1, Zenon
    <3>2. CASE p # w /\ p # i
      <4>1. T[p] = S[p] /\ p \in K
        BY <2>3, <2>6, <3>2, Zenon
      <4> QED
        BY <2>10, <4>1, Zenon
    <3> QED
      BY <3>1, <3>2, Zenon
  <2>11. Describes(M, T, K)
    BY <2>2, <2>9, <2>10, <1>DescribesAgain, Zenon
  <2> QED
    BY <2>1, <2>6, <2>7, <2>8, <2>11, Zenon DEF Kept, T, m, K
\* Any other descriptor moves up behind the last one kept.
<1>MoveKeeps.
    ASSUME NEW M, NEW S, NEW w \in Nat, NEW i \in Nat, Kept(M, S, w, i),
           w \in 1..Len(S), i \in (w + 1)..Len(S)
    PROVE  LET T == [S EXCEPT ![w + 1] = S[i]]
           IN  Len(T) = Len(S) /\ Kept(M, T, w + 1, i + 1)
  <2> USE <1>MoveKeeps
  <2> DEFINE T == [S EXCEPT ![w + 1] = S[i]]
  <2>0. S \in Seq(Descriptors) /\ AllWell(S) /\ Firmware(S)
    BY Zenon DEF Kept
  <2>1. PICK n \in Nat : n = Len(S)
    BY <2>0
  <2> DEFINE L == 1..w \cup i..n
             K == 1..(w + 1) \cup (i + 1)..n
  <2>2. ApartOn(S, L) /\ Describes(M, S, L)
    BY <2>1, Zenon DEF Kept
  <2>3. PICK v \in 1..n : /\ v = w + 1 /\ i \in 1..n /\ i \in L /\ v \in K
                          /\ \A q \in K : q # v => q \in L /\ q # i
                          /\ \A q \in K : q \in 1..n /\ q \in Nat /\ (q > v => q > i) /\ (q < v => q < i)
                          /\ \A q \in L : q \in 1..n /\ (q = i \/ (q \in K /\ q # v))
    BY <2>1
  <2> HIDE DEF L, K
  <2>4. T \in Seq(Descriptors) /\ Len(T) = n /\ T[v] = S[i] /\ \A q \in 1..n : q # v => T[q] = S[q]
    BY <2>0, <2>1, <2>3
  <2> HIDE DEF T
  <2>5. AllWell(T) /\ Firmware(T)
    <3>1. ASSUME NEW q \in 1..n PROVE Well(T[q]) /\ T[q].kind \in FirmwareKinds
      <4>1. Well(S[q]) /\ S[q].kind \in FirmwareKinds /\ Well(S[i]) /\ S[i].kind \in FirmwareKinds
        BY <2>0, <2>1, <2>3, Zenon DEF AllWell, Firmware
      <4> QED
        BY <2>4, <4>1, Zenon
    <3> QED
      BY <2>4, <3>1, Zenon DEF AllWell, Firmware
  <2>6. ApartOn(T, K)
    <3> SUFFICES ASSUME NEW k \in K, NEW q \in K, k < q
                 PROVE  RangeEnd(T[k]) <= T[q].start
      BY Zenon DEF ApartOn
    <3>1. CASE k = v
      <4>1. q # v /\ q \in L /\ i < q /\ T[q] = S[q] /\ T[k] = S[i]
        BY <2>3, <2>4, <3>1
      <4> QED
        BY <2>2, <2>3, <4>1, Zenon DEF ApartOn
    <3>2. CASE q = v
      <4>1. k # v /\ k \in L /\ k < i /\ T[k] = S[k] /\ T[q] = S[i]
        BY <2>3, <2>4, <3>2
      <4> QED
        BY <2>2, <2>3, <4>1, Zenon DEF ApartOn
    <3>3. CASE k # v /\ q # v
      <4>1. T[k] = S[k] /\ T[q] = S[q] /\ k \in L /\ q \in L
        BY <2>3, <2>4, <3>3, Zenon
      <4> QED
        BY <2>2, <4>1, Zenon DEF ApartOn
    <3> QED
      BY <3>1, <3>2, <3>3, Zenon
  <2>7. ASSUME NEW q \in K, NEW a \in Bytes, Holds(T[q], a)
        PROVE  \E p \in L : Holds(S[p], a) /\ Label(T[q]) = Label(S[p])
    <3>1. PICK p \in L : T[q] = S[p]
      BY <2>3, <2>4, Zenon
    <3> QED
      BY <2>7, <3>1, Zenon
  <2>8. ASSUME NEW p \in L, NEW a \in Bytes, Holds(S[p], a)
        PROVE  \E q \in K : Holds(T[q], a) /\ Label(T[q]) = Label(S[p])
    <3>1. PICK q \in K : T[q] = S[p]
      BY <2>3, <2>4, Zenon
    <3> QED
      BY <2>8, <3>1, Zenon
  <2>9. Describes(M, T, K)
    BY <2>2, <2>7, <2>8, <1>DescribesAgain, Zenon
  <2> QED
    BY <2>1, <2>4, <2>5, <2>6, <2>9, Zenon DEF Kept, T, K
<1> HAVE IInv /\ merge_base_descriptors
<1>1. /\ phase = "merge" /\ index <= Len(scratch) /\ phase' = phase
      /\ IF Mergeable(scratch[write], scratch[index])
         THEN /\ scratch' = [scratch EXCEPT ![write] = MergeInto(scratch[write], scratch[index])]
              /\ write' = write
         ELSE /\ scratch' = [scratch EXCEPT ![write + 1] = scratch[index]]
              /\ write' = write + 1
      /\ index' = index + 1
      /\ UNCHANGED <<post_exit, raw, wanted, error, items, output, covered, inner, cursor>>
  BY Zenon DEF merge_base_descriptors, inputs
<1>2. TypeOK /\ Merging /\ error = "none" /\ output = <<>>
  BY <1>1, Zenon DEF IInv
<1>3. /\ write \in Nat /\ index \in Nat /\ Len(scratch) \in Nat
      /\ write \in 1..Len(scratch) /\ index \in (write + 1)..Len(scratch)
      /\ Kept(Map, scratch, write, index)
  BY <1>1, <1>2 DEF TypeOK, Merging
<1>4. /\ Len(scratch') = Len(scratch) /\ Kept(Map, scratch', write', index')
      /\ write' \in {write, write + 1}
  <2>1. CASE Mergeable(scratch[write], scratch[index])
    <3>1. write' = write /\ index' = index + 1
          /\ scratch' = [scratch EXCEPT ![write] = MergeInto(scratch[write], scratch[index])]
      BY <1>1, <2>1, Zenon
    <3> DEFINE T == [scratch EXCEPT ![write] = MergeInto(scratch[write], scratch[index])]
    <3>2. Len(T) = Len(scratch) /\ Kept(Map, T, write, index + 1)
      BY <1>3, <2>1, <1>JoinKeeps, Zenon
    <3> QED
      BY <3>1, <3>2, Zenon
  <2>2. CASE ~Mergeable(scratch[write], scratch[index])
    <3>1. write' = write + 1 /\ index' = index + 1
          /\ scratch' = [scratch EXCEPT ![write + 1] = scratch[index]]
      BY <1>1, <2>2, Zenon
    <3> DEFINE T == [scratch EXCEPT ![write + 1] = scratch[index]]
    <3>2. Len(T) = Len(scratch) /\ Kept(Map, T, write + 1, index + 1)
      BY <1>3, <1>MoveKeeps, Zenon
    <3> QED
      BY <3>1, <3>2, Zenon
  <2> QED
    BY <2>1, <2>2, Zenon
<1>5. Map' = Map
  BY <1>1, Zenon DEF Map, Converted
<1>6. /\ write' \in 1..Len(scratch') /\ index' \in (write' + 1)..(Len(scratch') + 1)
      /\ write' \in Nat /\ index' \in Nat
  BY <1>1, <1>3, <1>4
<1>7. scratch' \in Seq(Descriptors)
  BY <1>4, Zenon DEF Kept
<1>8. TypeOK'
  BY <1>1, <1>2, <1>6, <1>7, Zenon DEF TypeOK
<1>9. Merging'
  BY <1>2, <1>4, <1>5, <1>6, Zenon DEF Merging
<1>10. (ItemsReady => ItemsDone)' /\ ~MapReady'
  BY <1>1, Zenon DEF IInv, ItemsReady, ItemsDone, MapReady
<1>11. ConvertedMapIsExact' /\ ReservationsAreCovered' /\ RefusedForAReason'
  BY <1>1, <1>2, UnfinishedKeeps, Zenon
<1> QED
  BY <1>1, <1>2, <1>8, <1>9, <1>10, <1>11, Zenon DEF IInv

\* The kept descriptors are the normalised map.
LEMMA NormalizeEndKeeps ==
    IInv /\ NormalizeEnd =>
        IInv'
\* Only the descriptors at the indices in the set matter.
<1>DescribesHere.
    ASSUME NEW M, NEW S, NEW T, NEW K, Describes(M, S, K), \A k \in K : T[k] = S[k]
    PROVE  Describes(M, T, K)
  <2> USE <1>DescribesHere
  <2>1. ASSUME NEW q \in K, NEW a \in Bytes, Holds(T[q], a)
        PROVE  \E k \in 1..Len(M) : Holds(M[k], a) /\ Label(T[q]) = Label(M[k])
    <3>1. T[q] = S[q]
      BY Zenon
    <3> QED
      BY <2>1, <3>1, Zenon DEF Describes
  <2>2. ASSUME NEW k \in 1..Len(M), NEW a \in Bytes, Holds(M[k], a)
        PROVE  \E q \in K : Holds(T[q], a) /\ Label(T[q]) = Label(M[k])
    <3>1. PICK p \in K : Holds(S[p], a) /\ Label(S[p]) = Label(M[k])
      BY <2>2, Zenon DEF Describes
    <3>2. T[p] = S[p]
      BY Zenon
    <3> QED
      BY <3>1, <3>2, Zenon
  <2> QED
    BY <2>1, <2>2, Zenon DEF Describes
<1> HAVE IInv /\ NormalizeEnd
<1>1. /\ phase = "merge" /\ index > Len(scratch) /\ scratch' = SubSeq(scratch, 1, write)
      /\ phase' = IF post_exit THEN "push" ELSE "apply"
      /\ UNCHANGED <<post_exit, raw, wanted, error, items, output, covered,
                     index, inner, cursor, write>>
  BY Zenon DEF NormalizeEnd, inputs, loops
<1>2. TypeOK /\ Merging /\ error = "none" /\ output = <<>>
  BY <1>1, Zenon DEF IInv
<1>3. PICK w \in Nat : /\ w = write /\ w \in 1..Len(scratch) /\ Len(scratch) \in Nat
                       /\ scratch \in Seq(Descriptors)
                       /\ Kept(Map, scratch, w, index) /\ index \in Nat
  <2>1. write \in Nat /\ Len(scratch) \in Nat
    BY <1>2 DEF TypeOK
  <2> QED
    BY <1>2, <2>1, Zenon DEF TypeOK, Merging
<1>4. 1..w \cup index..Len(scratch) = 1..w
  BY <1>1, <1>3
<1>5. ApartOn(scratch, 1..w) /\ Describes(Map, scratch, 1..w) /\ AllWell(scratch) /\ Firmware(scratch)
  BY <1>3, <1>4, Zenon DEF Kept
<1>6. /\ scratch' \in Seq(Descriptors) /\ Len(scratch') = w
      /\ \A k \in 1..w : scratch'[k] = scratch[k]
  BY <1>1, <1>3
<1>7. \A k \in 1..w : k \in 1..Len(scratch)
  BY <1>3
<1>8. AllWell(scratch') /\ Firmware(scratch')
  BY <1>5, <1>6, <1>7, Zenon DEF AllWell, Firmware
<1>9. Apart(scratch')
  BY <1>5, <1>6, Zenon DEF Apart, ApartOn
<1>10. Describes(Map, scratch', 1..w)
  BY <1>5, <1>6, <1>DescribesHere, Zenon
<1>11. Map' = Map
  BY <1>1, Zenon DEF Map, Converted
<1>12. Normalized'
  <2>1. Len(scratch') >= 1 /\ Len(scratch') <= Len(Map')
    <3>1. Len(Map) \in Nat /\ Len(scratch) <= Len(Map)
      BY <1>2, MapIs DEF TypeOK, Merging
    <3> QED
      BY <1>3, <1>6, <1>11, <3>1, SMTT(30)
  <2> QED
    BY <1>2, <1>6, <1>8, <1>9, <1>10, <1>11, <2>1, Zenon DEF Normalized, Merging
<1>13. TypeOK'
  BY <1>1, <1>2, <1>6, Zenon DEF TypeOK, Phases
<1>14. (ItemsReady => ItemsDone)'
  <2>1. ItemsReady' => ItemsReady
    BY <1>1, Zenon DEF ItemsReady
  <2> QED
    BY <1>1, <2>1, Zenon DEF IInv, ItemsDone
<1>15. phase' \in {"push", "apply"} /\ output' = <<>> /\ error' = "none"
  BY <1>1, <1>2, Zenon
<1>16. (phase = "push" => Pushed)'
  <2> SUFFICES ASSUME phase' = "push" PROVE Pushed'
    BY Zenon
  <2>1. items = <<>> /\ wanted \in Seq(Reservations)
    BY <1>1, <1>2, Zenon DEF IInv, TypeOK
  <2> QED
    BY <1>1, <2>1, MemoryMapAssumption DEF Pushed, AllWell
<1>17. ConvertedMapIsExact' /\ ReservationsAreCovered' /\ RefusedForAReason'
  BY <1>1, <1>2, <1>15, UnfinishedKeeps, Zenon
<1> QED
  BY <1>12, <1>13, <1>14, <1>15, <1>16, <1>17, Zenon DEF IInv

-----------------------------------------------------------------------------
(* Cutting: the output grows by a piece                                    *)

\* What is known of an accepted range.
Solid(d) ==
  /\ d.start \in Nat /\ d.start \in Bytes /\ d.start % PageSize = 0
  /\ RangeEnd(d) \in Nat /\ RangeEnd(d) <= MaxAddress /\ RangeEnd(d) % PageSize = 0
  /\ d.start < RangeEnd(d)

LEMMA SolidList ==
  ASSUME NEW D, Ranges(D), NEW list \in Seq(D)
  PROVE  \A k \in 1..Len(list) : Well(list[k]) => Solid(list[k])
  BY ListEnds, Zenon DEF Well, Solid

LEMMA SolidDescriptor ==
  ASSUME NEW d \in Descriptors, Well(d)
  PROVE  Solid(d)
<1>1. d.start \in 0..MaxAddress /\ d.start \in Nat /\ d.pages \in Nat
  BY MemoryMapAssumption DEF Descriptors
<1>2. /\ RangeEnd(d) \in Nat /\ (d.pages > 0 <=> d.start < RangeEnd(d))
      /\ d.start % PageSize = 0 => RangeEnd(d) % PageSize = 0
  BY <1>1, Ends, Zenon
<1> QED
  BY <1>1, <1>2, Zenon DEF Well, Solid, Bytes

\* Descriptor p may go behind an output that ends at f.
Follows(S, R, f, p) ==
  /\ p \in Descriptors /\ Well(p) /\ f <= p.start
  /\ Boundary(S, R, p.start)
  /\ \A a \in Bytes : f <= a /\ a < p.start => ~Mapped(S, a)
  /\ \A a \in Bytes : Holds(p, a) => Mapped(S, a) /\ Says(S, R, Label(p), a)

\* The piece between two aligned addresses.
LEMMA PieceIs ==
  ASSUME NEW kind \in BootKinds \cup FirmwareKinds, NEW attributes \in Nat,
         NEW from \in Nat, NEW to \in Nat, from % PageSize = 0, to % PageSize = 0,
         from <= to, to <= MaxAddress
  PROVE  LET p == Piece(kind, from, to, attributes)
         IN  /\ p \in Descriptors /\ p.start = from /\ RangeEnd(p) = to
             /\ p.pages = 0 <=> from = to
             /\ Label(p) = <<kind, attributes>> /\ p.kind = kind
             /\ from < to => Well(p)
<1> DEFINE n == (to - from) \div PageSize
           p == Piece(kind, from, to, attributes)
<1>1. n \in Nat /\ n * PageSize = to - from /\ (n = 0 <=> from = to)
  BY Span, Zenon
<1> HIDE DEF n
<1>2. p = [kind |-> kind, start |-> from, pages |-> n, attributes |-> attributes]
  BY Zenon DEF Piece, n
<1>3. p.start = from /\ p.pages = n /\ p.kind = kind /\ p.attributes = attributes
  BY <1>2
<1>4. p \in Descriptors
  BY <1>1, <1>2, MemoryMapAssumption DEF Descriptors
<1> HIDE DEF p
<1>5. RangeEnd(p) = to
  BY <1>1, <1>3 DEF RangeEnd
<1> QED
  BY <1>1, <1>3, <1>4, <1>5, SMTT(30) DEF Label, Well, p

\* No byte from f up to g is mapped.
Gap(S, f, g) == \A a \in Bytes : f <= a /\ a < g => ~Mapped(S, a)

\* Every byte from f up to g is mapped.
Whole(S, f, g) == \A a \in Bytes : f <= a /\ a < g => Mapped(S, a)

\* Every byte from f up to g is mapped, and has the label.
Filled(S, R, label, f, g) ==
  \A a \in Bytes : f <= a /\ a < g => Mapped(S, a) /\ Says(S, R, label, a)

\* Over a gap the front moves and the output stays.
LEMMA GapKeeps ==
  ASSUME NEW S, NEW R, NEW O \in Seq(Descriptors), NEW f \in Nat, NEW g \in Nat,
         Drawn(S, R, O, f), f <= g, Gap(S, f, g)
  PROVE  Drawn(S, R, O, g)
<1>1. ASSUME NEW k \in 1..Len(O)
      PROVE  Well(O[k]) /\ RangeEnd(O[k]) <= g /\ Boundary(S, R, O[k].start)
  <2>1. Well(O[k]) /\ RangeEnd(O[k]) <= f /\ Boundary(S, R, O[k].start)
    BY Zenon DEF Drawn
  <2>2. O[k] \in Descriptors
    OBVIOUS
  <2>3. RangeEnd(O[k]) \in Nat
    BY <2>1, <2>2, SolidDescriptor, Zenon DEF Solid
  <2>4. RangeEnd(O[k]) <= g
    BY <2>1, <2>3
  <2> QED
    BY <2>1, <2>4, Zenon
<1>2. ASSUME NEW a \in Bytes, Mapped(S, a), a < g
      PROVE  \E k \in 1..Len(O) : Holds(O[k], a)
  <2>1. a \in Nat
    BY MemoryMapAssumption DEF Bytes
  <2>2. ~(f <= a)
    BY <1>2, Zenon DEF Gap
  <2>3. a < f
    BY <2>1, <2>2, SMTT(30)
  <2> QED
    BY <1>2, <2>3, Zenon DEF Drawn
<1> QED
  BY <1>1, <1>2, Zenon DEF Drawn

\* append_descriptor draws the next piece.
LEMMA AppendKeeps ==
  \A S, R :
  \A O \in Seq(Descriptors), f \in Nat, kind \in BootKinds \cup FirmwareKinds,
     attributes \in Nat, from \in Nat, to \in Nat, allow_merge \in BOOLEAN :
    Drawn(S, R, O, f) /\ from % PageSize = 0 /\ to % PageSize = 0 /\ f <= from
      /\ from <= to /\ to <= MaxAddress /\ Gap(S, f, from)
      /\ Filled(S, R, <<kind, attributes>>, from, to)
      /\ (from < to => Boundary(S, R, from)) /\ (allow_merge \/ kind \in BootKinds) =>
        LET T == append_descriptor(O, Piece(kind, from, to, attributes), allow_merge)
        IN  T \in Seq(Descriptors) /\ Drawn(S, R, T, to)
\* It is appended, if it does not go on with a piece of the firmware's memory.
<1>AppendedKeeps.
    ASSUME NEW S, NEW R, NEW O \in Seq(Descriptors), NEW f \in Nat, NEW p,
           Drawn(S, R, O, f), Follows(S, R, f, p),
           O # <<>> /\ O[Len(O)].kind \notin BootKinds => ~Mergeable(O[Len(O)], p)
    PROVE  /\ Append(O, p) \in Seq(Descriptors)
           /\ Drawn(S, R, Append(O, p), RangeEnd(p))
  <2> USE <1>AppendedKeeps
  <2> DEFINE T == Append(O, p)
  <2>0. p \in Descriptors /\ Well(p) /\ f <= p.start /\ Boundary(S, R, p.start)
    BY Zenon DEF Follows
  <2>1. PICK n \in Nat : n = Len(O)
    OBVIOUS
  <2>2. /\ T \in Seq(Descriptors) /\ Len(T) = n + 1 /\ T[n + 1] = p
        /\ \A k \in 1..n : T[k] = O[k] /\ O[k] \in Descriptors
    BY <2>0, <2>1
  <2> HIDE DEF T
  <2>3. p.start \in Nat /\ RangeEnd(p) \in Nat /\ p.start < RangeEnd(p)
    BY <2>0, SolidDescriptor, Zenon DEF Solid
  <2>4. \A k \in 1..n : /\ Well(O[k]) /\ RangeEnd(O[k]) <= f /\ Boundary(S, R, O[k].start)
                        /\ RangeEnd(O[k]) \in Nat /\ O[k].start \in Nat
    <3>1. \A k \in 1..n : Well(O[k]) /\ RangeEnd(O[k]) <= f /\ Boundary(S, R, O[k].start)
      BY <2>1, Zenon DEF Drawn
    <3> QED
      BY <2>2, <3>1, SolidDescriptor, Zenon DEF Solid
  <2>5. ASSUME NEW k \in 1..Len(T)
        PROVE  Well(T[k]) /\ RangeEnd(T[k]) <= RangeEnd(p) /\ Boundary(S, R, T[k].start)
    <3>1. CASE k = n + 1
      BY <2>0, <2>2, <2>3, <3>1
    <3>2. CASE k # n + 1
      <4>1. k \in 1..n
        BY <2>2, <3>2
      <4>2. RangeEnd(O[k]) <= RangeEnd(p)
        BY <2>0, <2>3, <2>4, <4>1
      <4> QED
        BY <2>2, <2>4, <4>1, <4>2, Zenon
    <3> QED
      BY <3>1, <3>2, Zenon
  <2>6. Apart(T)
    <3>1. ASSUME NEW k \in 1..(n + 1), NEW m \in 1..(n + 1), k < m
          PROVE  RangeEnd(T[k]) <= T[m].start
      <4>0. k \in 1..n
        BY <3>1, SMTT(30)
      <4>1. CASE m = n + 1
        BY <2>0, <2>2, <2>3, <2>4, <4>0, <4>1, SMTT(30)
      <4>2. CASE m # n + 1
        <5>1. m \in 1..n
          BY <4>2
        <5>2. RangeEnd(O[k]) <= O[m].start
          BY <2>1, <3>1, <4>0, <5>1, Zenon DEF Drawn, Apart, ApartOn
        <5> QED
          BY <2>2, <4>0, <5>1, <5>2, Zenon
      <4> QED
        BY <4>1, <4>2, Zenon
    <3> QED
      BY <2>2, <3>1, Zenon DEF Apart, ApartOn
  <2>7. ASSUME NEW k \in 1..Len(T), NEW a \in Bytes, Holds(T[k], a)
        PROVE  Mapped(S, a) /\ Says(S, R, Label(T[k]), a)
    <3>1. CASE k = n + 1
      BY <2>2, <2>7, <3>1, Zenon DEF Follows
    <3>2. CASE k # n + 1
      <4>1. k \in 1..n
        BY <2>2, <3>2
      <4> QED
        BY <2>1, <2>2, <2>7, <4>1, Zenon DEF Drawn
    <3> QED
      BY <3>1, <3>2, Zenon
  <2>8. ASSUME NEW a \in Bytes, Mapped(S, a), a < RangeEnd(p)
        PROVE  \E k \in 1..Len(T) : Holds(T[k], a)
    <3>0. a \in Nat /\ n + 1 \in 1..Len(T) /\ \A k \in 1..n : k \in 1..Len(T)
      BY <2>2, MemoryMapAssumption DEF Bytes
    <3>1. CASE a < f
      <4>1. PICK k \in 1..n : Holds(O[k], a)
        BY <2>1, <2>8, <3>1, Zenon DEF Drawn
      <4> QED
        BY <2>2, <3>0, <4>1, Zenon
    <3>2. CASE f <= a
      <4>1. ~(a < p.start)
        BY <2>8, <3>2, Zenon DEF Follows
      <4>2. Holds(p, a)
        BY <2>3, <2>8, <3>0, <4>1, SMTT(30) DEF Holds
      <4> QED
        BY <2>2, <3>0, <4>2, Zenon
    <3> QED
      BY <3>0, <3>1, <3>2, SMTT(30)
  <2>9. ASSUME NEW k \in 1..(Len(T) - 1), T[k].kind \notin BootKinds
        PROVE  ~Mergeable(T[k], T[k + 1])
    <3>1. k \in 1..n
      BY <2>2
    <3>2. CASE k = n
      <4>1. O # <<>> /\ O[Len(O)] = T[k] /\ T[k + 1] = p
        BY <2>1, <2>2, <3>1, <3>2
      <4> QED
        BY <2>9, <4>1, Zenon
    <3>3. CASE k # n
      <4>1. k + 1 \in 1..n /\ k \in 1..(Len(O) - 1)
        BY <2>1, <3>1, <3>3
      <4>2. T[k] = O[k] /\ T[k + 1] = O[k + 1]
        BY <2>2, <3>1, <4>1, Zenon
      <4> QED
        BY <2>9, <4>1, <4>2, Zenon DEF Drawn
    <3> QED
      BY <3>2, <3>3, Zenon
  <2> QED
    BY <2>2, <2>5, <2>6, <2>7, <2>8, <2>9, Zenon DEF Drawn, T
\* It is joined to the last descriptor, if it goes on with it.
<1>JoinedKeeps.
    ASSUME NEW S, NEW R, NEW O \in Seq(Descriptors), NEW f \in Nat, NEW p,
           Drawn(S, R, O, f), Follows(S, R, f, p), O # <<>>, Mergeable(O[Len(O)], p)
    PROVE  LET T == [O EXCEPT ![Len(O)] = MergeInto(O[Len(O)], p)]
           IN  T \in Seq(Descriptors) /\ Drawn(S, R, T, RangeEnd(p))
  <2> USE <1>JoinedKeeps
  <2>0. p \in Descriptors /\ Well(p) /\ f <= p.start
    BY Zenon DEF Follows
  <2>1. PICK n \in Nat \ {0} : n = Len(O)
    OBVIOUS
  <2> DEFINE m == MergeInto(O[n], p)
             T == [O EXCEPT ![n] = m]
  <2>2. n \in 1..n /\ O[n] \in Descriptors /\ \A k \in 1..n : O[k] \in Descriptors
    BY <2>1
  <2>3. \A k \in 1..n : Well(O[k]) /\ RangeEnd(O[k]) <= f /\ Boundary(S, R, O[k].start)
    BY <2>1, Zenon DEF Drawn
  <2>4. /\ m \in Descriptors /\ Well(m) /\ m.start = O[n].start /\ m.kind = O[n].kind
        /\ RangeEnd(m) = RangeEnd(p) /\ Label(m) = Label(O[n]) /\ Label(m) = Label(p)
        /\ \A a \in Bytes : Holds(m, a) <=> Holds(O[n], a) \/ Holds(p, a)
    <3>1. Well(O[n]) /\ Mergeable(O[n], p)
      BY <2>1, <2>2, <2>3, Zenon
    <3> QED
      BY <2>0, <2>2, <3>1, MergedIs, Zenon
  <2>5. m.attributes = O[n].attributes
    BY <2>4, Zenon DEF Label
  <2> HIDE DEF m
  <2>6. /\ T \in Seq(Descriptors) /\ Len(T) = n /\ T[n] = m
        /\ \A k \in 1..n : k # n => T[k] = O[k]
    BY <2>1, <2>2, <2>4
  <2> HIDE DEF T
  <2>7. p.start \in Nat /\ RangeEnd(p) \in Nat /\ p.start < RangeEnd(p)
    BY <2>0, SolidDescriptor, Zenon DEF Solid
  <2>8. \A k \in 1..n : RangeEnd(O[k]) \in Nat /\ O[k].start \in Nat
    BY <2>2, <2>3, SolidDescriptor, Zenon DEF Solid
  <2>9. ASSUME NEW k \in 1..Len(T)
        PROVE  Well(T[k]) /\ RangeEnd(T[k]) <= RangeEnd(p) /\ Boundary(S, R, T[k].start)
    <3>0. k \in 1..n
      BY <2>6, Zenon
    <3>1. CASE k = n
      <4>1. RangeEnd(T[k]) <= RangeEnd(p)
        BY <2>4, <2>6, <2>7, <3>1
      <4> QED
        BY <2>2, <2>3, <2>4, <2>6, <3>1, <4>1, ZenonT(30)
    <3>2. CASE k # n
      <4>1. RangeEnd(O[k]) <= RangeEnd(p)
        BY <2>0, <2>3, <2>7, <2>8, <3>0
      <4> QED
        BY <2>3, <2>6, <3>0, <3>2, <4>1, Zenon
    <3> QED
      BY <3>1, <3>2, Zenon
  <2>10. Apart(T)
    <3>1. ASSUME NEW k \in 1..n, NEW q \in 1..n, k < q
          PROVE  RangeEnd(T[k]) <= T[q].start
      <4>1. k # n
        BY <3>1
      <4>2. RangeEnd(O[k]) <= O[q].start
        BY <2>1, <3>1, Zenon DEF Drawn, Apart, ApartOn
      <4>3. T[q].start = O[q].start
        BY <2>4, <2>6, Zenon
      <4> QED
        BY <2>6, <4>1, <4>2, <4>3, Zenon
    <3> QED
      BY <2>6, <3>1, Zenon DEF Apart, ApartOn
  <2>11. ASSUME NEW k \in 1..Len(T), NEW a \in Bytes, Holds(T[k], a)
        PROVE  Mapped(S, a) /\ Says(S, R, Label(T[k]), a)
    <3>0. k \in 1..n
      BY <2>6, Zenon
    <3>1. \A q \in 1..n : Holds(O[q], a) => Mapped(S, a) /\ Says(S, R, Label(O[q]), a)
      BY <2>1, Zenon DEF Drawn
    <3>2. Holds(p, a) => Mapped(S, a) /\ Says(S, R, Label(p), a)
      BY Zenon DEF Follows
    <3>3. CASE k = n
      <4>1. T[k] = m
        BY <2>6, <3>3, Zenon
      <4>2. Holds(m, a)
        BY <2>11, <4>1, Zenon
      <4>3. CASE Holds(O[n], a)
        BY <2>2, <2>4, <3>1, <4>1, <4>3, Zenon
      <4>4. CASE Holds(p, a)
        BY <2>4, <3>2, <4>1, <4>4, Zenon
      <4> QED
        BY <2>4, <4>2, <4>3, <4>4, Zenon
    <3>4. CASE k # n
      BY <2>6, <2>11, <3>0, <3>1, <3>4, Zenon
    <3> QED
      BY <3>3, <3>4, Zenon
  <2>12. ASSUME NEW a \in Bytes, Mapped(S, a), a < RangeEnd(p)
        PROVE  \E k \in 1..Len(T) : Holds(T[k], a)
    <3>0. a \in Nat /\ n \in 1..Len(T) /\ \A k \in 1..n : k \in 1..Len(T)
      BY <2>2, <2>6, MemoryMapAssumption DEF Bytes
    <3>1. CASE a < f
      <4>1. PICK k \in 1..n : Holds(O[k], a)
        BY <2>1, <2>12, <3>1, Zenon DEF Drawn
      <4>2. CASE k = n
        BY <2>4, <2>6, <3>0, <4>1, <4>2, Zenon
      <4>3. CASE k # n
        BY <2>6, <3>0, <4>1, <4>3, Zenon
      <4> QED
        BY <4>2, <4>3, Zenon
    <3>2. CASE f <= a
      <4>1. ~(a < p.start)
        BY <2>12, <3>2, Zenon DEF Follows
      <4>2. Holds(p, a)
        BY <2>7, <2>12, <3>0, <4>1 DEF Holds
      <4> QED
        BY <2>4, <2>6, <3>0, <4>2, Zenon
    <3> QED
      BY <3>0, <3>1, <3>2, SMTT(30)
  <2>13. ASSUME NEW k \in 1..(Len(T) - 1), T[k].kind \notin BootKinds
        PROVE  ~Mergeable(T[k], T[k + 1])
    <3>1. k \in 1..n /\ k + 1 \in 1..n /\ k # n /\ k \in 1..(Len(O) - 1)
      BY <2>1, <2>6
    <3>2. T[k] = O[k]
      BY <2>6, <3>1, Zenon
    <3>3. ~Mergeable(O[k], O[k + 1])
      BY <2>13, <3>1, <3>2, Zenon DEF Drawn
    <3>4. /\ T[k + 1].start = O[k + 1].start /\ T[k + 1].kind = O[k + 1].kind
          /\ T[k + 1].attributes = O[k + 1].attributes
      BY <2>4, <2>5, <2>6, <3>1, Zenon
    <3> QED
      BY <3>2, <3>3, <3>4, Zenon DEF Mergeable
  <2>14. Drawn(S, R, T, RangeEnd(p))
    BY <2>9, <2>10, <2>11, <2>12, <2>13, Zenon DEF Drawn
  <2> QED
    BY <2>1, <2>6, <2>14, Zenon DEF T, m
<1> TAKE S, R
<1> TAKE O \in Seq(Descriptors), f \in Nat, kind \in BootKinds \cup FirmwareKinds,
         attributes \in Nat, from \in Nat, to \in Nat, allow_merge \in BOOLEAN
<1> HAVE Drawn(S, R, O, f) /\ from % PageSize = 0 /\ to % PageSize = 0 /\ f <= from
         /\ from <= to /\ to <= MaxAddress /\ Gap(S, f, from)
         /\ Filled(S, R, <<kind, attributes>>, from, to)
         /\ (from < to => Boundary(S, R, from)) /\ (allow_merge \/ kind \in BootKinds)
<1> DEFINE p == Piece(kind, from, to, attributes)
           T == append_descriptor(O, p, allow_merge)
<1>1. /\ p \in Descriptors /\ p.start = from /\ RangeEnd(p) = to
      /\ p.pages = 0 <=> from = to
      /\ Label(p) = <<kind, attributes>> /\ p.kind = kind
      /\ from < to => Well(p)
  BY PieceIs, Zenon
<1> HIDE DEF p
<1>2. CASE from = to
  <2>1. T = O
    BY <1>1, <1>2, Zenon DEF append_descriptor
  <2>2. Drawn(S, R, O, to)
    BY <1>2, GapKeeps, Zenon
  <2> QED
    BY <2>1, <2>2, Zenon DEF p
<1>3. CASE from < to
  <2>1. p.pages # 0
    BY <1>1, <1>3
  <2>2. Follows(S, R, f, p)
    <3>1. ASSUME NEW a \in Bytes, Holds(p, a) PROVE Mapped(S, a) /\ Says(S, R, Label(p), a)
      BY <1>1, <3>1, Zenon DEF Holds, Filled
    <3>2. \A a \in Bytes : f <= a /\ a < p.start => ~Mapped(S, a)
      BY <1>1, Zenon DEF Gap
    <3> QED
      BY <1>1, <1>3, <3>1, <3>2, Zenon DEF Follows
  <2>3. CASE allow_merge /\ O # <<>> /\ Mergeable(O[Len(O)], p)
    <3>1. T = [O EXCEPT ![Len(O)] = MergeInto(O[Len(O)], p)]
      BY <2>1, <2>3, Zenon DEF append_descriptor
    <3> DEFINE U == [O EXCEPT ![Len(O)] = MergeInto(O[Len(O)], p)]
    <3>2. U \in Seq(Descriptors) /\ Drawn(S, R, U, RangeEnd(p))
      BY <2>2, <2>3, <1>JoinedKeeps, Zenon
    <3> QED
      BY <1>1, <3>1, <3>2, Zenon DEF p
  <2>4. CASE ~(allow_merge /\ O # <<>> /\ Mergeable(O[Len(O)], p))
    <3>1. T = Append(O, p)
      BY <2>1, <2>4, Zenon DEF append_descriptor
    <3>2. O # <<>> /\ O[Len(O)].kind \notin BootKinds => ~Mergeable(O[Len(O)], p)
      BY <1>1, <2>4, Zenon DEF Mergeable
    <3>3. Append(O, p) \in Seq(Descriptors) /\ Drawn(S, R, Append(O, p), RangeEnd(p))
      BY <2>2, <3>2, <1>AppendedKeeps, Zenon
    <3> QED
      BY <1>1, <3>1, <3>3, Zenon DEF p
  <2> QED
    BY <2>3, <2>4, Zenon
<1> QED
  BY <1>2, <1>3

-----------------------------------------------------------------------------
(* Cutting: the lists                                                      *)

\* A normalised map and finished reservations.
Good(S, R) ==
  /\ S \in Seq(Descriptors) /\ R \in Seq(Reservations) /\ Len(S) >= 1
  /\ AllWell(S) /\ AllWell(R) /\ Apart(S) /\ Apart(R) /\ Firmware(S)

LEMMA GoodIs ==
  ASSUME NEW S, NEW R, Good(S, R)
  PROVE  /\ Len(S) \in Nat \ {0} /\ Len(R) \in Nat
         /\ \A q \in 1..Len(S) : /\ Solid(S[q]) /\ S[q].kind \in FirmwareKinds
                                 /\ S[q].attributes \in Nat
         /\ \A m \in 1..Len(R) : Solid(R[m]) /\ R[m].kind \in BootKinds
         /\ \A q, p \in 1..Len(S) : q < p => RangeEnd(S[q]) <= S[p].start
         /\ \A m, p \in 1..Len(R) : m < p => RangeEnd(R[m]) <= R[p].start
<1>1. S \in Seq(Descriptors) /\ R \in Seq(Reservations) /\ Len(S) >= 1
  BY Zenon DEF Good
<1>2. Len(S) \in Nat \ {0} /\ Len(R) \in Nat
  BY <1>1
<1>3. /\ \A q \in 1..Len(S) : S[q].attributes \in Nat
      /\ \A m \in 1..Len(R) : R[m].kind \in BootKinds
  <2>1. \A d \in Descriptors : d.attributes \in Nat
    BY Zenon DEF Descriptors
  <2>2. \A d \in Reservations : d.kind \in BootKinds
    BY Zenon DEF Reservations
  <2>3. /\ \A q \in 1..Len(S) : S[q] \in Descriptors
        /\ \A m \in 1..Len(R) : R[m] \in Reservations
    BY <1>1
  <2> QED
    BY <2>1, <2>2, <2>3, Zenon
<1>4. \A q \in 1..Len(S) : Solid(S[q])
  BY <1>1, TypesOfLists, SolidList, Zenon DEF Good, AllWell
<1>5. \A m \in 1..Len(R) : Solid(R[m])
  BY <1>1, TypesOfLists, SolidList, Zenon DEF Good, AllWell
<1>6. /\ \A q, p \in 1..Len(S) : q < p => RangeEnd(S[q]) <= S[p].start
      /\ \A m, p \in 1..Len(R) : m < p => RangeEnd(R[m]) <= R[p].start
  BY Zenon DEF Good, Apart, ApartOn
<1> QED
  BY <1>2, <1>3, <1>4, <1>5, <1>6, Zenon DEF Good, Firmware

\* No byte is mapped below the first descriptor, between two neighbours, and
\* above the last one.
LEMMA Gaps ==
  ASSUME NEW S, NEW R, Good(S, R)
  PROVE  /\ Gap(S, 0, S[1].start)
         /\ \A i \in 1..(Len(S) - 1) : Gap(S, RangeEnd(S[i]), S[i + 1].start)
         /\ Gap(S, RangeEnd(S[Len(S)]), MaxAddress + 1)
<1>1. PICK n \in Nat \ {0} : n = Len(S)
  BY GoodIs, Zenon
<1>2. \A q \in 1..n : /\ S[q].start \in Nat /\ RangeEnd(S[q]) \in Nat
                      /\ S[q].start < RangeEnd(S[q])
  BY <1>1, GoodIs, Zenon DEF Solid
<1>3. \A q, p \in 1..n : q < p => RangeEnd(S[q]) <= S[p].start
  BY <1>1, GoodIs, Zenon
<1>4. ASSUME NEW i \in 0..n, NEW a \in Bytes, Mapped(S, a),
             i > 0 => RangeEnd(S[i]) <= a, i < n => a < S[i + 1].start
      PROVE  FALSE
  <2>1. a \in Nat
    BY MemoryMapAssumption DEF Bytes
  <2>2. PICK q \in 1..n : S[q].start <= a /\ a < RangeEnd(S[q])
    BY <1>1, <1>4, Zenon DEF Mapped, Holds
  <2>3. CASE q <= i
    <3>1. i \in 1..n /\ i > 0
      BY <2>3
    <3>2. RangeEnd(S[q]) <= RangeEnd(S[i])
      <4>1. CASE q = i
        BY <1>2, <3>1, <4>1, SMTT(30)
      <4>2. CASE q < i
        BY <1>2, <1>3, <3>1, <4>2, SMTT(30)
      <4> QED
        BY <2>3, <4>1, <4>2, SMTT(30)
    <3> QED
      BY <1>2, <1>4, <2>1, <2>2, <3>1, <3>2, SMTT(30)
  <2>4. CASE q > i
    <3>1. i + 1 \in 1..n /\ i < n
      BY <2>4
    <3>2. S[i + 1].start <= S[q].start
      <4>1. CASE q = i + 1
        BY <1>2, <3>1, <4>1, SMTT(30)
      <4>2. CASE i + 1 < q
        BY <1>2, <1>3, <3>1, <4>2, SMTT(30)
      <4> QED
        BY <2>4, <4>1, <4>2, SMTT(30)
    <3> QED
      BY <1>2, <1>4, <2>1, <2>2, <3>1, <3>2, SMTT(30)
  <2> QED
    BY <2>3, <2>4
<1>5. Gap(S, 0, S[1].start)
  BY <1>4, 0 \in 0..n, ~(0 > 0), 0 + 1 = 1, Zenon DEF Gap
<1>6. ASSUME NEW i \in 1..(Len(S) - 1) PROVE Gap(S, RangeEnd(S[i]), S[i + 1].start)
  <2>1. i \in 0..n
    BY <1>1
  <2> QED
    BY <1>4, <2>1, Zenon DEF Gap
<1>7. Gap(S, RangeEnd(S[Len(S)]), MaxAddress + 1)
  <2>1. n \in 0..n /\ ~(n < n)
    OBVIOUS
  <2> QED
    BY <1>1, <1>4, <2>1, Zenon DEF Gap
<1> QED
  BY <1>5, <1>6, <1>7, Zenon

-----------------------------------------------------------------------------
(* Cutting: the page counts                                                *)

\* The count stays right while the front passes what is not reserved,
LEMMA CountedSkip ==
  ASSUME NEW S, NEW r, Solid(r), NEW n, NEW f \in Nat, NEW g \in Nat, f <= g,
         RangeEnd(r) <= f \/ g <= r.start, Counted(S, r, n, f)
  PROVE  Counted(S, r, n, g)
<1>1. r.start \in Nat /\ RangeEnd(r) \in Nat /\ r.start < RangeEnd(r)
  BY Zenon DEF Solid
<1>2. Clamp(r, f) = Clamp(r, g)
  BY <1>1 DEF Clamp
<1> QED
  BY <1>2, Zenon DEF Counted

-----------------------------------------------------------------------------
(* Cutting: one reservation, and the rest of a descriptor                  *)

\* What Place says, with the facts on the lists it speaks of.
LEMMA PlaceIs ==
  ASSUME NEW S, NEW R, Good(S, R), NEW i \in 1..Len(S), NEW j, NEW c \in Nat,
         Place(S, R, i, j, c)
  PROVE  /\ Solid(S[i]) /\ S[i].kind \in FirmwareKinds /\ S[i].attributes \in Nat
         /\ S[i].start <= c /\ c <= RangeEnd(S[i]) /\ c % PageSize = 0
         /\ c < RangeEnd(S[i]) => Boundary(S, R, c)
         /\ \A m \in 1..Len(R) : Solid(R[m])
         /\ \A m \in 1..Len(R) : m < j =>
              RangeEnd(R[m]) <= c \/ RangeEnd(S[i]) <= R[m].start \/ c = RangeEnd(S[i])
<1>1. Solid(S[i]) /\ S[i].kind \in FirmwareKinds /\ S[i].attributes \in Nat
  BY GoodIs, Zenon
<1>2. \A m \in 1..Len(R) : Solid(R[m])
  BY GoodIs, Zenon
<1>3. ASSUME c < RangeEnd(S[i]) PROVE Boundary(S, R, c)
  <2>1. c # RangeEnd(S[i])
    BY <1>3
  <2> QED
    BY <2>1, Zenon DEF Place, Boundary
<1> QED
  BY <1>1, <1>2, <1>3, Zenon DEF Place

\* A byte of a descriptor in which no reservation lies keeps its label.
LEMMA Plain ==
  ASSUME NEW S, NEW R, NEW i \in 1..Len(S), NEW c, NEW e,
         \A a \in Bytes : c <= a /\ a < e =>
           Holds(S[i], a) /\ \A m \in 1..Len(R) : ~Holds(R[m], a)
  PROVE  Filled(S, R, <<S[i].kind, S[i].attributes>>, c, e)
<1> SUFFICES ASSUME NEW a \in Bytes, c <= a, a < e
             PROVE  Mapped(S, a) /\ Says(S, R, <<S[i].kind, S[i].attributes>>, a)
  BY Zenon DEF Filled
<1>1. Holds(S[i], a) /\ \A m \in 1..Len(R) : ~Holds(R[m], a)
  BY Zenon
<1>2. <<S[i].kind, S[i].attributes>> = Label(S[i])
  BY Zenon DEF Label
<1> QED
  BY <1>1, <1>2, Zenon DEF Mapped, Says

\* No reservation but the jth lies between c and to.
Clear(R, j, c, to) ==
  \A m \in 1..Len(R) : m # j => RangeEnd(R[m]) <= c \/ to <= R[m].start

\* Reservation r and what is left of descriptor d have the bytes from..to in common.
Meet(d, r, c, from, to) ==
  from = Maximum(c, r.start) /\ to = Minimum(RangeEnd(d), RangeEnd(r)) /\ from < to

\* The output behind a reservation r in descriptor d.
Cut(O, d, r, c, from, to) ==
  append_descriptor(append_descriptor(O, Piece(d.kind, c, from, d.attributes), TRUE),
                    Piece(r.kind, from, to, 0), FALSE)

\* The map is drawn up to the end of the bytes that reservation j and descriptor i
\* have in common.
DrawnBehind(S, R, i, j, c, O, from, to) ==
  /\ Cut(O, S[i], R[j], c, from, to) \in Seq(Descriptors)
  /\ Drawn(S, R, Cut(O, S[i], R[j], c, from, to), to)
  /\ Place(S, R, i, j + 1, to)
  /\ from \in Nat /\ to \in Nat /\ from % PageSize = 0 /\ to % PageSize = 0
  /\ c <= to /\ to <= RangeEnd(R[j])
  /\ Whole(S, from, to) /\ Clear(R, j, c, to)

\* A reservation that meets what is left of the descriptor is cut out of it.
LEMMA CutKeeps ==
  ASSUME NEW S, NEW R, Good(S, R), NEW i \in 1..Len(S), NEW j \in 1..Len(R), NEW c \in Nat,
         NEW O \in Seq(Descriptors), Place(S, R, i, j, c), Drawn(S, R, O, c),
         NEW from, NEW to, Meet(S[i], R[j], c, from, to)
  PROVE  DrawnBehind(S, R, i, j, c, O, from, to)
<1> DEFINE first == append_descriptor(O, Piece(S[i].kind, c, from, S[i].attributes), TRUE)
<1>1. /\ Solid(S[i]) /\ S[i].kind \in FirmwareKinds /\ S[i].attributes \in Nat
      /\ S[i].start <= c /\ c <= RangeEnd(S[i]) /\ c % PageSize = 0
      /\ c < RangeEnd(S[i]) => Boundary(S, R, c)
      /\ \A m \in 1..Len(R) : Solid(R[m])
      /\ \A m \in 1..Len(R) : m < j =>
           RangeEnd(R[m]) <= c \/ RangeEnd(S[i]) <= R[m].start \/ c = RangeEnd(S[i])
  BY PlaceIs, Zenon
<1>2. /\ S[i].start \in Nat /\ RangeEnd(S[i]) \in Nat /\ RangeEnd(S[i]) <= MaxAddress
      /\ RangeEnd(S[i]) % PageSize = 0
  BY <1>1, Zenon DEF Solid
<1>3. \A m \in 1..Len(R) : /\ R[m].start \in Nat /\ RangeEnd(R[m]) \in Nat
                           /\ R[m].start % PageSize = 0 /\ RangeEnd(R[m]) % PageSize = 0
                           /\ R[m].start < RangeEnd(R[m])
  BY <1>1, ZenonT(30) DEF Solid
<1>4. PICK x \in Nat : x = RangeEnd(S[i]) /\ x <= MaxAddress
  BY <1>2, Zenon
<1>5. PICK y \in Nat, z \in Nat : y = R[j].start /\ z = RangeEnd(R[j])
  BY <1>3, Zenon
<1>6. /\ from \in Nat /\ to \in Nat /\ c <= from /\ y <= from /\ to <= x /\ to <= z
      /\ from = c \/ from = y
      /\ to = x \/ to = z
      /\ to <= MaxAddress /\ c < x /\ from < to
  <2>1. from = Maximum(c, y) /\ to = Minimum(x, z) /\ from < to
    BY <1>4, <1>5, Zenon DEF Meet
  <2>2. from = IF c > y THEN c ELSE y
    BY <2>1, Zenon DEF Maximum
  <2>3. to = IF x < z THEN x ELSE z
    BY <2>1, Zenon DEF Minimum
  <2> QED
    BY <1>4, <2>1, <2>2, <2>3, MemoryMapAssumption, SMTT(30)
<1>7. from % PageSize = 0 /\ to % PageSize = 0
  BY <1>1, <1>2, <1>3, <1>4, <1>5, <1>6, ZenonT(30)
<1>8. ASSUME NEW m \in 1..Len(R), m # j
      PROVE  RangeEnd(R[m]) <= c \/ to <= R[m].start
  <2>0. R[m].start \in Nat /\ RangeEnd(R[m]) \in Nat
    BY <1>3, Zenon
  <2>1. CASE m < j
    <3>1. RangeEnd(R[m]) <= c \/ x <= R[m].start \/ c = x
      BY <1>1, <1>4, <2>1, ZenonT(30)
    <3> QED
      BY <1>6, <2>0, <3>1
  <2>2. CASE j < m
    <3>1. z <= R[m].start
      BY <1>5, <2>2, GoodIs, Zenon
    <3> QED
      BY <1>6, <2>0, <3>1, SMTT(30)
  <2> QED
    BY <1>8, <2>1, <2>2, GoodIs, SMTT(30)
<1>9. ASSUME NEW a \in Bytes, c <= a, a < to PROVE Holds(S[i], a)
  <2>1. a \in Nat
    BY MemoryMapAssumption, SMTT(30) DEF Bytes
  <2>2. S[i].start <= a /\ a < x
    BY <1>1, <1>2, <1>6, <1>9, <2>1, SMTT(60)
  <2> QED
    BY <1>4, <2>2, Zenon DEF Holds
<1>10. Filled(S, R, <<S[i].kind, S[i].attributes>>, c, from)
  <2>1. ASSUME NEW a \in Bytes, c <= a, a < from
        PROVE  Holds(S[i], a) /\ \A m \in 1..Len(R) : ~Holds(R[m], a)
    <3>1. a \in Nat
      BY MemoryMapAssumption DEF Bytes
    <3>2. a < to
      BY <1>6, <2>1, <3>1, SMTT(30)
    <3>3. ASSUME NEW m \in 1..Len(R), Holds(R[m], a) PROVE FALSE
      <4>1. R[m].start <= a /\ a < RangeEnd(R[m])
        BY <3>3, ZenonT(30) DEF Holds
      <4>2. R[m].start \in Nat /\ RangeEnd(R[m]) \in Nat
        BY <1>3, Zenon
      <4>3. CASE m = j
        <5>1. y <= a
          BY <1>5, <4>1, <4>3, Zenon
        <5> QED
          BY <1>6, <2>1, <3>1, <5>1, SMTT(30)
      <4>4. CASE m # j
        <5>1. RangeEnd(R[m]) <= c \/ to <= R[m].start
          BY <1>8, <4>4, Zenon
        <5> QED
          BY <1>6, <2>1, <3>1, <3>2, <4>1, <4>2, <5>1, SMTT(30)
      <4> QED
        BY <4>3, <4>4, Zenon
    <3> QED
      BY <1>9, <2>1, <3>2, <3>3, ZenonT(30)
  <2> QED
    BY <2>1, Plain, ZenonT(30)
<1>11. Filled(S, R, <<R[j].kind, 0>>, from, to) /\ Whole(S, from, to)
  <2>1. ASSUME NEW a \in Bytes, from <= a, a < to
        PROVE  Mapped(S, a) /\ Says(S, R, <<R[j].kind, 0>>, a)
    <3>1. a \in Nat
      BY MemoryMapAssumption DEF Bytes
    <3>2. c <= a /\ y <= a /\ a < z
      BY <1>6, <2>1, <3>1, SMTT(30)
    <3>3. Holds(S[i], a)
      BY <1>9, <2>1, <3>2, Zenon
    <3>4. Holds(R[j], a)
      BY <1>5, <3>2, Zenon DEF Holds
    <3> QED
      BY <3>3, <3>4, Zenon DEF Mapped, Says
  <2> QED
    BY <2>1, Zenon DEF Filled, Whole
<1>12. Boundary(S, R, c)
  BY <1>1, <1>4, <1>6, Zenon
<1>13. Boundary(S, R, from)
  <2>1. CASE from = c
    BY <1>12, <2>1, Zenon
  <2>2. CASE from = y
    BY <1>5, <2>2, Zenon DEF Boundary
  <2> QED
    BY <1>6, <2>1, <2>2, Zenon
<1>14. first \in Seq(Descriptors) /\ Drawn(S, R, first, from)
  <2>1. Gap(S, c, c)
    BY MemoryMapAssumption, SMTT(30) DEF Gap, Bytes
  <2>2. S[i].kind \in BootKinds \cup FirmwareKinds /\ c <= c /\ from <= MaxAddress /\ TRUE \in BOOLEAN
    BY <1>1, <1>6, MemoryMapAssumption, SMTT(30)
  <2> QED
    BY <1>1, <1>6, <1>7, <1>10, <1>12, <2>1, <2>2, AppendKeeps, Zenon
<1> HIDE DEF first
<1> DEFINE list == append_descriptor(first, Piece(R[j].kind, from, to, 0), FALSE)
<1>15. list \in Seq(Descriptors) /\ Drawn(S, R, list, to)
  <2>1. Gap(S, from, from)
    BY <1>6, MemoryMapAssumption, SMTT(30) DEF Gap, Bytes
  <2>2. /\ R[j].kind \in BootKinds /\ R[j].kind \in BootKinds \cup FirmwareKinds
        /\ from <= from /\ from <= to /\ 0 \in Nat /\ FALSE \in BOOLEAN
    BY <1>6, GoodIs
  <2> QED
    BY <1>6, <1>7, <1>11, <1>13, <1>14, <2>1, <2>2, AppendKeeps, Zenon
<1>16. Place(S, R, i, j + 1, to)
  <2>1. S[i].start <= to /\ to <= RangeEnd(S[i]) /\ c <= to
    BY <1>1, <1>2, <1>4, <1>6, SMTT(30)
  <2>2. to = RangeEnd(S[i]) \/ \E m \in 1..Len(R) : to = RangeEnd(R[m])
    BY <1>4, <1>5, <1>6, ZenonT(30)
  <2>3. ASSUME NEW m \in 1..Len(R), m < j + 1
        PROVE  RangeEnd(R[m]) <= to \/ RangeEnd(S[i]) <= R[m].start \/ to = RangeEnd(S[i])
    <3>1. CASE m = j
      BY <1>4, <1>5, <1>6, <3>1, Zenon
    <3>2. CASE m # j
      <4>1. m < j
        BY <2>3, <3>2, GoodIs, SMTT(30)
      <4>2. RangeEnd(R[m]) <= c \/ x <= R[m].start \/ c = x
        BY <1>1, <1>4, <4>1, ZenonT(30)
      <4>3. R[m].start \in Nat /\ RangeEnd(R[m]) \in Nat
        BY <1>3
      <4> QED
        BY <1>4, <1>6, <4>2, <4>3, SMTT(30)
    <3> QED
      BY <3>1, <3>2, ZenonT(30)
  <2> QED
    BY <1>7, <2>1, <2>2, <2>3, ZenonT(30) DEF Place
<1>17. c <= to /\ to <= RangeEnd(R[j])
  BY <1>5, <1>6, SMTT(30)
<1>18. Cut(O, S[i], R[j], c, from, to) = list
  BY Zenon DEF Cut, first
<1> HIDE DEF list
<1> QED
  BY <1>6, <1>7, <1>8, <1>11, <1>15, <1>16, <1>17, <1>18, Zenon DEF Clear, DrawnBehind

\* The output behind descriptor d.
Rest(O, d, c) == append_descriptor(O, Piece(d.kind, c, RangeEnd(d), d.attributes), TRUE)

\* The map is drawn up to the end of descriptor i.
DrawnOut(S, R, i, c, O) ==
  /\ Rest(O, S[i], c) \in Seq(Descriptors) /\ Drawn(S, R, Rest(O, S[i], c), RangeEnd(S[i]))
  /\ RangeEnd(S[i]) \in Nat /\ RangeEnd(S[i]) % PageSize = 0 /\ c <= RangeEnd(S[i])
  /\ \A m \in 1..Len(R) :
       RangeEnd(R[m]) <= c \/ RangeEnd(S[i]) <= R[m].start \/ c = RangeEnd(S[i])

\* A descriptor is cut from its start.
LEMMA PlaceStarts ==
  ASSUME NEW S, NEW R, Good(S, R), NEW i \in 1..Len(S)
  PROVE  S[i].start \in Nat /\ S[i].start % PageSize = 0 /\ Place(S, R, i, 1, S[i].start)
<1>1. Solid(S[i])
  BY GoodIs, Zenon
<1>2. S[i].start \in Nat /\ S[i].start <= RangeEnd(S[i]) /\ S[i].start <= S[i].start
  BY <1>1, SMTT(30) DEF Solid
<1>3. \A m \in 1..Len(R) : ~(m < 1)
  BY GoodIs
<1> QED
  BY <1>1, <1>2, <1>3, Zenon DEF Place, Solid

\* The lists of a conversion that has come to the cutting.
LEMMA CuttingLists ==
  ASSUME IInv, phase \in {"apply", "cut"}
  PROVE  TypeOK /\ Normalized /\ ItemsDone /\ Good(scratch, items)
<1>1. TypeOK /\ Normalized /\ ItemsDone
  BY Zenon DEF IInv, MapReady, ItemsReady
<1> QED
  BY <1>1, Zenon DEF TypeOK, Normalized, ItemsDone, Good

\* The entry checks of apply_reservations pass.
LEMMA ApplyBeginKeeps ==
    IInv /\ ApplyBegin =>
        IInv'
\* Below the first descriptor no page of a reservation is met.
<1>CountedStart.
    ASSUME NEW S, NEW r, Solid(r), NEW f \in Nat, Gap(S, 0, f)
    PROVE  Counted(S, r, 0, f)
  <2> USE <1>CountedStart
  <2>1. /\ r.start \in Nat /\ r.start \in Bytes /\ r.start % PageSize = 0
        /\ RangeEnd(r) \in Nat /\ r.start < RangeEnd(r)
    BY Zenon DEF Solid
  <2> DEFINE c == Clamp(r, f)
  <2>2. c \in Nat /\ r.start <= c /\ (r.start < c => r.start < f)
    BY <2>1 DEF Clamp
  <2> HIDE DEF c
  <2>3. r.start + 0 * PageSize = r.start
    BY <2>1, MemoryMapAssumption
  <2>4. ASSUME r.start < c
        PROVE  \E a \in Addresses : r.start <= a /\ a < c /\ ~Mapped(S, a)
    <3>1. r.start \in Addresses
      BY <2>1, Zenon DEF Addresses, Bytes
    <3>2. 0 <= r.start /\ r.start < f /\ r.start <= r.start
      BY <2>1, <2>2, <2>4
    <3>3. ~Mapped(S, r.start)
      BY <2>1, <3>2, Zenon DEF Gap
    <3> QED
      BY <2>4, <3>1, <3>2, <3>3, Zenon
  <2>5. ASSUME r.start = c, NEW a \in Bytes, r.start <= a, a < c PROVE Mapped(S, a)
    BY <2>1, <2>2, <2>5, MemoryMapAssumption, SMTT(30) DEF Bytes
  <2> QED
    BY <2>2, <2>3, <2>4, <2>5, Zenon DEF Counted, c
\* Nothing is drawn yet.
<1>DrawnStarts.
    ASSUME NEW S, NEW R, Good(S, R)
    PROVE  /\ Drawn(S, R, <<>>, S[1].start)
           /\ \A m \in 1..Len(R) : Counted(S, R[m], 0, S[1].start)
  <2> USE <1>DrawnStarts
  <2>1. 1 \in 1..Len(S)
    BY GoodIs
  <2>2. S[1].start \in Nat
    BY <2>1, PlaceStarts, Zenon
  <2>3. Gap(S, 0, S[1].start)
    BY Gaps, Zenon
  <2>4. Drawn(S, R, <<>>, S[1].start)
    <3>1. 1..Len(<<>>) = {} /\ 1..(Len(<<>>) - 1) = {}
      OBVIOUS
    <3>2. \A a \in Bytes : 0 <= a
      BY MemoryMapAssumption DEF Bytes
    <3>3. \A a \in Bytes : Mapped(S, a) => ~(a < S[1].start)
      BY <2>3, <3>2, Zenon DEF Gap
    <3> QED
      BY <3>1, <3>3, Zenon DEF Drawn, Apart, ApartOn
  <2>5. ASSUME NEW m \in 1..Len(R) PROVE Counted(S, R[m], 0, S[1].start)
    <3>1. Solid(R[m])
      BY GoodIs, Zenon
    <3> QED
      BY <2>2, <2>3, <3>1, <1>CountedStart, Zenon
  <2> QED
    BY <2>4, <2>5, Zenon
<1> HAVE IInv /\ ApplyBegin
<1>1. phase = "apply"
  BY Zenon DEF ApplyBegin
<1>2. TypeOK /\ Normalized /\ ItemsDone /\ Good(scratch, items)
  BY <1>1, CuttingLists, Zenon
<1>3. error = "none" /\ output = <<>>
  BY <1>1, Zenon DEF IInv
<1>4. ~Overlapping(scratch)
  <2> SUFFICES ASSUME NEW k \in 1..(Len(scratch) - 1), RangeEnd(scratch[k]) > scratch[k + 1].start
               PROVE  FALSE
    BY Zenon DEF Overlapping
  <2>1. k \in 1..Len(scratch) /\ k + 1 \in 1..Len(scratch) /\ k < k + 1
    BY <1>2, GoodIs
  <2>2. RangeEnd(scratch[k]) <= scratch[k + 1].start
    BY <1>2, <2>1, GoodIs, Zenon
  <2>3. RangeEnd(scratch[k]) \in Nat /\ scratch[k + 1].start \in Nat
    BY <1>2, <2>1, GoodIs, Zenon DEF Solid
  <2> QED
    BY <2>2, <2>3, SMTT(30)
<1>5. ASSUME NEW k \in 1..Len(scratch) PROVE validate_range(scratch[k]) = "none"
  <2>1. scratch[k] \in Descriptors /\ Well(scratch[k])
    BY <1>2, SMTT(30) DEF TypeOK, Normalized, AllWell
  <2> QED
    BY <2>1, ValidIsWell, TypesOfLists, Zenon
<1>6. /\ phase' = "cut" /\ covered' = [k \in 1..Len(items) |-> 0]
      /\ index' = 1 /\ inner' = 1 /\ cursor' = scratch[1].start
      /\ UNCHANGED <<post_exit, raw, wanted, error, items, scratch, output, write>>
  BY <1>4, <1>5, Zenon DEF ApplyBegin, inputs
<1>7. Map' = Map
  BY <1>6, Zenon DEF Map, Converted
<1>8. 1 \in 1..Len(scratch) /\ Len(items) \in Nat
  BY <1>2, GoodIs
<1>9. /\ scratch[1].start \in Nat /\ Place(scratch, items, 1, 1, scratch[1].start)
      /\ Drawn(scratch, items, <<>>, scratch[1].start)
      /\ \A k \in 1..Len(items) : Counted(scratch, items[k], 0, scratch[1].start)
  BY <1>2, <1>8, PlaceStarts, <1>DrawnStarts, ZenonT(30)
<1>10. covered' \in Seq(Nat) /\ Len(covered') = Len(items) /\ \A k \in 1..Len(items) : covered'[k] = 0
  BY <1>6, <1>8, SMTT(30)
<1>11. TypeOK'
  BY <1>2, <1>6, <1>9, <1>10, Zenon DEF TypeOK, Phases
<1>12. Cutting'
  <2>1. Front(scratch', index', cursor') = scratch[1].start
    BY <1>6, <1>8, SMTT(30) DEF Front
  <2>2. index' \in 1..(Len(scratch') + 1) /\ inner' \in 1..(Len(items') + 1)
    BY <1>6, <1>8, <1>2, GoodIs, SMTT(30)
  <2>3. Len(output') <= CONVERTED_DESCRIPTOR_CAPACITY
    BY <1>3, <1>6, MemoryMapAssumption, SMTT(30)
  <2>4. \A k \in 1..Len(items') : Counted(scratch', items'[k], covered'[k], scratch[1].start)
    BY <1>6, <1>9, <1>10, Zenon
  <2> QED
    BY <1>3, <1>6, <1>9, <1>10, <2>1, <2>2, <2>3, <2>4, Zenon DEF Cutting
<1>13. ItemsDone' /\ Normalized'
  BY <1>2, <1>6, <1>7, Zenon DEF ItemsDone, Normalized
<1>14. ConvertedMapIsExact' /\ ReservationsAreCovered' /\ RefusedForAReason'
  BY <1>3, <1>6, UnfinishedKeeps, Zenon
<1> QED
  BY <1>3, <1>6, <1>11, <1>12, <1>13, <1>14, Zenon DEF IInv

-----------------------------------------------------------------------------
(* Cutting: the size of the output                                         *)

\* The addresses at which a descriptor of the output may start, numbered.
Corner(S, R, t) ==
  IF t <= Len(S) THEN S[t].start
  ELSE IF t <= Len(S) + Len(R) THEN R[t - Len(S)].start
  ELSE RangeEnd(R[t - Len(S) - Len(R)])

\* A conversion that needs more descriptors than there are places has a raw map
\* and reservations that leave too little room.
LEMMA CapacityKeeps ==
  \A O \in Seq(Descriptors) : \A f :
    Counting /\ IInv /\ phase = "cut" /\ Fail("OutputCapacity")
      /\ Drawn(scratch, items, O, f) /\ Len(O) > CONVERTED_DESCRIPTOR_CAPACITY =>
        IInv'
<1>CornerIs.
    ASSUME NEW S, NEW R, NEW a, Len(S) \in Nat, Len(R) \in Nat, Boundary(S, R, a)
    PROVE  \E t \in 1..(Len(S) + 2 * Len(R)) : Corner(S, R, t) = a
  <2> USE <1>CornerIs
  <2>1. PICK n \in Nat, m \in Nat : n = Len(S) /\ m = Len(R)
    BY Zenon
  <2>2. ASSUME NEW q \in 1..n, a = S[q].start
        PROVE  \E t \in 1..(n + 2 * m) : Corner(S, R, t) = a
    <3>1. q \in 1..(n + 2 * m) /\ q <= n
      OBVIOUS
    <3>2. Corner(S, R, q) = a
      BY <2>1, <2>2, <3>1, Zenon DEF Corner
    <3> QED
      BY <3>1, <3>2, Zenon
  <2>3. ASSUME NEW q \in 1..m, a = R[q].start
        PROVE  \E t \in 1..(n + 2 * m) : Corner(S, R, t) = a
    <3>1. n + q \in 1..(n + 2 * m) /\ ~(n + q <= n) /\ n + q <= n + m /\ (n + q) - n = q
      OBVIOUS
    <3>2. Corner(S, R, n + q) = a
      BY <2>1, <2>3, <3>1, Zenon DEF Corner
    <3> QED
      BY <3>1, <3>2, Zenon
  <2>4. ASSUME NEW q \in 1..m, a = RangeEnd(R[q])
        PROVE  \E t \in 1..(n + 2 * m) : Corner(S, R, t) = a
    <3>1. PICK t \in 1..(n + 2 * m) : ~(t <= n) /\ ~(t <= n + m) /\ t - n - m = q
      <4>1. /\ n + m + q \in 1..(n + 2 * m) /\ ~(n + m + q <= n) /\ ~(n + m + q <= n + m)
            /\ (n + m + q) - n - m = q
        OBVIOUS
      <4> QED
        BY <4>1, Zenon
    <3>2. Corner(S, R, t) = a
      BY <2>1, <2>4, <3>1, Zenon DEF Corner
    <3> QED
      BY <3>1, <3>2, Zenon
  <2> QED
    BY <2>1, <2>2, <2>3, <2>4, Zenon DEF Boundary
\* No two descriptors of the output start at the same one, so there are not more
\* descriptors than these addresses.
<1>OutputFits.
    ASSUME Counting, NEW S, NEW R, Good(S, R), NEW O \in Seq(Descriptors), NEW f, Drawn(S, R, O, f)
    PROVE  Len(O) <= Len(S) + 2 * Len(R)
  <2> USE <1>OutputFits
  <2>1. PICK n \in Nat, m \in Nat : n = Len(S) /\ m = Len(R)
    BY GoodIs, Zenon
  <2>2. PICK l \in Nat : l = Len(O)
    OBVIOUS
  <2> DEFINE N == n + 2 * m
             F == [k \in 1..l |-> CHOOSE t \in 1..N : Corner(S, R, t) = O[k].start]
  <2>3. ASSUME NEW k \in 1..l PROVE \E t \in 1..N : Corner(S, R, t) = O[k].start
    <3>1. Boundary(S, R, O[k].start)
      BY <2>2, Zenon DEF Drawn
    <3> QED
      BY <2>1, <3>1, <1>CornerIs, Zenon
  <2>4. ASSUME NEW k \in 1..l PROVE F[k] \in 1..N /\ Corner(S, R, F[k]) = O[k].start
    BY <2>3, Zenon
  <2>5. F \in [1..l -> 1..N]
    BY <2>4, Zenon
  <2> HIDE DEF F
  <2>6. \A k \in 1..l : O[k].start \in Nat /\ RangeEnd(O[k]) \in Nat /\ O[k].start < RangeEnd(O[k])
    <3>1. \A k \in 1..l : O[k] \in Descriptors
      BY <2>2
    <3>2. \A k \in 1..l : Well(O[k])
      BY <2>2, Zenon DEF Drawn
    <3> QED
      BY <3>1, <3>2, SolidDescriptor, Zenon DEF Solid
  <2>7. ASSUME NEW x \in 1..l, NEW y \in 1..l, x < y PROVE F[x] # F[y]
    <3>1. RangeEnd(O[x]) <= O[y].start
      BY <2>2, <2>7, ZenonT(30) DEF Drawn, Apart, ApartOn
    <3>2. O[x].start # O[y].start
      BY <2>6, <3>1
    <3> QED
      BY <2>4, <3>2, Zenon
  <2>8. ASSUME l > N PROVE FALSE
    <3>1. N \in Nat
      OBVIOUS
    <3>2. PICK x \in 1..l, y \in 1..l : x # y /\ F[x] = F[y]
      BY <2>5, <2>8, <3>1, Zenon DEF Counting
    <3>3. x < y \/ y < x
      BY <3>2
    <3> QED
      BY <2>7, <3>2, <3>3, Zenon
  <2> QED
    BY <2>1, <2>2, <2>8, SMTT(30)
<1> TAKE O \in Seq(Descriptors)
<1> TAKE f
<1> HAVE Counting /\ IInv /\ phase = "cut" /\ Fail("OutputCapacity")
         /\ Drawn(scratch, items, O, f) /\ Len(O) > CONVERTED_DESCRIPTOR_CAPACITY
<1>1. TypeOK /\ Normalized /\ ItemsDone /\ Good(scratch, items)
  BY CuttingLists, Zenon
<1>2. Len(O) <= Len(scratch) + 2 * Len(items)
  BY <1>1, <1>OutputFits, Zenon
<1>3. Len(scratch) <= Len(raw) /\ Len(items) = Len(wanted)
  <2>1. Len(Map) = Len(raw)
    BY <1>1 DEF TypeOK, Map
  <2> QED
    BY <1>1, <2>1, Zenon DEF Normalized, ItemsDone, Permutes
<1>4. /\ Len(O) \in Nat /\ Len(scratch) \in Nat /\ Len(items) \in Nat /\ Len(raw) \in Nat
      /\ Len(wanted) \in Nat
  BY <1>1 DEF TypeOK
<1>5. Len(raw) + 2 * Len(wanted) > CONVERTED_DESCRIPTOR_CAPACITY
  BY <1>2, <1>3, <1>4, MemoryMapAssumption, SMTT(30)
<1>6. error' = "OutputCapacity" /\ raw' = raw /\ wanted' = wanted
  BY Zenon DEF Fail, inputs
<1>7. RefusedForAReason'
  BY <1>5, <1>6, Zenon DEF RefusedForAReason
<1> QED
  BY <1>7, FailKeeps, Zenon

-----------------------------------------------------------------------------
(* Cutting: the steps of apply_reservations                                *)

\* While the conversion cuts, the front of the output is the cursor.
LEMMA CuttingIs ==
  ASSUME IInv, phase = "cut", index <= Len(scratch)
  PROVE  /\ TypeOK /\ Normalized /\ ItemsDone /\ Good(scratch, items) /\ error = "none"
         /\ index \in 1..Len(scratch) /\ inner \in 1..(Len(items) + 1)
         /\ Len(scratch) \in Nat /\ Len(items) \in Nat
         /\ index \in Nat /\ inner \in Nat /\ cursor \in Nat /\ output \in Seq(Descriptors)
         /\ Place(scratch, items, index, inner, cursor)
         /\ Drawn(scratch, items, output, cursor)
         /\ covered \in Seq(Nat) /\ Len(covered) = Len(items)
         /\ \A k \in 1..Len(items) : /\ covered[k] \in Nat
                                     /\ Counted(scratch, items[k], covered[k], cursor)
<1>1. TypeOK /\ Normalized /\ ItemsDone /\ Good(scratch, items)
  BY CuttingLists, Zenon
<1>2. Cutting /\ error = "none"
  BY Zenon DEF IInv
<1>3. Front(scratch, index, cursor) = cursor
  BY Zenon DEF Front
<1>4. /\ Len(scratch) \in Nat /\ Len(items) \in Nat /\ index \in Nat /\ inner \in Nat
      /\ cursor \in Nat /\ output \in Seq(Descriptors) /\ covered \in Seq(Nat)
  BY <1>1 DEF TypeOK
<1>5. /\ index \in 1..(Len(scratch) + 1) /\ inner \in 1..(Len(items) + 1)
      /\ Place(scratch, items, index, inner, cursor) /\ Drawn(scratch, items, output, cursor)
      /\ Len(covered) = Len(items)
      /\ \A k \in 1..Len(items) : Counted(scratch, items[k], covered[k], cursor)
  BY <1>2, <1>3, Zenon DEF Cutting
<1>6. index \in 1..Len(scratch)
  BY <1>4, <1>5, SMTT(30)
<1>7. \A k \in 1..Len(items) : covered[k] \in Nat
  BY <1>4, <1>5, SMTT(30)
<1> QED
  BY <1>1, <1>2, <1>4, <1>5, <1>6, <1>7, Zenon

\* A step of the cutting loops.
LEMMA CutStepKeeps ==
  ASSUME IInv, phase = "cut", Cutting', phase' = phase,
         output' \in Seq(Descriptors), covered' \in Seq(Nat),
         index' \in Nat, inner' \in Nat, cursor' \in Nat,
         UNCHANGED <<post_exit, raw, wanted, error, items, scratch, write>>
  PROVE  IInv'
<1>1. TypeOK /\ Normalized /\ ItemsDone
  BY CuttingLists, Zenon
<1>2. error = "none"
  BY Zenon DEF IInv
<1>3. Map' = Map
  BY Zenon DEF Map, Converted
<1>4. TypeOK'
  BY <1>1, Zenon DEF TypeOK
<1>5. ItemsDone' /\ Normalized'
  BY <1>1, <1>3, Zenon DEF ItemsDone, Normalized
<1>6. ConvertedMapIsExact' /\ ReservationsAreCovered' /\ RefusedForAReason'
  BY <1>2, UnfinishedKeeps, Zenon
<1> QED
  BY <1>2, <1>4, <1>5, <1>6, Zenon DEF IInv

\* A turn of the inner loop.
LEMMA ApplyReservationKeeps ==
    Counting /\ IInv /\ ApplyReservation =>
        IInv'
\* and over the part of the reservation that a descriptor holds.
<1>CountedMore.
    ASSUME NEW S, NEW r, Solid(r), NEW n \in Nat, NEW f \in Nat, NEW to \in Nat,
           NEW from \in Nat, from = Maximum(f, r.start), from < to, to <= RangeEnd(r),
           from % PageSize = 0, to % PageSize = 0,
           Whole(S, from, to), Counted(S, r, n, f)
    PROVE  /\ n + (to - from) \div PageSize \in Nat
           /\ Counted(S, r, n + (to - from) \div PageSize, to)
  <2> USE <1>CountedMore
  <2>1. r.start \in Nat /\ RangeEnd(r) \in Nat /\ r.start < RangeEnd(r)
    BY Zenon DEF Solid
  <2>2. Clamp(r, f) = from /\ Clamp(r, to) = to /\ r.start <= from
    BY <2>1 DEF Clamp, Maximum
  <2>3. PICK p \in Nat : p = (to - from) \div PageSize /\ p * PageSize = to - from
    BY Span
  <2>4. PICK x \in Nat : x = n * PageSize
    BY MemoryMapAssumption, Z3
  <2>5. (n + p) * PageSize = n * PageSize + p * PageSize
    BY MemoryMapAssumption, Z3
  <2>6. r.start + (n + p) * PageSize = (r.start + n * PageSize) + (to - from)
    BY <2>1, <2>3, <2>4, <2>5, SMTT(30)
  <2>7. PICK met \in Nat : met = r.start + n * PageSize
    BY <2>1, <2>4, SMTT(30)
  <2>8. PICK more \in Nat : more = met + (to - from) /\ more = r.start + (n + p) * PageSize
    BY <2>6, <2>7
  <2>9. met <= from
    BY <2>2, <2>7, Zenon DEF Counted
  <2>10. more <= to /\ (more = to => met = from) /\ (more < to => met < from)
    BY <2>8, <2>9, SMTT(30)
  <2>11. ASSUME more = to, NEW a \in Bytes, r.start <= a, a < to PROVE Mapped(S, a)
    <3>1. a \in Nat
      BY MemoryMapAssumption DEF Bytes
    <3>2. CASE a < from
      BY <2>2, <2>7, <2>10, <2>11, <3>2, Zenon DEF Counted
    <3>3. CASE from <= a
      BY <2>11, <3>3, Zenon DEF Whole
    <3> QED
      BY <3>1, <3>2, <3>3, SMTT(30)
  <2>12. ASSUME more < to
         PROVE  \E a \in Addresses : r.start <= a /\ a < to /\ ~Mapped(S, a)
    <3>1. PICK a \in Addresses : r.start <= a /\ a < from /\ ~Mapped(S, a)
      BY <2>2, <2>7, <2>10, <2>12, Zenon DEF Counted
    <3>2. a < to
      BY <3>1, MemoryMapAssumption DEF Addresses
    <3> QED
      BY <3>1, <3>2, Zenon
  <2>13. Counted(S, r, n + p, to)
    BY <2>2, <2>8, <2>10, <2>11, <2>12, Zenon DEF Counted
  <2> QED
    BY <2>3, <2>13
\* A reservation that does not meet what is left of the descriptor is passed.
<1>PassKeeps.
    ASSUME NEW S, NEW R, Good(S, R), NEW i \in 1..Len(S), NEW j \in 1..Len(R), NEW c \in Nat,
           Place(S, R, i, j, c),
           ~(Maximum(c, R[j].start) < Minimum(RangeEnd(S[i]), RangeEnd(R[j])))
    PROVE  Place(S, R, i, j + 1, c)
  <2> USE <1>PassKeeps
  <2>1. Solid(S[i]) /\ Solid(R[j]) /\ c <= RangeEnd(S[i])
    BY PlaceIs, Zenon
  <2>2. /\ RangeEnd(S[i]) \in Nat
        /\ R[j].start \in Nat /\ RangeEnd(R[j]) \in Nat /\ R[j].start < RangeEnd(R[j])
    BY <2>1, ZenonT(30) DEF Solid
  <2>3. RangeEnd(R[j]) <= c \/ RangeEnd(S[i]) <= R[j].start \/ c = RangeEnd(S[i])
    BY <2>1, <2>2 DEF Maximum, Minimum
  <2>4. ASSUME NEW m \in 1..Len(R), m < j + 1
        PROVE  RangeEnd(R[m]) <= c \/ RangeEnd(S[i]) <= R[m].start \/ c = RangeEnd(S[i])
    <3>1. m = j \/ m < j
      BY <2>4, GoodIs, SMTT(60)
    <3> QED
      BY <2>3, <3>1, ZenonT(30) DEF Place
  <2> QED
    BY <2>4, Zenon DEF Place
<1> HAVE Counting /\ IInv /\ ApplyReservation
<1> DEFINE d == scratch[index]
           r == items[inner]
           from == Maximum(cursor, r.start)
           to == Minimum(RangeEnd(d), RangeEnd(r))
           list == append_descriptor(
                     append_descriptor(output, Piece(d.kind, cursor, from, d.attributes), TRUE),
                     Piece(r.kind, from, to, 0), FALSE)
<1>1. /\ phase = "cut" /\ index <= Len(scratch) /\ inner <= Len(items)
      /\ IF from < to
         THEN IF Len(list) > CONVERTED_DESCRIPTOR_CAPACITY
              THEN Fail("OutputCapacity")
              ELSE /\ output' = list
                   /\ covered' = [covered EXCEPT ![inner] = covered[inner] + (to - from) \div PageSize]
                   /\ cursor' = to
                   /\ inner' = inner + 1
                   /\ UNCHANGED <<inputs, phase, error, items, scratch, index, write>>
         ELSE /\ inner' = inner + 1
              /\ UNCHANGED <<inputs, phase, error, items, scratch, output, covered,
                             index, cursor, write>>
  BY Zenon DEF ApplyReservation
<1> HIDE DEF d, r, from, to, list
<1>2. /\ Good(scratch, items) /\ index \in 1..Len(scratch) /\ inner \in 1..(Len(items) + 1)
      /\ Len(scratch) \in Nat /\ Len(items) \in Nat
      /\ index \in Nat /\ inner \in Nat /\ cursor \in Nat /\ output \in Seq(Descriptors)
      /\ Place(scratch, items, index, inner, cursor)
      /\ Drawn(scratch, items, output, cursor)
      /\ covered \in Seq(Nat) /\ Len(covered) = Len(items)
      /\ \A k \in 1..Len(items) : /\ covered[k] \in Nat
                                  /\ Counted(scratch, items[k], covered[k], cursor)
  BY <1>1, CuttingIs, Zenon
<1>3. inner \in 1..Len(items) /\ inner + 1 \in 1..(Len(items) + 1) /\ inner + 1 \in Nat
  BY <1>1, <1>2, SMTT(30)
<1>4. CASE ~(from < to)
  <2>1. /\ inner' = inner + 1
        /\ UNCHANGED <<post_exit, raw, wanted, phase, error, items, scratch, output, covered,
                       index, cursor, write>>
    BY <1>1, <1>4, Zenon DEF inputs
  <2>2. Place(scratch, items, index, inner + 1, cursor)
    BY <1>2, <1>3, <1>4, <1>PassKeeps, Zenon DEF from, to, d, r
  <2>3. Cutting
    BY <1>1, Zenon DEF IInv
  <2>4. Cutting'
    BY <1>3, <2>1, <2>2, <2>3, Zenon DEF Cutting
  <2> QED
    BY <1>1, <1>2, <1>3, <2>1, <2>4, CutStepKeeps, Zenon
<1>5. CASE from < to
  <2>1. /\ list \in Seq(Descriptors) /\ Drawn(scratch, items, list, to)
        /\ Place(scratch, items, index, inner + 1, to)
        /\ from \in Nat /\ to \in Nat /\ from % PageSize = 0 /\ to % PageSize = 0
        /\ cursor <= to /\ to <= RangeEnd(r)
        /\ Whole(scratch, from, to) /\ Clear(items, inner, cursor, to)
    <3>1. Meet(scratch[index], items[inner], cursor, from, to)
      BY <1>5, Zenon DEF Meet, from, to, d, r
    <3>2. list = Cut(output, scratch[index], items[inner], cursor, from, to)
      BY Zenon DEF list, Cut, d, r
    <3>3. /\ Good(scratch, items) /\ index \in 1..Len(scratch) /\ inner \in 1..Len(items)
          /\ cursor \in Nat /\ output \in Seq(Descriptors)
          /\ Place(scratch, items, index, inner, cursor) /\ Drawn(scratch, items, output, cursor)
      BY <1>2, <1>3, Zenon
    <3>4. DrawnBehind(scratch, items, index, inner, cursor, output, from, to)
      BY <3>1, <3>3, CutKeeps, Zenon
    <3> QED
      BY <3>2, <3>4, ZenonT(30) DEF r, DrawnBehind
  <2>2. CASE Len(list) > CONVERTED_DESCRIPTOR_CAPACITY
    <3>1. Fail("OutputCapacity")
      BY <1>1, <1>5, <2>2, Zenon
    <3> QED
      BY <1>1, <2>1, <2>2, <3>1, CapacityKeeps, ZenonT(30)
  <2>3. CASE ~(Len(list) > CONVERTED_DESCRIPTOR_CAPACITY)
    <3> DEFINE n == covered[inner] + (to - from) \div PageSize
    <3>1. /\ output' = list /\ covered' = [covered EXCEPT ![inner] = n]
          /\ cursor' = to /\ inner' = inner + 1
          /\ UNCHANGED <<post_exit, raw, wanted, phase, error, items, scratch, index, write>>
      BY <1>1, <1>5, <2>3, Zenon DEF inputs
    <3>2. n \in Nat /\ Counted(scratch, r, n, to)
      <4>1. Solid(r) /\ covered[inner] \in Nat /\ Counted(scratch, r, covered[inner], cursor)
        BY <1>2, <1>3, GoodIs, Zenon DEF r
      <4>2. from = Maximum(cursor, r.start)
        BY Zenon DEF from
      <4> QED
        BY <1>2, <1>5, <2>1, <4>1, <4>2, <1>CountedMore, Zenon
    <3> HIDE DEF n
    <3>3. /\ covered' \in Seq(Nat) /\ Len(covered') = Len(items) /\ covered'[inner] = n
          /\ \A k \in 1..Len(items) : k # inner => covered'[k] = covered[k]
      BY <1>2, <1>3, <3>1, <3>2, SMTT(30)
    <3>4. ASSUME NEW k \in 1..Len(items)
          PROVE  Counted(scratch, items[k], covered'[k], to)
      <4>1. CASE k = inner
        BY <3>2, <3>3, <4>1, Zenon DEF r
      <4>2. CASE k # inner
        <5>1. RangeEnd(items[k]) <= cursor \/ to <= items[k].start
          BY <2>1, <4>2, Zenon DEF Clear
        <5>2. Solid(items[k]) /\ Counted(scratch, items[k], covered[k], cursor)
          BY <1>2, GoodIs, Zenon
        <5>3. Counted(scratch, items[k], covered[k], to)
          BY <1>2, <2>1, <5>1, <5>2, CountedSkip, Zenon
        <5> QED
          BY <3>3, <4>2, <5>3, Zenon
      <4> QED
        BY <4>1, <4>2, Zenon
    <3>5. Front(scratch', index', cursor') = to
      BY <1>1, <3>1, Zenon DEF Front
    <3>6. Len(output') <= CONVERTED_DESCRIPTOR_CAPACITY
      BY <2>1, <2>3, <3>1, MemoryMapAssumption, SMTT(30)
    <3>7. index' \in 1..(Len(scratch') + 1) /\ inner' \in 1..(Len(items') + 1)
      BY <1>2, <1>3, <3>1, SMTT(30)
    <3>8. Place(scratch', items', index', inner', cursor') /\ Drawn(scratch', items', output', to)
      BY <2>1, <3>1, Zenon
    <3>9. \A k \in 1..Len(items') : Counted(scratch', items'[k], covered'[k], to)
      BY <3>1, <3>4, Zenon
    <3>10. Cutting'
      BY <3>1, <3>3, <3>5, <3>6, <3>7, <3>8, <3>9, Zenon DEF Cutting
    <3>11. /\ output' \in Seq(Descriptors) /\ index' \in Nat /\ inner' \in Nat /\ cursor' \in Nat
      BY <1>2, <1>3, <2>1, <3>1, Zenon
    <3> QED
      BY <1>1, <3>1, <3>3, <3>10, <3>11, CutStepKeeps, Zenon
  <2> QED
    BY <2>2, <2>3, Zenon
<1> QED
  BY <1>4, <1>5, Zenon

\* What the output and the page counts say of the map below the front.
DrawnTo(S, R, O, n, f) ==
  Drawn(S, R, O, f) /\ \A k \in 1..Len(R) : Counted(S, R[k], n[k], f)

\* The front moves to the end of the descriptor, and over the gap behind it.
LEMMA FrontMoves ==
  \A S, R, n : \A O \in Seq(Descriptors), f \in Nat, g \in Nat :
    Good(S, R) /\ (\A k \in 1..Len(R) : n[k] \in Nat) /\ f <= g /\ f % PageSize = 0
      /\ Gap(S, f, g) /\ DrawnTo(S, R, O, n, f) =>
        DrawnTo(S, R, O, n, g)
\* over a gap in the map,
<1>CountedGap.
    ASSUME NEW S, NEW r, Solid(r), NEW n \in Nat, NEW f \in Nat, NEW g \in Nat, f <= g,
           f % PageSize = 0, Gap(S, f, g), Counted(S, r, n, f)
    PROVE  Counted(S, r, n, g)
  <2> USE <1>CountedGap
  <2>1. /\ r.start \in Nat /\ r.start % PageSize = 0 /\ RangeEnd(r) <= MaxAddress
        /\ RangeEnd(r) \in Nat /\ r.start < RangeEnd(r)
    BY Zenon DEF Solid
  <2>2. PICK c \in Nat : c = Clamp(r, f)
    BY <2>1, Zenon DEF Clamp
  <2>3. PICK e \in Nat : e = Clamp(r, g)
    BY <2>1, Zenon DEF Clamp
  <2>4. /\ c <= e /\ r.start <= c
        /\ c < e => f <= c /\ c < g /\ c % PageSize = 0 /\ c < RangeEnd(r)
    BY <2>1, <2>2, <2>3 DEF Clamp
  <2>5. CASE c = e
    BY <2>2, <2>3, <2>5, Zenon DEF Counted
  <2>6. CASE c < e
    <3>1. PICK met \in Nat : met = r.start + n * PageSize
      <4>1. n * PageSize \in Nat
        BY MemoryMapAssumption, Z3
      <4> QED
        BY <2>1, <4>1
    <3>2. met <= c
      BY <2>2, <3>1, Zenon DEF Counted
    <3>3. met <= e /\ met # e
      BY <2>6, <3>2, SMTT(30)
    <3>4. c \in Addresses /\ c \in Bytes
      BY <2>1, <2>4, <2>6, MemoryMapAssumption, SMTT(30) DEF Addresses, Bytes
    <3>5. ~Mapped(S, c)
      BY <2>4, <2>6, <3>4, Zenon DEF Gap
    <3>6. \E a \in Addresses : r.start <= a /\ a < e /\ ~Mapped(S, a)
      BY <2>4, <2>6, <3>4, <3>5, Zenon
    <3> QED
      BY <2>3, <3>1, <3>3, <3>6, Zenon DEF Counted
  <2> QED
    BY <2>4, <2>5, <2>6
<1> TAKE S, R, n
<1> TAKE O \in Seq(Descriptors), f \in Nat, g \in Nat
<1> HAVE Good(S, R) /\ (\A k \in 1..Len(R) : n[k] \in Nat) /\ f <= g /\ f % PageSize = 0
         /\ Gap(S, f, g) /\ DrawnTo(S, R, O, n, f)
<1>1. Drawn(S, R, O, g)
  BY GapKeeps, Zenon DEF DrawnTo
<1>2. ASSUME NEW k \in 1..Len(R) PROVE Counted(S, R[k], n[k], g)
  <2>1. Solid(R[k])
    BY GoodIs, Zenon
  <2>2. Counted(S, R[k], n[k], f) /\ n[k] \in Nat
    BY Zenon DEF DrawnTo
  <2> QED
    BY <2>1, <2>2, <1>CountedGap, Zenon
<1> QED
  BY <1>1, <1>2, Zenon DEF DrawnTo

\* The last step for a descriptor.
LEMMA ApplyRestKeeps ==
    Counting /\ IInv /\ ApplyRest =>
        IInv'
\* What is left of a descriptor behind its reservations is drawn as it is.
<1>RestKeeps.
    ASSUME NEW S, NEW R, Good(S, R), NEW i \in 1..Len(S), NEW j, j > Len(R), j \in Nat,
           NEW c \in Nat, NEW O \in Seq(Descriptors), Place(S, R, i, j, c), Drawn(S, R, O, c)
    PROVE  DrawnOut(S, R, i, c, O)
  <2> USE <1>RestKeeps
  <2> DEFINE list == append_descriptor(O, Piece(S[i].kind, c, RangeEnd(S[i]), S[i].attributes), TRUE)
  <2>1. /\ Solid(S[i]) /\ S[i].kind \in FirmwareKinds /\ S[i].attributes \in Nat
        /\ S[i].start <= c /\ c <= RangeEnd(S[i]) /\ c % PageSize = 0
        /\ c < RangeEnd(S[i]) => Boundary(S, R, c)
        /\ \A m \in 1..Len(R) : Solid(R[m])
        /\ \A m \in 1..Len(R) : m < j =>
             RangeEnd(R[m]) <= c \/ RangeEnd(S[i]) <= R[m].start \/ c = RangeEnd(S[i])
    BY PlaceIs, Zenon
  <2>2. /\ S[i].start \in Nat /\ RangeEnd(S[i]) \in Nat /\ RangeEnd(S[i]) <= MaxAddress
        /\ RangeEnd(S[i]) % PageSize = 0
    BY <2>1, Zenon DEF Solid
  <2>3. \A m \in 1..Len(R) : R[m].start \in Nat /\ RangeEnd(R[m]) \in Nat
    BY <2>1, Zenon DEF Solid
  <2>4. \A m \in 1..Len(R) :
          RangeEnd(R[m]) <= c \/ RangeEnd(S[i]) <= R[m].start \/ c = RangeEnd(S[i])
    <3>1. \A m \in 1..Len(R) : m < j
      BY GoodIs
    <3> QED
      BY <2>1, <3>1, ZenonT(30)
  <2>5. Filled(S, R, <<S[i].kind, S[i].attributes>>, c, RangeEnd(S[i]))
    <3>1. ASSUME NEW a \in Bytes, c <= a, a < RangeEnd(S[i])
          PROVE  Holds(S[i], a) /\ \A m \in 1..Len(R) : ~Holds(R[m], a)
      <4>1. a \in Nat
        BY MemoryMapAssumption, SMTT(30) DEF Bytes
      <4>2. Holds(S[i], a)
        BY <2>1, <2>2, <3>1, <4>1, SMTT(30) DEF Holds
      <4>3. ASSUME NEW m \in 1..Len(R), Holds(R[m], a) PROVE FALSE
        <5>1. R[m].start <= a /\ a < RangeEnd(R[m])
          BY <4>3, ZenonT(30) DEF Holds
        <5>2. R[m].start \in Nat /\ RangeEnd(R[m]) \in Nat
          BY <2>3, Zenon
        <5> QED
          BY <2>2, <2>4, <3>1, <4>1, <5>1, <5>2, SMTT(60)
      <4> QED
        BY <4>2, <4>3, Zenon
    <3> QED
      BY <3>1, Plain, ZenonT(30)
  <2>6. list \in Seq(Descriptors) /\ Drawn(S, R, list, RangeEnd(S[i]))
    <3>1. Gap(S, c, c)
      BY MemoryMapAssumption, SMTT(30) DEF Gap, Bytes
    <3>2. S[i].kind \in BootKinds \cup FirmwareKinds /\ c <= c /\ TRUE \in BOOLEAN
      BY <2>1, SMTT(30)
    <3> QED
      BY <2>1, <2>2, <2>5, <3>1, <3>2, AppendKeeps, Zenon
  <2>7. Rest(O, S[i], c) = list
    BY Zenon DEF Rest
  <2> HIDE DEF list
  <2> QED
    BY <2>1, <2>2, <2>4, <2>6, <2>7, Zenon DEF DrawnOut
<1>RestMoves.
    ASSUME NEW S, NEW R, Good(S, R), NEW i \in 1..Len(S), NEW c \in Nat,
           NEW O \in Seq(Descriptors), NEW n, DrawnOut(S, R, i, c, O),
           \A k \in 1..Len(R) : Counted(S, R[k], n[k], c)
    PROVE  DrawnTo(S, R, Rest(O, S[i], c), n, RangeEnd(S[i]))
  <2> USE <1>RestMoves
  <2>1. /\ Drawn(S, R, Rest(O, S[i], c), RangeEnd(S[i])) /\ RangeEnd(S[i]) \in Nat
        /\ c <= RangeEnd(S[i])
    BY Zenon DEF DrawnOut
  <2>2. ASSUME NEW k \in 1..Len(R) PROVE Counted(S, R[k], n[k], RangeEnd(S[i]))
    <3>1. Solid(R[k]) /\ Counted(S, R[k], n[k], c)
      BY GoodIs, Zenon
    <3>2. CASE c = RangeEnd(S[i])
      BY <3>1, <3>2, Zenon
    <3>3. CASE RangeEnd(R[k]) <= c \/ RangeEnd(S[i]) <= R[k].start
      BY <2>1, <3>1, <3>3, CountedSkip, Zenon
    <3> QED
      BY <3>2, <3>3, Zenon DEF DrawnOut
  <2> QED
    BY <2>1, <2>2, Zenon DEF DrawnTo
<1> HAVE Counting /\ IInv /\ ApplyRest
<1> DEFINE list == Rest(output, scratch[index], cursor)
           e == RangeEnd(scratch[index])
<1>1. /\ phase = "cut" /\ index <= Len(scratch) /\ inner > Len(items)
      /\ IF Len(list) > CONVERTED_DESCRIPTOR_CAPACITY THEN Fail("OutputCapacity")
         ELSE /\ output' = list /\ index' = index + 1 /\ inner' = 1
              /\ cursor' = IF index < Len(scratch) THEN scratch[index + 1].start ELSE cursor
              /\ UNCHANGED <<inputs, phase, error, items, scratch, covered, write>>
  BY Zenon DEF ApplyRest, Rest
<1>2. /\ Good(scratch, items) /\ index \in 1..Len(scratch) /\ inner \in 1..(Len(items) + 1)
      /\ Len(scratch) \in Nat /\ Len(items) \in Nat
      /\ index \in Nat /\ inner \in Nat /\ cursor \in Nat /\ output \in Seq(Descriptors)
      /\ Place(scratch, items, index, inner, cursor)
      /\ Drawn(scratch, items, output, cursor)
      /\ covered \in Seq(Nat) /\ Len(covered) = Len(items)
      /\ \A k \in 1..Len(items) : /\ covered[k] \in Nat
                                  /\ Counted(scratch, items[k], covered[k], cursor)
  BY <1>1, CuttingIs, Zenon
<1>3. DrawnOut(scratch, items, index, cursor, output)
  BY <1>1, <1>2, <1>RestKeeps, Zenon
<1>4. list \in Seq(Descriptors) /\ e \in Nat /\ e % PageSize = 0
  BY <1>3, Zenon DEF DrawnOut
<1>5. DrawnTo(scratch, items, list, covered, e)
  BY <1>2, <1>3, <1>RestMoves, Zenon
<1> HIDE DEF list
<1>6. CASE Len(list) > CONVERTED_DESCRIPTOR_CAPACITY
  <2>1. Fail("OutputCapacity")
    BY <1>1, <1>6, Zenon
  <2>2. Drawn(scratch, items, list, e)
    BY <1>5, ZenonT(30) DEF DrawnTo
  <2> QED
    BY <1>1, <1>4, <1>6, <2>1, <2>2, CapacityKeeps, Zenon
<1>7. CASE ~(Len(list) > CONVERTED_DESCRIPTOR_CAPACITY)
  <2>1. /\ output' = list /\ index' = index + 1 /\ inner' = 1
        /\ cursor' = IF index < Len(scratch) THEN scratch[index + 1].start ELSE cursor
        /\ UNCHANGED <<post_exit, raw, wanted, phase, error, items, scratch, covered, write>>
    BY <1>1, <1>7, Zenon DEF inputs
  <2>2. Len(output') <= CONVERTED_DESCRIPTOR_CAPACITY
    BY <1>4, <1>7, <2>1, MemoryMapAssumption, SMTT(30)
  <2>3. index' \in 1..(Len(scratch') + 1) /\ inner' \in 1..(Len(items') + 1)
    BY <1>2, <2>1, SMTT(60)
  <2> DEFINE f == Front(scratch', index', cursor')
  <2>4. /\ cursor' \in Nat
        /\ index' <= Len(scratch') => Place(scratch', items', index', inner', cursor')
        /\ DrawnTo(scratch, items, list, covered, f)
    <3>1. CASE index < Len(scratch)
      <4>1. index + 1 \in 1..Len(scratch) /\ index \in 1..(Len(scratch) - 1) /\ index' <= Len(scratch')
        BY <1>2, <2>1, <3>1, SMTT(30)
      <4>2. cursor' = scratch[index + 1].start /\ f = scratch[index + 1].start
        BY <2>1, <3>1, <4>1, Zenon DEF Front
      <4>3. /\ scratch[index + 1].start \in Nat
            /\ Place(scratch, items, index + 1, 1, scratch[index + 1].start)
        BY <1>2, <4>1, PlaceStarts, Zenon
      <4>4. Gap(scratch, e, scratch[index + 1].start)
        BY <1>2, <4>1, Gaps, Zenon
      <4>5. e <= scratch[index + 1].start
        <5>1. index < index + 1
          BY <1>2
        <5> QED
          BY <1>2, <4>1, <5>1, GoodIs, Zenon
      <4>6. DrawnTo(scratch, items, list, covered, scratch[index + 1].start)
        BY <1>2, <1>4, <1>5, <4>3, <4>4, <4>5, FrontMoves, Zenon
      <4> QED
        BY <2>1, <4>2, <4>3, <4>6, ZenonT(30)
    <3>2. CASE ~(index < Len(scratch))
      <4>1. index = Len(scratch) /\ ~(index' <= Len(scratch'))
        BY <1>2, <2>1, <3>2, SMTT(60)
      <4>2. f = e
        BY <2>1, <4>1, Zenon DEF Front
      <4> QED
        BY <1>2, <1>5, <2>1, <3>2, <4>1, <4>2, ZenonT(30)
    <3> QED
      BY <3>1, <3>2, Zenon
  <2>5. Cutting'
    BY <1>2, <2>1, <2>2, <2>3, <2>4, ZenonT(30) DEF Cutting, DrawnTo
  <2>6. output' \in Seq(Descriptors) /\ covered' \in Seq(Nat) /\ index' \in Nat /\ inner' \in Nat
    BY <1>2, <1>4, <2>1, SMTT(30)
  <2> QED
    BY <1>1, <2>1, <2>4, <2>5, <2>6, CutStepKeeps, ZenonT(30)
<1> QED
  BY <1>6, <1>7

-----------------------------------------------------------------------------
(* The end of the conversion                                               *)

\* Behind the last descriptor the front moves to the end of the address space.
LEMMA CuttingEnds ==
  ASSUME IInv, phase = "cut", index > Len(scratch)
  PROVE  /\ DrawnTo(scratch, items, output, covered, MaxAddress + 1)
         /\ Len(output) <= CONVERTED_DESCRIPTOR_CAPACITY
         /\ \A k \in 1..Len(items) : covered[k] \in Nat
<1>1. TypeOK /\ Good(scratch, items)
  BY CuttingLists, Zenon
<1>2. Cutting
  BY Zenon DEF IInv
<1>3. /\ Len(scratch) \in Nat \ {0} /\ Len(items) \in Nat /\ index \in Nat
      /\ covered \in Seq(Nat) /\ output \in Seq(Descriptors)
  BY <1>1, GoodIs, Zenon DEF TypeOK
<1> DEFINE e == RangeEnd(scratch[Len(scratch)])
<1>4. Front(scratch, index, cursor) = e
  BY <1>3 DEF Front
<1>5. e \in Nat /\ e <= MaxAddress + 1 /\ e % PageSize = 0 /\ MaxAddress + 1 \in Nat
  <2>1. Len(scratch) \in 1..Len(scratch)
    BY <1>3
  <2>2. Solid(scratch[Len(scratch)])
    BY <1>1, <2>1, GoodIs, Zenon
  <2>3. e \in Nat /\ e <= MaxAddress /\ e % PageSize = 0
    BY <2>2, Zenon DEF Solid
  <2> HIDE DEF e
  <2> QED
    BY <2>3, MemoryMapAssumption
<1>6. Gap(scratch, e, MaxAddress + 1)
  BY <1>1, Gaps, Zenon
<1>7. DrawnTo(scratch, items, output, covered, e) /\ Len(covered) = Len(items)
      /\ Len(output) <= CONVERTED_DESCRIPTOR_CAPACITY
  BY <1>2, <1>4, Zenon DEF Cutting, DrawnTo
<1>8. \A k \in 1..Len(items) : covered[k] \in Nat
  BY <1>3, <1>7, SMTT(30)
<1> HIDE DEF e
<1> QED
  BY <1>1, <1>3, <1>5, <1>6, <1>7, <1>8, FrontMoves, Zenon

\* The last step of a conversion.
LEMMA ApplyEndKeeps ==
    IInv /\ ApplyEnd =>
        IInv'
\* The page count of a reservation, once the whole map is cut, says whether all
\* of the reservation is mapped.
<1>CountedAll.
    ASSUME NEW S, NEW r, Solid(r), r.pages \in Nat, NEW n \in Nat,
           Counted(S, r, n, MaxAddress + 1)
    PROVE  /\ n # r.pages => \E a \in Addresses : Holds(r, a) /\ ~Mapped(S, a)
           /\ n = r.pages => \A a \in Bytes : Holds(r, a) => Mapped(S, a)
  <2> USE <1>CountedAll
  <2>1. /\ r.start \in Nat /\ RangeEnd(r) \in Nat /\ RangeEnd(r) <= MaxAddress
        /\ r.start < RangeEnd(r)
    BY Zenon DEF Solid
  <2>2. Clamp(r, MaxAddress + 1) = RangeEnd(r)
    BY <2>1, MemoryMapAssumption, SMTT(30) DEF Clamp
  <2>3. PICK p \in Nat : p = r.pages
    BY Zenon
  <2>4. PICK x \in Nat, y \in Nat : x = n * PageSize /\ y = p * PageSize
    BY MemoryMapAssumption, Z3
  <2>5. n = p <=> x = y
    <3>1. n # p => n * PageSize # p * PageSize
      BY MemoryMapAssumption, Z3
    <3> QED
      BY <2>4, <3>1, Zenon
  <2>6. RangeEnd(r) = r.start + y
    BY <2>3, <2>4, Zenon DEF RangeEnd
  <2>7. PICK met \in Nat : met = r.start + n * PageSize /\ met = r.start + x
    BY <2>1, <2>4
  <2>8. /\ met <= RangeEnd(r)
        /\ met = RangeEnd(r) =>
             \A a \in Bytes : r.start <= a /\ a < RangeEnd(r) => Mapped(S, a)
        /\ met < RangeEnd(r) =>
             \E a \in Addresses : r.start <= a /\ a < RangeEnd(r) /\ ~Mapped(S, a)
    BY <2>2, <2>7, ZenonT(30) DEF Counted
  <2>9. /\ n # r.pages => met < RangeEnd(r)
        /\ n = r.pages => met = RangeEnd(r)
    BY <2>1, <2>3, <2>5, <2>6, <2>7, <2>8, SMTT(30)
  <2> QED
    BY <2>8, <2>9, Zenon DEF Holds
\* The normalised map holds the bytes of the raw map.
<1>MappedIs.
    ASSUME TypeOK, Normalized, NEW a \in Bytes
    PROVE  Mapped(scratch, a) <=> InMap(a)
  <2> USE <1>MappedIs
  <2>1. /\ Len(Map) = Len(raw)
        /\ \A k \in 1..Len(raw) : Holds(Map[k], a) <=> Holds(raw[k], a)
    <3>1. raw \in Seq(RawDescriptors)
      BY Zenon DEF TypeOK
    <3> QED
      BY <3>1, MapIs, Zenon
  <2>2. Describes(Map, scratch, 1..Len(scratch))
    BY Zenon DEF Normalized
  <2>3. ASSUME Mapped(scratch, a) PROVE InMap(a)
    <3>1. PICK q \in 1..Len(scratch) : Holds(scratch[q], a)
      BY <2>3, Zenon DEF Mapped
    <3>2. PICK k \in 1..Len(Map) : Holds(Map[k], a)
      BY <2>2, <3>1, Zenon DEF Describes
    <3> QED
      BY <2>1, <3>2, Zenon DEF InMap
  <2>4. ASSUME InMap(a) PROVE Mapped(scratch, a)
    <3>1. PICK k \in 1..Len(Map) : Holds(Map[k], a)
      BY <2>1, <2>4, Zenon DEF InMap
    <3>2. PICK q \in 1..Len(scratch) : Holds(scratch[q], a)
      BY <2>2, <3>1, Zenon DEF Describes
    <3> QED
      BY <3>2, Zenon DEF Mapped
  <2> QED
    BY <2>3, <2>4, Zenon
\* The finished reservations are the reservations that were asked for.
<1>ReservedIs.
    ASSUME TypeOK, ItemsDone
    PROVE  /\ SameElements(items, wanted) /\ Disjoint(wanted) /\ Len(items) = Len(wanted)
           /\ \A a : IsReserved(a) <=> \E m \in 1..Len(items) : Holds(items[m], a)
  <2> USE <1>ReservedIs
  <2>1. SameElements(items, wanted) /\ Len(items) = Len(wanted)
    BY PermutedElements, Zenon DEF ItemsDone, Permutes
  <2>2. items \in Seq(Reservations) /\ Apart(items) /\ Permutes(items, wanted)
    BY Zenon DEF TypeOK, ItemsDone
  <2>3. Disjoint(items)
    BY <2>2, TypesOfLists, ApartDisjoint, Zenon
  <2>4. Disjoint(wanted)
    BY <2>2, <2>3, PermutedDisjoint, Zenon
  <2>5. ASSUME NEW a, IsReserved(a) PROVE \E m \in 1..Len(items) : Holds(items[m], a)
    <3>1. PICK k \in 1..Len(wanted) : Holds(wanted[k], a)
      BY <2>5, Zenon DEF IsReserved
    <3>2. PICK m \in 1..Len(items) : items[m] = wanted[k]
      BY <2>1, Zenon DEF SameElements
    <3> QED
      BY <3>1, <3>2, Zenon
  <2>6. ASSUME NEW a, NEW m \in 1..Len(items), Holds(items[m], a) PROVE IsReserved(a)
    <3>1. PICK k \in 1..Len(wanted) : items[m] = wanted[k]
      BY <2>1, Zenon DEF SameElements
    <3> QED
      BY <2>6, <3>1, Zenon DEF IsReserved
  <2> QED
    BY <2>1, <2>4, <2>5, <2>6, Zenon
\* The reference is what the one reservation, or else the one raw descriptor,
\* that holds the byte says.
<1>ReferenceIs.
    ASSUME raw \in Seq(RawDescriptors), Disjoint(wanted), Disjoint(Map), NEW a \in Bytes
    PROVE  /\ \A p \in 1..Len(wanted) : Holds(wanted[p], a) => Reference(a) = <<wanted[p].kind, 0>>
           /\ ~IsReserved(a) =>
                \A k \in 1..Len(Map) : Holds(Map[k], a) => Reference(a) = Label(Map[k])
  <2> USE <1>ReferenceIs
  <2>1. ASSUME NEW p \in 1..Len(wanted), Holds(wanted[p], a)
        PROVE  Reference(a) = <<wanted[p].kind, 0>>
    <3> DEFINE k == CHOOSE k \in 1..Len(wanted) : Holds(wanted[k], a)
    <3>1. k \in 1..Len(wanted) /\ Holds(wanted[k], a)
      BY <2>1, Zenon
    <3>2. IsReserved(a)
      BY <2>1, Zenon DEF IsReserved
    <3>3. Reference(a) = <<wanted[k].kind, 0>>
      BY <3>2, Zenon DEF Reference
    <3> HIDE DEF k
    <3>4. k = p
      BY <2>1, <3>1, Zenon DEF Disjoint
    <3> QED
      BY <3>3, <3>4, Zenon
  <2>2. ASSUME ~IsReserved(a), NEW p \in 1..Len(Map), Holds(Map[p], a)
        PROVE  Reference(a) = Label(Map[p])
    <3>0. /\ Len(Map) = Len(raw)
          /\ \A k \in 1..Len(raw) : /\ Holds(Map[k], a) <=> Holds(raw[k], a)
                                    /\ Map[k] = Converted(raw[k])
                                    /\ Map[k].attributes = raw[k].attributes
      BY MapIs, Zenon
    <3> DEFINE k == CHOOSE k \in 1..Len(raw) : Holds(raw[k], a)
    <3>1. k \in 1..Len(raw) /\ Holds(raw[k], a)
      BY <2>2, <3>0, Zenon
    <3>2. Reference(a) = <<Converted(raw[k]).kind, raw[k].attributes>>
      BY <2>2, Zenon DEF Reference
    <3> HIDE DEF k
    <3>3. k \in 1..Len(Map) /\ Holds(Map[k], a)
      BY <3>0, <3>1, Zenon
    <3>4. k = p
      BY <2>2, <3>3, Zenon DEF Disjoint
    <3>5. Reference(a) = <<Map[k].kind, Map[k].attributes>>
      BY <3>0, <3>1, <3>2, Zenon
    <3> QED
      BY <3>4, <3>5, Zenon DEF Label
  <2> QED
    BY <2>1, <2>2, Zenon
\* The label that a byte has in the normalised map, cut along the reservations,
\* is the reference.
<1>SaysReference.
    ASSUME TypeOK, Normalized, ItemsDone, NEW a \in Bytes, NEW label,
           Says(scratch, items, label, a)
    PROVE  label = Reference(a)
  <2> USE <1>SaysReference
  <2>1. SameElements(items, wanted) /\ Disjoint(wanted)
    BY <1>ReservedIs, Zenon
  <2>2. IsReserved(a) <=> \E m \in 1..Len(items) : Holds(items[m], a)
    BY <1>ReservedIs, Zenon
  <2>3. raw \in Seq(RawDescriptors) /\ Disjoint(Map) /\ Describes(Map, scratch, 1..Len(scratch))
    BY Zenon DEF TypeOK, Normalized
  <2>4. /\ \A p \in 1..Len(wanted) : Holds(wanted[p], a) => Reference(a) = <<wanted[p].kind, 0>>
        /\ ~IsReserved(a) =>
             \A k \in 1..Len(Map) : Holds(Map[k], a) => Reference(a) = Label(Map[k])
    BY <2>1, <2>3, <1>ReferenceIs, Zenon
  <2>5. ASSUME NEW m \in 1..Len(items), Holds(items[m], a), label = <<items[m].kind, 0>>
        PROVE  label = Reference(a)
    <3>1. PICK p \in 1..Len(wanted) : items[m] = wanted[p]
      BY <2>1, Zenon DEF SameElements
    <3>2. Reference(a) = <<wanted[p].kind, 0>>
      BY <2>4, <2>5, <3>1, Zenon
    <3> QED
      BY <2>5, <3>1, <3>2, Zenon
  <2>6. ASSUME \A m \in 1..Len(items) : ~Holds(items[m], a),
               NEW q \in 1..Len(scratch), Holds(scratch[q], a), label = Label(scratch[q])
        PROVE  label = Reference(a)
    <3>1. PICK k \in 1..Len(Map) : Holds(Map[k], a) /\ Label(scratch[q]) = Label(Map[k])
      BY <2>3, <2>6, Zenon DEF Describes
    <3>2. ~IsReserved(a)
      BY <2>2, <2>6, Zenon
    <3>3. Reference(a) = Label(Map[k])
      BY <2>4, <3>1, <3>2, Zenon
    <3> QED
      BY <2>6, <3>1, <3>3, Zenon
  <2> QED
    BY <2>5, <2>6, Zenon DEF Says
\* What the finished output says of an address.
<1>OutputIsExact.
    ASSUME TypeOK, Normalized, ItemsDone, Drawn(scratch, items, output, MaxAddress + 1),
           NEW a \in Addresses
    PROVE  LET hits == {k \in 1..Len(output) : Holds(output[k], a)} IN
           IF InMap(a)
           THEN \E k \in hits : /\ hits = {k}
                                /\ <<output[k].kind, output[k].attributes>> = Reference(a)
           ELSE hits = {}
  <2> USE <1>OutputIsExact
  <2> DEFINE hits == {k \in 1..Len(output) : Holds(output[k], a)}
  <2>1. a \in Bytes /\ a < MaxAddress + 1
    BY MemoryMapAssumption DEF Addresses, Bytes
  <2>2. Mapped(scratch, a) <=> InMap(a)
    BY <2>1, <1>MappedIs, Zenon
  <2>3. output \in Seq(Descriptors) /\ Apart(output)
    BY Zenon DEF TypeOK, Drawn
  <2>4. Disjoint(output)
    BY <2>3, TypesOfLists, ApartDisjoint, Zenon
  <2>5. ASSUME NEW k \in 1..Len(output), Holds(output[k], a)
        PROVE  InMap(a) /\ <<output[k].kind, output[k].attributes>> = Reference(a)
    <3>1. Mapped(scratch, a) /\ Says(scratch, items, Label(output[k]), a)
      BY <2>1, <2>5, Zenon DEF Drawn
    <3>2. Label(output[k]) = Reference(a)
      BY <2>1, <3>1, <1>SaysReference, Zenon
    <3> QED
      BY <2>2, <3>1, <3>2, Zenon DEF Label
  <2>6. CASE InMap(a)
    <3>1. PICK k \in 1..Len(output) : Holds(output[k], a)
      BY <2>1, <2>2, <2>6, Zenon DEF Drawn
    <3>2. \A m \in 1..Len(output) : Holds(output[m], a) => m = k
      BY <2>1, <2>4, <3>1, Zenon DEF Disjoint
    <3>3. k \in hits /\ hits = {k}
      BY <3>1, <3>2, Zenon
    <3>4. <<output[k].kind, output[k].attributes>> = Reference(a)
      BY <2>5, <3>1, Zenon
    <3> QED
      BY <2>6, <3>3, <3>4, Zenon
  <2>7. CASE ~InMap(a)
    BY <2>5, <2>7, Zenon
  <2> QED
    BY <2>6, <2>7, Zenon
\* It is in address order, and nothing in it could be joined.
<1>OutputIsMinimal.
    ASSUME NEW S, NEW R, NEW O \in Seq(Descriptors), NEW f, Drawn(S, R, O, f),
           NEW k \in 1..(Len(O) - 1)
    PROVE  /\ ~(RangeEnd(O[k]) > O[k + 1].start)
           /\ O[k].start < O[k + 1].start
           /\ O[k].kind \notin BootKinds =>
                \/ RangeEnd(O[k]) # O[k + 1].start
                \/ O[k].kind # O[k + 1].kind
                \/ O[k].attributes # O[k + 1].attributes
  <2> USE <1>OutputIsMinimal
  <2>1. k \in 1..Len(O) /\ k + 1 \in 1..Len(O) /\ k < k + 1
    OBVIOUS
  <2>2. O[k] \in Descriptors /\ O[k + 1] \in Descriptors
    BY <2>1
  <2>3. Well(O[k]) /\ Well(O[k + 1]) /\ RangeEnd(O[k]) <= O[k + 1].start
    BY <2>1, Zenon DEF Drawn, Apart, ApartOn
  <2>4. /\ O[k].start \in Nat /\ RangeEnd(O[k]) \in Nat /\ O[k].start < RangeEnd(O[k])
        /\ O[k + 1].start \in Nat
    BY <2>2, <2>3, SolidDescriptor, ZenonT(30) DEF Solid
  <2>5. O[k].start < O[k + 1].start /\ ~(RangeEnd(O[k]) > O[k + 1].start)
    BY <2>3, <2>4
  <2>6. O[k].kind \notin BootKinds => ~Mergeable(O[k], O[k + 1])
    BY Zenon DEF Drawn
  <2> QED
    BY <2>5, <2>6, Zenon DEF Mergeable
<1> HAVE IInv /\ ApplyEnd
<1>1. /\ phase = "cut" /\ index > Len(scratch)
      /\ IF \E k \in 1..Len(items) : Outside(k) THEN Fail("ReservationOutsideMap")
         ELSE IF Overlapping(output) THEN Fail("DescriptorOverlap")
         ELSE /\ phase' = "done"
              /\ UNCHANGED <<inputs, error, items, scratch, output, covered, loops>>
  BY Zenon DEF ApplyEnd
<1>2. TypeOK /\ Normalized /\ ItemsDone /\ Good(scratch, items) /\ error = "none"
  <2>1. error = "none"
    BY <1>1, Zenon DEF IInv
  <2> QED
    BY <1>1, <2>1, CuttingLists, Zenon
<1>3. /\ DrawnTo(scratch, items, output, covered, MaxAddress + 1)
      /\ Len(output) <= CONVERTED_DESCRIPTOR_CAPACITY
      /\ \A k \in 1..Len(items) : covered[k] \in Nat
  BY <1>1, CuttingEnds, Zenon
<1>4. Drawn(scratch, items, output, MaxAddress + 1) /\ output \in Seq(Descriptors)
  BY <1>2, <1>3, Zenon DEF DrawnTo, TypeOK
<1>5. \A a \in Addresses : a \in Bytes
  BY Zenon DEF Addresses, Bytes
<1>6. ASSUME NEW k \in 1..Len(items)
      PROVE  /\ covered[k] # items[k].pages =>
                  \E a \in Addresses : Holds(items[k], a) /\ ~Mapped(scratch, a)
             /\ covered[k] = items[k].pages =>
                  \A a \in Bytes : Holds(items[k], a) => Mapped(scratch, a)
  <2>1. Solid(items[k]) /\ covered[k] \in Nat
    BY <1>2, <1>3, GoodIs, Zenon
  <2>2. items[k].pages \in Nat
    <3>1. items \in Seq(Reservations)
      BY <1>2, Zenon DEF TypeOK
    <3> QED
      BY <3>1, TypesOfLists, ListEnds, Zenon
  <2>3. Counted(scratch, items[k], covered[k], MaxAddress + 1)
    BY <1>3, Zenon DEF DrawnTo
  <2> QED
    BY <2>1, <2>2, <2>3, <1>CountedAll, Zenon
<1>7. CASE \E k \in 1..Len(items) : Outside(k)
  <2>1. PICK k \in 1..Len(items) : covered[k] # items[k].pages
    BY <1>7, Zenon DEF Outside
  <2>2. PICK a \in Addresses : Holds(items[k], a) /\ ~Mapped(scratch, a)
    BY <1>6, <2>1, Zenon
  <2>3. IsReserved(a) /\ ~InMap(a)
    BY <1>2, <1>5, <2>2, <1>ReservedIs, <1>MappedIs, Zenon
  <2>4. Fail("ReservationOutsideMap")
    BY <1>1, <1>7, Zenon
  <2>5. error' = "ReservationOutsideMap" /\ raw' = raw /\ wanted' = wanted
    BY <2>4, Zenon DEF Fail, inputs
  <2>6. (\E b \in Addresses : IsReserved(b) /\ ~InMap(b))'
    BY <2>3, <2>5, Zenon DEF IsReserved, InMap
  <2>7. RefusedForAReason'
    BY <2>5, <2>6, Zenon DEF RefusedForAReason
  <2> QED
    BY <2>4, <2>7, FailKeeps, Zenon
<1>8. ~Overlapping(output)
  BY <1>4, <1>OutputIsMinimal, ZenonT(30) DEF Overlapping
<1>9. CASE ~\E k \in 1..Len(items) : Outside(k)
  <2>1. /\ phase' = "done"
        /\ UNCHANGED <<post_exit, raw, wanted, error, items, scratch, output, covered,
                       index, inner, cursor, write>>
    BY <1>1, <1>8, <1>9, Zenon DEF inputs, loops
  <2>2. Map' = Map
    BY <2>1, Zenon DEF Map, Converted
  <2>3. TypeOK'
    BY <1>2, <2>1, Zenon DEF TypeOK, Phases
  <2>4. ItemsDone' /\ Normalized'
    BY <1>2, <2>1, <2>2, ZenonT(30) DEF ItemsDone, Normalized
  <2>5. ASSUME NEW a \in Addresses
        PROVE  InMap(a)' = InMap(a) /\ Reference(a)' = Reference(a)
    <3>1. InMap(a)' = InMap(a) /\ IsReserved(a)' = IsReserved(a)
      BY <2>1, Zenon DEF InMap, IsReserved
    <3>2. \A d : Converted(d)' = Converted(d)
      BY <2>1, Zenon DEF Converted
    <3> QED
      BY <2>1, <3>1, <3>2, SMTT(60) DEF Reference
  <2>6. PagesKeepTheirKind'
    <3>1. \A a \in Addresses :
            LET hits == {k \in 1..Len(output) : Holds(output[k], a)} IN
            IF InMap(a)
            THEN \E k \in hits : /\ hits = {k}
                                 /\ <<output[k].kind, output[k].attributes>> = Reference(a)
            ELSE hits = {}
      BY <1>2, <1>4, <1>OutputIsExact, Zenon
    <3> QED
      BY <2>1, <2>5, <3>1, Zenon DEF PagesKeepTheirKind
  <2>7. MapIsMinimal'
    <3>1. \A k \in 1..(Len(output) - 1) :
            /\ output[k].start < output[k + 1].start
            /\ output[k].kind \notin BootKinds =>
                 \/ RangeEnd(output[k]) # output[k + 1].start
                 \/ output[k].kind # output[k + 1].kind
                 \/ output[k].attributes # output[k + 1].attributes
      BY <1>4, <1>OutputIsMinimal, Zenon
    <3> QED
      BY <2>1, <3>1, Zenon DEF MapIsMinimal
  <2>8. ReservationsAreCovered'
    <3>1. SameElements(items, wanted) /\ Disjoint(wanted) /\ Len(items) = Len(wanted)
      BY <1>2, <1>ReservedIs, Zenon
    <3>2. Len(wanted) <= RESERVATION_CAPACITY
      BY <1>2, <3>1, Zenon DEF ItemsDone
    <3>3. ~SharedPage(wanted)
      BY <1>5, <3>1, Zenon DEF SharedPage, Disjoint
    <3>4. ASSUME NEW k \in 1..Len(wanted), NEW a \in Addresses,
                 wanted[k].source # "Framebuffer", Holds(wanted[k], a)
          PROVE  InMap(a)
      <4>1. PICK m \in 1..Len(items) : items[m] = wanted[k]
        BY <3>1, Zenon DEF SameElements
      <4>2. covered[m] = items[m].pages
        BY <1>9, <3>4, <4>1, Zenon DEF Outside
      <4>3. Mapped(scratch, a)
        BY <1>5, <1>6, <3>4, <4>1, <4>2, Zenon
      <4> QED
        BY <1>2, <1>5, <4>3, <1>MappedIs, Zenon
    <3>5. SharedPage(wanted)' = SharedPage(wanted)
      BY <2>1, Zenon DEF SharedPage
    <3> QED
      BY <1>3, <2>1, <2>5, <3>2, <3>3, <3>4, <3>5, Zenon DEF ReservationsAreCovered
  <2>9. RefusedForAReason'
    BY <1>2, <2>1, Zenon DEF RefusedForAReason
  <2> QED
    BY <1>2, <2>1, <2>3, <2>4, <2>6, <2>7, <2>8, <2>9, Zenon DEF IInv, ConvertedMapIsExact
<1> QED
  BY <1>7, <1>9, Zenon

-----------------------------------------------------------------------------
(* Every step                                                              *)

LEMMA NextInv ==
  ASSUME Counting, IInv, [Next]_vars
  PROVE  IInv'
<1>1. CASE push
  BY <1>1, PushKeeps, Zenon
<1>2. CASE FinishBegin
  BY <1>2, FinishBeginKeeps, Zenon
<1>3. CASE FinishSort
  BY <1>3, FinishSortKeeps, Zenon
<1>4. CASE finish
  BY <1>4, FinishKeeps
<1>5. CASE Convert
  BY <1>5, ConvertKeeps, Zenon
<1>6. CASE insertion_sort
  BY <1>6, InsertionSortKeeps
<1>7. CASE validate_non_overlapping
  BY <1>7, ValidateKeeps, Zenon
<1>8. CASE merge_base_descriptors
  BY <1>8, MergeKeeps, Zenon
<1>9. CASE NormalizeEnd
  BY <1>9, NormalizeEndKeeps
<1>10. CASE ApplyBegin
  BY <1>10, ApplyBeginKeeps
<1>11. CASE ApplyReservation
  BY <1>11, ApplyReservationKeeps
<1>12. CASE ApplyRest
  BY <1>12, ApplyRestKeeps
<1>13. CASE ApplyEnd
  BY <1>13, ApplyEndKeeps
<1>14. CASE UNCHANGED vars
  BY <1>14, StutterKeeps, Zenon
<1> QED
  BY <1>1, <1>2, <1>3, <1>4, <1>5, <1>6, <1>7, <1>8, <1>9, <1>10, <1>11, <1>12, <1>13, <1>14,
     Zenon DEF Next, Reserve, Normalize, Apply, Ended

=============================================================================
