--------------------------- MODULE MemoryMapProofs ----------------------------
(***************************************************************************)
(* For every raw map, every list of reservations, every page size and every *)
(* capacity: a finished conversion of the memory map says exactly what the  *)
(* firmware's map and the reservations say, its reservations are covered,   *)
(* and a conversion is refused only for a fault of its input.  These follow *)
(* from the invariant of module MemoryMapSteps.                             *)
(*                                                                         *)
(* Then, for every layout of the loader's allocations, KernelCanTrustTheMap *)
(* (module BootMap).  What a finished conversion says of a page is known.   *)
(* That the three map buffers stay three descriptors needs more: every      *)
(* descriptor of a boot kind lies inside one reservation (DInv), because    *)
(* apply_reservations never joins the piece of a reservation with its       *)
(* neighbour.  BInv adds the stages of the loader and of the kernel.        *)
(***************************************************************************)
EXTENDS BootMap, MemoryMapSteps, FiniteSetTheorems, WellFoundedInduction

\* A non-empty set of numbers has a least one.
LEMMA LeastNumber ==
  ASSUME NEW N \in SUBSET Nat, N # {}
  PROVE  \E i \in N : \A j \in N : i <= j
<1>1. PICK i \in N : \A j \in N : ~(<<j, i>> \in OpToRel(<, Nat))
  BY WFMin, NatLessThanWellFounded, Zenon
<1>2. \A j \in N : ~(j < i)
  BY <1>1, Zenon DEF OpToRel
<1> QED
  BY <1>2

\* What MemoryMapSteps takes for granted about sets of numbers.
LEMMA CountingHolds == Counting
<1>1. ASSUME NEW l \in Nat, NEW n \in Nat, NEW F \in [1..l -> 1..n], l > n
      PROVE  \E x \in 1..l, y \in 1..l : x # y /\ F[x] = F[y]
  <2>1. /\ IsFiniteSet(1..l) /\ IsFiniteSet(1..n)
        /\ Cardinality(1..l) = l /\ Cardinality(1..n) = n
    BY FS_Interval
  <2>2. Cardinality(1..n) < Cardinality(1..l)
    BY <1>1, <2>1, Zenon
  <2> QED
    BY <2>1, <2>2, FS_PigeonHole, Zenon
<1> QED
  BY <1>1, LeastNumber, Zenon DEF Counting

\* Every step of the conversion keeps the invariant.
LEMMA StepInv == IInv /\ [Next]_vars => IInv'
<1> QED
  BY CountingHolds, NextInv, Zenon

\* Every reachable state of a conversion satisfies the inductive invariant.
THEOREM MemoryMapInvariant == Spec => []IInv
<1> QED
  BY InitInv, StepInv, PTL DEF Spec

\* A finished conversion says of every page exactly what the firmware's map and
\* the reservations say, in address order and with nothing left to join
\* (normalize_mapped_memory_map, apply_reservations).
THEOREM ConversionIsExact == Spec => []ConvertedMapIsExact
<1>1. IInv => ConvertedMapIsExact
  BY Zenon DEF IInv
<1> QED
  BY <1>1, MemoryMapInvariant, PTL

\* A finished conversion has found every page of every reservation but the
\* framebuffer in the firmware's map, and no page is reserved twice: the page
\* counts of apply_reservations and the sorted test of ReservationList::finish
\* miss no hole and no overlap.
THEOREM ConversionCoversReservations == Spec => []ReservationsAreCovered
<1>1. IInv => ReservationsAreCovered
  BY Zenon DEF IInv
<1> QED
  BY <1>1, MemoryMapInvariant, PTL

\* A conversion is refused only for a fault of its input; in particular the
\* entry and exit checks of apply_reservations never fail on a normalised map,
\* and the fixed array is too small only if the raw descriptors and two more per
\* reservation would not fit it.
THEOREM ConversionRefusesForAReason == Spec => []RefusedForAReason
<1>1. IInv => RefusedForAReason
  BY Zenon DEF IInv
<1> QED
  BY <1>1, MemoryMapInvariant, PTL

-----------------------------------------------------------------------------
(* The loader's reservations                                               *)

\* Every descriptor of list O that has a boot kind lies inside a reservation.
Within(d, r) == r.start <= d.start /\ RangeEnd(d) <= RangeEnd(r)

Inside(O, R) ==
  \A k \in 1..Len(O) : O[k].kind \in BootKinds =>
    \E m \in 1..Len(R) : Within(O[k], R[m])

DInv ==
  /\ phase \in {"cut", "done"} => Inside(output, items)
  /\ phase = "done" => AllWell(output)

-----------------------------------------------------------------------------
(* One descriptor of a boot kind, one reservation                          *)

\* A descriptor of a kind from one address up to another.
Spans(p, kind, from, to) ==
  p \in Descriptors /\ p.kind = kind /\ p.start = from /\ RangeEnd(p) = to

\* A step of the conversion.
LEMMA NextInside ==
    IInv /\ DInv /\ [Next]_vars =>
        DInv'
<1>KindsApart. \A kind \in FirmwareKinds : kind \notin BootKinds
  BY Zenon DEF FirmwareKinds, BootKinds
<1>PieceOf.
    ASSUME NEW kind \in BootKinds \cup FirmwareKinds, NEW attributes \in Nat,
           NEW from \in Nat, NEW to \in Nat, from % PageSize = 0, to % PageSize = 0,
           from <= to, to <= MaxAddress
    PROVE  Spans(Piece(kind, from, to, attributes), kind, from, to)
  <2> USE <1>PieceOf
  <2> DEFINE p == Piece(kind, from, to, attributes)
  <2>1. /\ p \in Descriptors /\ p.start = from /\ RangeEnd(p) = to
        /\ p.pages = 0 <=> from = to
        /\ Label(p) = <<kind, attributes>> /\ p.kind = kind
        /\ from < to => Well(p)
    BY PieceIs, Zenon
  <2> HIDE DEF p
  <2>2. Spans(p, kind, from, to)
    BY <2>1, Zenon DEF Spans
  <2> QED
    BY <2>2, Zenon DEF p
<1>AppendTyped.
    ASSUME NEW O \in Seq(Descriptors), NEW p \in Descriptors, NEW allow_merge \in BOOLEAN
    PROVE  append_descriptor(O, p, allow_merge) \in Seq(Descriptors)
  <2> USE <1>AppendTyped
  <2> DEFINE d == O[Len(O)]
             m == MergeInto(d, p)
  <2>1. CASE p.pages # 0 /\ allow_merge /\ O # <<>> /\ Mergeable(d, p)
    <3>1. append_descriptor(O, p, allow_merge) = [O EXCEPT ![Len(O)] = m]
      BY <2>1, Zenon DEF append_descriptor
    <3>2. d \in Descriptors /\ Len(O) \in 1..Len(O)
      BY <2>1
    <3>3. m \in Descriptors
      <4> HIDE DEF d
      <4>1. d.pages + p.pages \in Nat
        BY <3>2 DEF Descriptors
      <4> QED
        BY <3>2, <4>1, Zenon DEF MergeInto, Descriptors
    <3> HIDE DEF m, d
    <3> QED
      BY <3>1, <3>2, <3>3
  <2>2. CASE p.pages # 0 /\ ~(allow_merge /\ O # <<>> /\ Mergeable(d, p))
    <3>1. append_descriptor(O, p, allow_merge) = Append(O, p)
      BY <2>2, Zenon DEF append_descriptor
    <3> QED
      BY <3>1
  <2>3. CASE p.pages = 0
    BY <2>3, Zenon DEF append_descriptor
  <2> QED
    BY <2>1, <2>2, <2>3, Zenon
\* append_descriptor keeps it.
<1>AppendInside.
    ASSUME NEW O \in Seq(Descriptors), NEW R, Inside(O, R), NEW p \in Descriptors,
           NEW allow_merge \in BOOLEAN,
           \/ p.kind \notin BootKinds
           \/ ~allow_merge /\ \E m \in 1..Len(R) : Within(p, R[m])
    PROVE  Inside(append_descriptor(O, p, allow_merge), R)
  <2> USE <1>AppendInside
  <2>1. CASE p.pages = 0
    BY <2>1, Zenon DEF append_descriptor
  <2>2. CASE p.pages # 0 /\ allow_merge /\ O # <<>> /\ Mergeable(O[Len(O)], p)
    <3> DEFINE T == [O EXCEPT ![Len(O)] = MergeInto(O[Len(O)], p)]
    <3>1. append_descriptor(O, p, allow_merge) = T
      BY <2>2, Zenon DEF append_descriptor
    <3>2. Len(O) \in 1..Len(O) /\ Len(T) = Len(O)
      BY <2>2
    <3>3. T[Len(O)].kind = p.kind
      <4>1. O[Len(O)] \in Descriptors /\ O[Len(O)].kind = p.kind
        BY <2>2, <3>2 DEF Mergeable
      <4>2. T[Len(O)] = MergeInto(O[Len(O)], p)
        BY <3>2
      <4> QED
        BY <4>1, <4>2, Zenon DEF MergeInto, Descriptors
    <3>4. \A k \in 1..Len(O) : k # Len(O) => T[k] = O[k]
      OBVIOUS
    <3> HIDE DEF T
    <3>5. Inside(T, R)
      BY <2>2, <3>2, <3>3, <3>4, Zenon DEF Inside
    <3> QED
      BY <3>1, <3>5, Zenon
  <2>3. CASE p.pages # 0 /\ ~(allow_merge /\ O # <<>> /\ Mergeable(O[Len(O)], p))
    <3>1. append_descriptor(O, p, allow_merge) = Append(O, p)
      BY <2>3, Zenon DEF append_descriptor
    <3>2. ASSUME NEW k \in 1..Len(Append(O, p))
          PROVE  (k \in 1..Len(O) /\ Append(O, p)[k] = O[k]) \/ Append(O, p)[k] = p
      OBVIOUS
    <3>3. Inside(Append(O, p), R)
      BY <3>2, Zenon DEF Inside
    <3> QED
      BY <3>1, <3>3, Zenon
  <2> QED
    BY <2>1, <2>2, <2>3, Zenon
\* What is cut out of a descriptor lies inside its reservation.
<1>CutInside.
    ASSUME NEW S, NEW R, Good(S, R), NEW i \in 1..Len(S), NEW j \in 1..Len(R), NEW c \in Nat,
           NEW O \in Seq(Descriptors), Place(S, R, i, j, c), Drawn(S, R, O, c),
           NEW from, NEW to, Meet(S[i], R[j], c, from, to), Inside(O, R)
    PROVE  Inside(Cut(O, S[i], R[j], c, from, to), R)
  <2> USE <1>CutInside
  <2>1. /\ from \in Nat /\ to \in Nat /\ from % PageSize = 0 /\ to % PageSize = 0
        /\ to <= RangeEnd(R[j])
    <3>1. DrawnBehind(S, R, i, j, c, O, from, to)
      BY CutKeeps, Zenon
    <3> QED
      BY <3>1, Zenon DEF DrawnBehind
  <2>2. /\ S[i].kind \in FirmwareKinds /\ S[i].attributes \in Nat /\ c % PageSize = 0
        /\ c <= RangeEnd(S[i]) /\ RangeEnd(S[i]) \in Nat /\ RangeEnd(S[i]) <= MaxAddress
    <3>1. /\ Solid(S[i]) /\ S[i].kind \in FirmwareKinds /\ S[i].attributes \in Nat
          /\ c <= RangeEnd(S[i]) /\ c % PageSize = 0
      BY PlaceIs, Zenon
    <3> QED
      BY <3>1, Zenon DEF Solid
  <2>3. R[j].start \in Nat /\ RangeEnd(R[j]) \in Nat /\ R[j].kind \in BootKinds
    BY GoodIs, Zenon DEF Solid
  <2>4. c <= from /\ R[j].start <= from /\ from < to /\ to <= MaxAddress
    <3>1. PICK y \in Nat, z \in Nat, x \in Nat : y = R[j].start /\ z = RangeEnd(R[j])
            /\ x = RangeEnd(S[i]) /\ x <= MaxAddress
      BY <2>2, <2>3, Zenon
    <3>2. from = Maximum(c, y) /\ to = Minimum(x, z) /\ from < to
      BY <3>1, Zenon DEF Meet
    <3>3. c <= from /\ y <= from /\ from < to /\ to <= x
      BY <3>1, <3>2, SMTT(30) DEF Maximum, Minimum
    <3>4. to <= MaxAddress
      BY <2>1, <3>1, <3>3, MemoryMapAssumption, SMTT(30)
    <3> QED
      BY <3>1, <3>3, <3>4, Zenon
  <2> DEFINE p == Piece(S[i].kind, c, from, S[i].attributes)
             q == Piece(R[j].kind, from, to, 0)
             L == append_descriptor(O, p, TRUE)
  <2>5. p \in Descriptors /\ p.kind \notin BootKinds
    <3>1. S[i].kind \in BootKinds \cup FirmwareKinds /\ from <= MaxAddress
      BY <2>1, <2>2, <2>4, MemoryMapAssumption, SMTT(30)
    <3>2. Spans(p, S[i].kind, c, from)
      BY <2>1, <2>2, <2>4, <3>1, <1>PieceOf, Zenon
    <3> HIDE DEF p
    <3> QED
      BY <2>2, <3>2, <1>KindsApart, Zenon DEF Spans
  <2>6. q \in Descriptors /\ Within(q, R[j])
    <3>1. R[j].kind \in BootKinds \cup FirmwareKinds /\ from <= to /\ 0 \in Nat
      BY <2>1, <2>3, <2>4, SMTT(30)
    <3>2. Spans(q, R[j].kind, from, to)
      BY <2>1, <2>4, <3>1, <1>PieceOf, Zenon
    <3> HIDE DEF q
    <3> QED
      BY <2>1, <2>4, <3>2, Zenon DEF Within, Spans
  <2>7. L \in Seq(Descriptors)
    BY <2>5, <1>AppendTyped, Zenon
  <2>8. Inside(L, R)
    BY <2>5, <1>AppendInside, Zenon
  <2> HIDE DEF p, q, L
  <2>9. Inside(append_descriptor(L, q, FALSE), R)
    BY <2>6, <2>7, <2>8, <1>AppendInside, Zenon
  <2> QED
    BY <2>9, Zenon DEF Cut, L, p, q
\* What is left of a descriptor has a kind of the firmware.
<1>RestInside.
    ASSUME NEW S, NEW R, Good(S, R), NEW i \in 1..Len(S), NEW j, NEW c \in Nat,
           NEW O \in Seq(Descriptors), Place(S, R, i, j, c), Inside(O, R)
    PROVE  Inside(Rest(O, S[i], c), R)
  <2> USE <1>RestInside
  <2>1. /\ S[i].kind \in FirmwareKinds /\ S[i].attributes \in Nat /\ c % PageSize = 0
        /\ c <= RangeEnd(S[i]) /\ RangeEnd(S[i]) \in Nat /\ RangeEnd(S[i]) <= MaxAddress
        /\ RangeEnd(S[i]) % PageSize = 0
    <3>1. /\ Solid(S[i]) /\ S[i].kind \in FirmwareKinds /\ S[i].attributes \in Nat
          /\ c <= RangeEnd(S[i]) /\ c % PageSize = 0
      BY PlaceIs, Zenon
    <3> QED
      BY <3>1, Zenon DEF Solid
  <2> DEFINE p == Piece(S[i].kind, c, RangeEnd(S[i]), S[i].attributes)
  <2>2. p \in Descriptors /\ p.kind \notin BootKinds
    <3>1. S[i].kind \in BootKinds \cup FirmwareKinds
      BY <2>1, Zenon
    <3>2. Spans(p, S[i].kind, c, RangeEnd(S[i]))
      BY <2>1, <3>1, <1>PieceOf, Zenon
    <3> HIDE DEF p
    <3> QED
      BY <2>1, <3>2, <1>KindsApart, Zenon DEF Spans
  <2> HIDE DEF p
  <2>3. Inside(append_descriptor(O, p, TRUE), R)
    BY <2>2, <1>AppendInside, Zenon
  <2> QED
    BY <2>3, Zenon DEF Rest, p
\* Before the cutting there is nothing to say.
<1>EarlyInside.
    ASSUME Reserve \/ Convert \/ insertion_sort \/ validate_non_overlapping
             \/ merge_base_descriptors \/ NormalizeEnd
    PROVE  DInv'
  <2> USE <1>EarlyInside
  <2>1. ASSUME NEW reason, Fail(reason) PROVE phase' \notin {"cut", "done"}
    BY <2>1, Zenon DEF Fail
  <2>2. CASE push
    <3>1. phase' = "push" \/ \E reason : Fail(reason)
      BY <2>2, Zenon DEF push
    <3> QED
      BY <2>1, <3>1, Zenon DEF DInv
  <2>3. CASE FinishBegin \/ FinishSort
    BY <2>3, Zenon DEF FinishBegin, FinishSort, DInv
  <2>4. CASE finish
    <3>1. phase' \in {"apply", "convert"} \/ Fail("ReservationOverlap")
      BY <2>4, Zenon DEF finish
    <3> QED
      BY <2>1, <3>1, Zenon DEF DInv
  <2>5. CASE Convert
    <3>1. phase' = "sort" \/ \E reason : Fail(reason)
      BY <2>5, Zenon DEF Convert
    <3> QED
      BY <2>1, <3>1, Zenon DEF DInv
  <2>6. CASE insertion_sort \/ merge_base_descriptors
    BY <2>6, Zenon DEF insertion_sort, merge_base_descriptors, DInv
  <2>7. CASE validate_non_overlapping
    <3>1. phase' = "merge" \/ Fail("DescriptorOverlap")
      BY <2>7, Zenon DEF validate_non_overlapping
    <3> QED
      BY <2>1, <3>1, Zenon DEF DInv
  <2>8. CASE NormalizeEnd
    <3>1. phase' \in {"push", "apply"}
      BY <2>8, Zenon DEF NormalizeEnd
    <3> QED
      BY <3>1, Zenon DEF DInv
  <2> QED
    BY <2>2, <2>3, <2>4, <2>5, <2>6, <2>7, <2>8, Zenon DEF Reserve
<1>ApplyBeginInside.
    ASSUME IInv, ApplyBegin
    PROVE  DInv'
  <2> USE <1>ApplyBeginInside
  <2>1. phase = "apply" /\ output = <<>>
    BY Zenon DEF ApplyBegin, IInv
  <2>2. CASE phase' = "failed"
    BY <2>2, Zenon DEF DInv
  <2>3. CASE phase' = "cut" /\ output' = output
    BY <2>1, <2>3 DEF DInv, Inside
  <2> QED
    BY <2>2, <2>3 DEF ApplyBegin, Fail
<1>ApplyReservationInside.
    ASSUME IInv, DInv, ApplyReservation
    PROVE  DInv'
  <2> USE <1>ApplyReservationInside
  <2> DEFINE d == scratch[index]
             r == items[inner]
             from == Maximum(cursor, r.start)
             to == Minimum(RangeEnd(d), RangeEnd(r))
             list == append_descriptor(
                       append_descriptor(output, Piece(d.kind, cursor, from, d.attributes), TRUE),
                       Piece(r.kind, from, to, 0), FALSE)
  <2>1. /\ phase = "cut" /\ index <= Len(scratch) /\ inner <= Len(items)
        /\ IF from < to
           THEN IF Len(list) > CONVERTED_DESCRIPTOR_CAPACITY
                THEN Fail("OutputCapacity")
                ELSE /\ output' = list
                     /\ covered' = [covered EXCEPT ![inner] = covered[inner] + (to - from) \div PageSize]
                     /\ cursor' = to
                     /\ inner' = inner + 1
                     /\ UNCHANGED <<inputs, phase, error, items, scratch, index, write>>
           ELSE /\ inner' = inner + 1
                /\ UNCHANGED <<inputs, phase, error, items, scratch, output, covered,
                               index, cursor, write>>
    BY Zenon DEF ApplyReservation
  <2> HIDE DEF d, r, from, to, list
  <2>2. /\ Good(scratch, items) /\ index \in 1..Len(scratch) /\ inner \in 1..(Len(items) + 1)
        /\ Len(items) \in Nat /\ inner \in Nat /\ cursor \in Nat /\ output \in Seq(Descriptors)
        /\ Place(scratch, items, index, inner, cursor)
        /\ Drawn(scratch, items, output, cursor)
    BY <2>1, CuttingIs, Zenon
  <2>3. Inside(output, items)
    BY <2>1, Zenon DEF DInv
  <2>4. CASE from < to /\ Len(list) > CONVERTED_DESCRIPTOR_CAPACITY
    <3>1. phase' = "failed"
      BY <2>1, <2>4, Zenon DEF Fail
    <3> QED
      BY <3>1, Zenon DEF DInv
  <2>5. CASE from < to /\ ~(Len(list) > CONVERTED_DESCRIPTOR_CAPACITY)
    <3>1. output' = list /\ items' = items /\ phase' = "cut"
      BY <2>1, <2>5, Zenon
    <3>2. inner \in 1..Len(items)
      BY <2>1, <2>2
    <3>3. Meet(scratch[index], items[inner], cursor, from, to)
      BY <2>5, Zenon DEF Meet, from, to, d, r
    <3>4. list = Cut(output, scratch[index], items[inner], cursor, from, to)
      BY Zenon DEF list, Cut, d, r
    <3>5. Inside(list, items)
      BY <2>2, <2>3, <3>2, <3>3, <3>4, <1>CutInside, Zenon
    <3> QED
      BY <3>1, <3>5, Zenon DEF DInv
  <2>6. CASE ~(from < to)
    <3>1. output' = output /\ items' = items /\ phase' = "cut"
      BY <2>1, <2>6, Zenon
    <3> QED
      BY <2>3, <3>1, Zenon DEF DInv
  <2> QED
    BY <2>4, <2>5, <2>6, Zenon
<1>ApplyRestInside.
    ASSUME IInv, DInv, ApplyRest
    PROVE  DInv'
  <2> USE <1>ApplyRestInside
  <2> DEFINE list == Rest(output, scratch[index], cursor)
  <2>1. /\ phase = "cut" /\ index <= Len(scratch)
        /\ \/ Fail("OutputCapacity")
           \/ output' = list /\ UNCHANGED <<inputs, phase, error, items, scratch, covered, write>>
    BY Zenon DEF ApplyRest, Rest
  <2> HIDE DEF list
  <2>2. /\ Good(scratch, items) /\ index \in 1..Len(scratch)
        /\ cursor \in Nat /\ output \in Seq(Descriptors)
        /\ Place(scratch, items, index, inner, cursor)
    BY <2>1, CuttingIs, Zenon
  <2>3. Inside(output, items)
    BY <2>1, Zenon DEF DInv
  <2>4. CASE Fail("OutputCapacity")
    BY <2>4, Zenon DEF Fail, DInv
  <2>5. CASE output' = list /\ UNCHANGED <<inputs, phase, error, items, scratch, covered, write>>
    <3>1. Inside(list, items)
      BY <2>2, <2>3, <1>RestInside, Zenon DEF list
    <3>2. items' = items /\ phase' = "cut"
      BY <2>1, <2>5, Zenon
    <3> QED
      BY <2>5, <3>1, <3>2, Zenon DEF DInv
  <2> QED
    BY <2>1, <2>4, <2>5, Zenon
<1>ApplyEndInside.
    ASSUME IInv, DInv, ApplyEnd
    PROVE  DInv'
  <2> USE <1>ApplyEndInside
  <2>1. phase = "cut" /\ index > Len(scratch)
    BY Zenon DEF ApplyEnd
  <2>2. Inside(output, items)
    BY <2>1, Zenon DEF DInv
  <2>3. AllWell(output)
    BY <2>1, CuttingEnds, Zenon DEF DrawnTo, Drawn, AllWell
  <2>4. CASE phase' = "failed"
    BY <2>4, Zenon DEF DInv
  <2>5. CASE phase' = "done" /\ output' = output /\ items' = items
    BY <2>2, <2>3, <2>5, Zenon DEF DInv
  <2> QED
    BY <2>4, <2>5, Zenon DEF ApplyEnd, Fail
<1> HAVE IInv /\ DInv /\ [Next]_vars
<1>1. CASE UNCHANGED vars
  <2>1. phase' = phase /\ output' = output /\ items' = items
    BY <1>1, Zenon DEF vars
  <2> QED
    BY <2>1, Zenon DEF DInv
<1> QED
  BY <1>1, <1>EarlyInside, <1>ApplyBeginInside, <1>ApplyReservationInside, <1>ApplyRestInside,
     <1>ApplyEndInside, Zenon DEF Next, Normalize, Apply, Ended

-----------------------------------------------------------------------------
(* What a finished conversion says of a reservation                        *)

\* One descriptor holds address x, and its kind is the one given.
Told(x, kind) ==
  \E q \in 1..Len(output) :
    Covering(x) = {q} /\ Holds(output[q], x) /\ output[q].kind = kind

\* The reservations of a finished conversion.
LEMMA WantedIs ==
  ASSUME IInv, DInv, phase = "done"
  PROVE  /\ wanted \in Seq(Reservations) /\ output \in Seq(Descriptors)
         /\ Len(wanted) \in Nat
         /\ \A k \in 1..Len(wanted) : Solid(wanted[k]) /\ wanted[k].kind \in BootKinds
         /\ AllWell(output) /\ Inside(output, wanted)
<1>1. TypeOK /\ ItemsDone
  BY Zenon DEF IInv, ItemsReady
<1>2. wanted \in Seq(Reservations) /\ output \in Seq(Descriptors) /\ items \in Seq(Reservations)
  BY <1>1, Zenon DEF TypeOK
<1>3. SameElements(items, wanted)
  BY <1>1, PermutedElements, Zenon DEF ItemsDone
<1>4. \A k \in 1..Len(items) : Solid(items[k])
  BY <1>1, <1>2, TypesOfLists, SolidList, Zenon DEF ItemsDone, AllWell
<1>5. \A k \in 1..Len(wanted) : Solid(wanted[k])
  BY <1>3, <1>4, Zenon DEF SameElements
<1>6. \A k \in 1..Len(wanted) : wanted[k].kind \in BootKinds
  <2>1. \A d \in Reservations : d.kind \in BootKinds
    BY Zenon DEF Reservations
  <2>2. \A k \in 1..Len(wanted) : wanted[k] \in Reservations
    BY <1>2
  <2> QED
    BY <2>1, <2>2, Zenon
<1>7. Inside(output, items) /\ AllWell(output)
  BY Zenon DEF DInv
<1>8. Inside(output, wanted)
  <2> SUFFICES ASSUME NEW k \in 1..Len(output), output[k].kind \in BootKinds
               PROVE  \E m \in 1..Len(wanted) : Within(output[k], wanted[m])
    BY Zenon DEF Inside
  <2>1. PICK m \in 1..Len(items) : Within(output[k], items[m])
    BY <1>7, Zenon DEF Inside
  <2>2. PICK x \in 1..Len(wanted) : items[m] = wanted[x]
    BY <1>3, Zenon DEF SameElements
  <2> QED
    BY <2>1, <2>2, Zenon
<1>9. Len(wanted) \in Nat
  BY <1>2
<1> QED
  BY <1>2, <1>5, <1>6, <1>7, <1>8, <1>9, Zenon

\* No address lies in two reservations.
LEMMA WantedApart ==
  ASSUME IInv, phase = "done", NEW x \in Addresses,
         NEW k \in 1..Len(wanted), NEW m \in 1..Len(wanted),
         Holds(wanted[k], x), Holds(wanted[m], x)
  PROVE  k = m
<1>1. ~SharedPage(wanted)
  BY Zenon DEF IInv, ReservationsAreCovered
<1> QED
  BY <1>1, Zenon DEF SharedPage

\* A page of a reservation, the framebuffer's aside, has one descriptor, of the
\* kind of the reservation.
LEMMA PageTold ==
  ASSUME IInv, phase = "done", NEW k \in 1..Len(wanted), wanted[k].source # "Framebuffer",
         NEW x \in Addresses, Holds(wanted[k], x)
  PROVE  Told(x, wanted[k].kind)
<1>1. ReservationsAreCovered /\ PagesKeepTheirKind
  BY Zenon DEF IInv, ConvertedMapIsExact
<1>2. InMap(x)
  BY <1>1, Zenon DEF ReservationsAreCovered
<1>3. IsReserved(x)
  BY Zenon DEF IsReserved
<1> DEFINE m == CHOOSE n \in 1..Len(wanted) : Holds(wanted[n], x)
<1>4. m \in 1..Len(wanted) /\ Holds(wanted[m], x)
  BY Zenon
<1>5. Reference(x) = <<wanted[m].kind, 0>>
  BY <1>3, Zenon DEF Reference
<1> HIDE DEF m
<1>6. m = k
  BY <1>4, WantedApart, Zenon
<1>7. PICK q \in {n \in 1..Len(output) : Holds(output[n], x)} :
        /\ {n \in 1..Len(output) : Holds(output[n], x)} = {q}
        /\ <<output[q].kind, output[q].attributes>> = Reference(x)
  BY <1>1, <1>2, Zenon DEF PagesKeepTheirKind
<1>8. output[q].kind = wanted[k].kind
  BY <1>5, <1>6, <1>7
<1>9. Covering(x) = {q}
  BY <1>7, Zenon DEF Covering
<1> QED
  BY <1>7, <1>8, <1>9, Zenon DEF Told

\* A reservation begins with one of its pages.
LEMMA FirstPage ==
  ASSUME NEW d, Solid(d)
  PROVE  d.start \in Addresses /\ Holds(d, d.start)
<1>1. d.start \in Nat /\ d.start \in 0..MaxAddress /\ d.start % PageSize = 0 /\ d.start < RangeEnd(d)
  BY Zenon DEF Solid, Bytes
<1>2. d.start <= d.start
  BY <1>1
<1> QED
  BY <1>1, <1>2, Zenon DEF Addresses, Holds

-----------------------------------------------------------------------------
(* What the loader owns is among its reservations                          *)

\* The five reservations that every layout has.
Fixed(l) ==
  <<ReservationOf("boot_memory_map", "RawMemoryMap", l.raw_map),
    ReservationOf("boot_memory_map", "ConversionScratch", l.conversion_scratch),
    ReservationOf("boot_memory_map", "ConvertedMemoryMap", l.converted_map),
    ReservationOf("boot_info", "BootInfo", l.boot_info),
    ReservationOf("framebuffer", "Framebuffer", FramebufferPages(l.framebuffer))>>

StackReservations(l) ==
  [k \in 1..Len(l.stack) |-> ReservationOf("bootstrap_stack", "BootstrapStack", l.stack[k])]

TableReservations(l) ==
  [k \in 1..Len(FrameRuns(l.frames)) |->
     ReservationOf("page_table", "PageTable", FrameRuns(l.frames)[k])]

\* Reservation r is one of the list.
Among(r, list) == \E k \in 1..Len(list) : list[k] = r

Collects(l) ==
  /\ \A r : Among(r, KernelReservations(l)) => Among(r, reservations_for(l))
  /\ \A r : Among(r, StackReservations(l)) => Among(r, reservations_for(l))
  /\ \A r : Among(r, TableReservations(l)) => Among(r, reservations_for(l))

\* The reservations of a layout, by their origin.
LEMMA Reserved ==
  \A l :
    Len(l.segments) \in Nat /\ Len(l.stack) \in Nat /\ Len(FrameRuns(l.frames)) \in Nat =>
        /\ \A m \in 1..5 : /\ Len(l.segments) + m \in 1..Len(reservations_for(l))
                           /\ reservations_for(l)[Len(l.segments) + m] = Fixed(l)[m]
        /\ Collects(l)
\* A list written as a function is a sequence.
<1>ListIs.
    ASSUME NEW n \in Nat, NEW f, f = [k \in 1..n |-> f[k]]
    PROVE  /\ f \in Seq({f[k] : k \in 1..n}) /\ Len(f) = n
  BY <1>ListIs
<1>WiderList.
    ASSUME NEW S, NEW T, S \subseteq T, NEW f \in Seq(S)
    PROVE  f \in Seq(T)
  BY <1>WiderList
\* The elements of a concatenation.
<1>JoinedLists.
    ASSUME NEW T, NEW f \in Seq(T), NEW g \in Seq(T)
    PROVE  /\ f \o g \in Seq(T) /\ Len(f \o g) = Len(f) + Len(g)
           /\ Len(f) \in Nat /\ Len(g) \in Nat
           /\ \A k \in 1..Len(f) : k \in 1..Len(f \o g) /\ (f \o g)[k] = f[k]
           /\ \A k \in 1..Len(g) : Len(f) + k \in 1..Len(f \o g) /\ (f \o g)[Len(f) + k] = g[k]
  BY <1>JoinedLists
<1>JoinedLeft.
    ASSUME NEW T, NEW f \in Seq(T), NEW g \in Seq(T), NEW k \in 1..Len(f)
    PROVE  k \in 1..Len(f \o g) /\ (f \o g)[k] = f[k]
  BY <1>JoinedLeft
<1>AmongJoined.
    ASSUME NEW T, NEW f \in Seq(T), NEW g \in Seq(T), NEW r
    PROVE  Among(r, f) \/ Among(r, g) => Among(r, f \o g)
  <2> USE <1>AmongJoined
  <2>1. CASE Among(r, f)
    <3>1. PICK k \in 1..Len(f) : f[k] = r
      BY <2>1, Zenon DEF Among
    <3>2. k \in 1..Len(f \o g) /\ (f \o g)[k] = f[k]
      BY <1>JoinedLists, Zenon
    <3> QED
      BY <3>1, <3>2, Zenon DEF Among
  <2>2. CASE Among(r, g)
    <3>1. PICK k \in 1..Len(g) : g[k] = r
      BY <2>2, Zenon DEF Among
    <3>2. Len(f) + k \in 1..Len(f \o g) /\ (f \o g)[Len(f) + k] = g[k]
      BY <1>JoinedLists, SMT
    <3> QED
      BY <3>1, <3>2, Zenon DEF Among
  <2> QED
    BY <2>1, <2>2, Zenon
<1> TAKE l
<1> HAVE Len(l.segments) \in Nat /\ Len(l.stack) \in Nat
         /\ Len(FrameRuns(l.frames)) \in Nat
<1> DEFINE n == Len(l.segments)
           A == KernelReservations(l)
           B == Fixed(l)
           C == StackReservations(l)
           D == TableReservations(l)
           T == {A[k] : k \in 1..n} \cup {B[k] : k \in 1..5}
                  \cup {C[k] : k \in 1..Len(l.stack)} \cup {D[k] : k \in 1..Len(FrameRuns(l.frames))}
<1>1. reservations_for(l) = ((A \o B) \o C) \o D
  BY Zenon DEF reservations_for, Fixed, StackReservations, TableReservations
<1>2. A \in Seq({A[k] : k \in 1..n}) /\ Len(A) = n
  <2>1. A = [k \in 1..n |-> A[k]]
    BY Zenon DEF KernelReservations
  <2> QED
    BY <2>1, <1>ListIs, Zenon
<1>3. C \in Seq({C[k] : k \in 1..Len(l.stack)})
  <2>1. C = [k \in 1..Len(l.stack) |-> C[k]]
    BY Zenon DEF StackReservations
  <2> QED
    BY <2>1, <1>ListIs, Zenon
<1>4. D \in Seq({D[k] : k \in 1..Len(FrameRuns(l.frames))})
  <2>1. D = [k \in 1..Len(FrameRuns(l.frames)) |-> D[k]]
    BY Zenon DEF TableReservations
  <2> QED
    BY <2>1, <1>ListIs, Zenon
<1>5. B \in Seq({B[k] : k \in 1..5}) /\ Len(B) = 5
  BY DEF Fixed
<1> HIDE DEF A, B, C, D, n
<1>6. A \in Seq(T) /\ B \in Seq(T) /\ C \in Seq(T) /\ D \in Seq(T)
  BY <1>2, <1>3, <1>4, <1>5, <1>WiderList
<1> HIDE DEF T
<1>7. A \o B \in Seq(T) /\ (A \o B) \o C \in Seq(T)
  BY <1>6, <1>JoinedLists, Zenon
<1>8. ASSUME NEW m \in 1..5
      PROVE  /\ n + m \in 1..Len(reservations_for(l))
             /\ reservations_for(l)[n + m] = B[m]
  <2>1. n + m \in 1..Len(A \o B) /\ (A \o B)[n + m] = B[m]
    <3>1. m \in 1..Len(B)
      BY <1>5, Zenon
    <3>2. A \in Seq(T) /\ B \in Seq(T)
      BY <1>6, Zenon
    <3>3. Len(A) + m \in 1..Len(A \o B) /\ (A \o B)[Len(A) + m] = B[m]
      BY <3>1, <3>2
    <3> QED
      BY <1>2, <3>3, Zenon
  <2>2. PICK j : j = n + m
    BY Zenon
  <2>3. j \in 1..Len(A \o B) /\ (A \o B)[j] = B[m]
    BY <2>1, <2>2, Zenon
  <2>4. C \in Seq(T) /\ D \in Seq(T)
    BY <1>6, Zenon
  <2>5. j \in 1..Len((A \o B) \o C) /\ ((A \o B) \o C)[j] = B[m]
    BY <1>7, <2>3, <2>4, <1>JoinedLeft, Zenon
  <2>6. j \in 1..Len(((A \o B) \o C) \o D) /\ (((A \o B) \o C) \o D)[j] = B[m]
    BY <1>7, <2>4, <2>5, <1>JoinedLeft, Zenon
  <2> QED
    BY <1>1, <2>2, <2>6, Zenon
<1>9. ASSUME NEW r, Among(r, A) \/ Among(r, C) \/ Among(r, D)
      PROVE  Among(r, reservations_for(l))
  BY <1>1, <1>6, <1>7, <1>9, <1>AmongJoined, Zenon
<1> QED
  BY <1>8, <1>9, Zenon DEF A, B, C, D, n, Collects

-----------------------------------------------------------------------------
(* The runs of page-table frames                                           *)

\* append_page_table_reservations, for a set X of frames.
Heads(X) == {a \in X : a - PageSize \notin X}

Rank(X, a) == Cardinality({b \in Heads(X) : b <= a})

Run(X, a) == {b \in X : a <= b /\ \A x \in a..b : x % PageSize = 0 => x \in X}

RunPages(X, a) == (Max(Run(X, a)) - a) \div PageSize + 1

Frames(f) == {f[k] : k \in 1..Len(f)}

\* An aligned address below another is a page or more below it.
LEMMA PageBelow ==
  ASSUME NEW x \in Nat, NEW a \in Nat, x % PageSize = 0, a % PageSize = 0, x < a
  PROVE  x + PageSize <= a
<1>1. PICK n \in Nat : n * PageSize = a - x /\ (n = 0 <=> x = a)
  BY Span
<1>2. n # 0
  BY <1>1
<1>3. PICK e \in Nat : n = e + 1
  <2>1. n - 1 \in Nat /\ n = (n - 1) + 1
    BY <1>2
  <2> QED
    BY <2>1, Zenon
<1>4. (e + 1) * PageSize = e * PageSize + PageSize /\ e * PageSize \in Nat
  BY MemoryMapAssumption, Z3
<1> QED
  BY <1>1, <1>3, <1>4, MemoryMapAssumption

LEMMA AddressIs ==
  ASSUME NEW a \in Addresses
  PROVE  a \in Nat /\ a \in Int /\ a <= MaxAddress /\ a % PageSize = 0
  BY MemoryMapAssumption DEF Addresses

\* Every frame lies in a reservation.
LEMMA FramesReserved ==
  \A f \in Seq(Addresses) :
        /\ Len(FrameRuns(f)) \in Nat
        /\ \A k \in 1..Len(f) :
             \E j \in 1..Len(FrameRuns(f)) : Holds(FrameRuns(f)[j], f[k])
<1>FrameRunsIs.
    ASSUME NEW f
    PROVE  LET X == Frames(f)
               head(k) == CHOOSE a \in Heads(X) : Rank(X, a) = k
           IN  FrameRuns(f) = [k \in 1..Cardinality(Heads(X)) |->
                                 [start |-> head(k), pages |-> RunPages(X, head(k))]]
  BY <1>FrameRunsIs, Zenon DEF FrameRuns, Frames, Heads, Rank, Run, RunPages
\* A frame lies in the run of a head.
<1>RunHasHead.
    ASSUME NEW X \in SUBSET Addresses, NEW b \in X
    PROVE  \E a \in Heads(X) : b \in Run(X, a)
  <2> USE <1>RunHasHead
  <2> DEFINE P == {a \in X : b \in Run(X, a)}
  <2>1. \A a \in X : a \in Addresses
    BY Zenon
  <2>2. \A a \in X : a \in Nat /\ a % PageSize = 0
    BY <2>1, AddressIs, Zenon
  <2>3. b \in Run(X, b)
    <3>1. b <= b /\ \A x \in b..b : x = b
      BY <2>2
    <3> QED
      BY <3>1, Zenon DEF Run
  <2>4. P \in SUBSET Nat /\ P # {}
    BY <2>2, <2>3, Zenon
  <2>5. PICK a \in P : \A c \in P : a <= c
    BY <2>4, LeastNumber, Zenon
  <2>6. a \in X /\ b \in Run(X, a)
    BY <2>5, Zenon
  <2>7. a <= b /\ \A x \in a..b : x % PageSize = 0 => x \in X
    BY <2>6, Zenon DEF Run
  <2> DEFINE z == a - PageSize
  <2>8. ASSUME z \in X PROVE FALSE
    <3>1. z \in Nat /\ z % PageSize = 0 /\ a \in Nat /\ b \in Nat /\ a % PageSize = 0
      BY <2>2, <2>6, <2>8, Zenon
    <3>2. z + PageSize = a /\ z < a
      BY <3>1, MemoryMapAssumption
    <3>3. ASSUME NEW x \in z..b, x % PageSize = 0 PROVE x \in X
      <4>1. x \in Nat /\ z <= x /\ x <= b
        BY <3>1, <3>3
      <4>2. CASE x = z
        BY <2>8, <4>2, Zenon
      <4>3. CASE z < x
        <5>1. z + PageSize <= x
          BY <3>1, <3>3, <4>1, <4>3, PageBelow, Zenon
        <5>2. x \in a..b
          BY <3>1, <3>2, <4>1, <5>1
        <5> QED
          BY <2>7, <3>3, <5>2, Zenon
      <4> QED
        BY <3>1, <4>1, <4>2, <4>3
    <3>4. z <= b
      BY <2>7, <3>1, <3>2
    <3> HIDE DEF z
    <3>5. b \in Run(X, z)
      BY <3>3, <3>4, Zenon DEF Run
    <3>6. a <= z
      BY <2>5, <2>8, <3>5, Zenon
    <3> QED
      BY <3>1, <3>2, <3>6
  <2>9. a \in Heads(X)
    BY <2>6, <2>8, Zenon DEF Heads
  <2> QED
    BY <2>6, <2>9, Zenon
\* A set of addresses is finite and has a greatest element.
<1>GreatestAddress.
    ASSUME NEW X \in SUBSET Addresses
    PROVE  IsFiniteSet(X) /\ (X # {} => Max(X) \in X /\ \A y \in X : y <= Max(X))
  <2> USE <1>GreatestAddress
  <2>1. ASSUME NEW a \in X PROVE a \in Nat /\ a <= MaxAddress
    <3>1. a \in Addresses
      BY Zenon
    <3> QED
      BY <3>1, AddressIs, Zenon
  <2>2. IsFiniteSet(X)
    <3>1. MaxAddress \in Nat
      BY MemoryMapAssumption, Zenon
    <3>2. X \in SUBSET Nat
      BY <2>1, Zenon
    <3> QED
      BY <2>1, <3>1, <3>2, FS_BoundedSetOfNaturals, Zenon
  <2>3. ASSUME X # {} PROVE \E x \in X : \A y \in X : x >= y
    <3> DEFINE N == {MaxAddress - a : a \in X}
    <3>1. N \in SUBSET Nat /\ N # {}
      BY <2>1, <2>3, MemoryMapAssumption
    <3>2. PICK n \in N : \A m \in N : n <= m
      BY <3>1, LeastNumber, Zenon
    <3>3. PICK x \in X : n = MaxAddress - x
      BY <3>2, Zenon
    <3>4. ASSUME NEW y \in X PROVE x >= y
      <4>1. MaxAddress - y \in N
        BY Zenon
      <4>2. MaxAddress - x <= MaxAddress - y
        BY <3>2, <3>3, <4>1, Zenon
      <4> QED
        BY <2>1, <4>2, MemoryMapAssumption
    <3> QED
      BY <3>4, Zenon
  <2>4. ASSUME X # {} PROVE Max(X) \in X /\ \A y \in X : Max(X) >= y
    BY <2>3, <2>4, Zenon DEF Max
  <2>5. ASSUME X # {}, NEW y \in X PROVE y <= Max(X)
    BY <2>1, <2>4, <2>5, Zenon
  <2> QED
    BY <2>2, <2>4, <2>5, Zenon
\* The heads of the runs are numbered in address order.
<1>HeadByRank.
    ASSUME NEW X \in SUBSET Addresses, NEW a \in Heads(X)
    PROVE  /\ Rank(X, a) \in 1..Cardinality(Heads(X))
           /\ (CHOOSE c \in Heads(X) : Rank(X, c) = Rank(X, a)) = a
  <2> USE <1>HeadByRank
  <2> DEFINE H == Heads(X)
             Upto(c) == {b \in H : b <= c}
  <2>1. H \in SUBSET Addresses
    BY Zenon DEF Heads
  <2>2. IsFiniteSet(H)
    BY <2>1, <1>GreatestAddress, Zenon
  <2> HIDE DEF H
  <2>3. \A c \in H : c \in Nat
    BY <2>1, AddressIs, Zenon
  <2>4. ASSUME NEW c \in H
        PROVE  /\ Upto(c) \in SUBSET H /\ IsFiniteSet(Upto(c)) /\ c \in Upto(c)
               /\ Cardinality(Upto(c)) \in Nat /\ Cardinality(Upto(c)) <= Cardinality(H)
               /\ Cardinality(Upto(c)) # 0
    <3>1. Upto(c) \in SUBSET H
      BY Zenon
    <3>2. c <= c
      BY <2>3
    <3>3. c \in Upto(c)
      BY <3>2, Zenon
    <3> HIDE DEF Upto
    <3>4. IsFiniteSet(Upto(c)) /\ Cardinality(Upto(c)) <= Cardinality(H)
      BY <2>2, <3>1, FS_Subset, Zenon
    <3>5. Cardinality(Upto(c)) \in Nat
      BY <3>4, FS_CardinalityType, Zenon
    <3>6. Cardinality(Upto(c)) # 0
      BY <3>3, <3>4, FS_EmptySet, Zenon
    <3> QED
      BY <3>1, <3>3, <3>4, <3>5, <3>6, Zenon
  <2>5. a \in H /\ \A c : Rank(X, c) = Cardinality(Upto(c))
    BY Zenon DEF Rank, H
  <2>6. ASSUME NEW c \in H, NEW d \in H, c <= d, Cardinality(Upto(c)) = Cardinality(Upto(d))
        PROVE  c = d
    <3>1. Upto(c) \in SUBSET Upto(d)
      BY <2>3, <2>6
    <3>2. IsFiniteSet(Upto(d)) /\ d \in Upto(d)
      BY <2>4, Zenon
    <3>3. Upto(d) = Upto(c)
      <4> HIDE DEF Upto
      <4> QED
        BY <2>6, <3>1, <3>2, FS_Subset, Zenon
    <3>4. d <= c
      BY <3>2, <3>3, Zenon
    <3> QED
      BY <2>3, <2>6, <3>4
  <2>7. ASSUME NEW c \in H, Rank(X, c) = Rank(X, a) PROVE c = a
    <3>1. Cardinality(Upto(c)) = Cardinality(Upto(a))
      BY <2>5, <2>7, Zenon
    <3>2. c <= a \/ a <= c
      BY <2>3, <2>5
    <3> HIDE DEF Upto
    <3> QED
      BY <2>5, <2>6, <3>1, <3>2, Zenon
  <2>8. (CHOOSE c \in H : Rank(X, c) = Rank(X, a)) = a
    <3> DEFINE e == CHOOSE c \in H : Rank(X, c) = Rank(X, a)
    <3>1. e \in H /\ Rank(X, e) = Rank(X, a)
      BY <2>5, Zenon
    <3> QED
      BY <2>7, <3>1, Zenon
  <2>9. Rank(X, a) \in 1..Cardinality(H)
    <3>1. Cardinality(H) \in Nat
      BY <2>2, FS_CardinalityType, Zenon
    <3>2. /\ Rank(X, a) \in Nat /\ Rank(X, a) <= Cardinality(H) /\ Rank(X, a) # 0
      BY <2>4, <2>5, Zenon
    <3> QED
      BY <3>1, <3>2
  <2> QED
    BY <2>8, <2>9, Zenon DEF H
\* The reservation of a run holds every frame of it.
<1>RunCovers.
    ASSUME NEW X \in SUBSET Addresses, NEW a \in X, NEW b \in Run(X, a)
    PROVE  Holds([start |-> a, pages |-> RunPages(X, a)], b)
  <2> USE <1>RunCovers
  <2> DEFINE R == Run(X, a)
             M == Max(R)
  <2>1. R \in SUBSET Addresses
    BY Zenon DEF Run
  <2>2. M \in R /\ \A y \in R : y <= M
    BY <2>1, <1>GreatestAddress, Zenon
  <2>3. a <= M /\ a <= b /\ b <= M
    BY <2>2, Zenon DEF Run
  <2>4. M \in Addresses /\ a \in Addresses /\ b \in Addresses
    BY <2>1, <2>2, Zenon
  <2> HIDE DEF M, R
  <2>5. M \in Nat /\ a \in Nat /\ b \in Nat /\ M % PageSize = 0 /\ a % PageSize = 0
    BY <2>4, AddressIs, Zenon
  <2> DEFINE n == (M - a) \div PageSize
  <2>6. n \in Nat /\ n * PageSize = M - a
    BY <2>3, <2>5, Span, Zenon
  <2>7. RunPages(X, a) = n + 1
    BY Zenon DEF RunPages, M, R
  <2> HIDE DEF n
  <2>8. (n + 1) * PageSize = n * PageSize + PageSize
    BY <2>6, MemoryMapAssumption, Z3
  <2>9. a + (n + 1) * PageSize = M + PageSize
    BY <2>5, <2>6, <2>8, MemoryMapAssumption
  <2> DEFINE d == [start |-> a, pages |-> RunPages(X, a)]
  <2>10. d.start = a /\ d.pages = n + 1
    BY <2>7, Zenon
  <2> HIDE DEF d
  <2>11. RangeEnd(d) = M + PageSize
    BY <2>9, <2>10, Zenon DEF RangeEnd
  <2>12. b < RangeEnd(d) /\ d.start <= b
    BY <2>3, <2>5, <2>10, <2>11, MemoryMapAssumption
  <2>13. Holds(d, b)
    BY <2>12, Zenon DEF Holds
  <2> QED
    BY <2>13, Zenon DEF d
<1> TAKE f \in Seq(Addresses)
<1> DEFINE X == Frames(f)
           head(k) == CHOOSE a \in Heads(X) : Rank(X, a) = k
           F == [k \in 1..Cardinality(Heads(X)) |->
                   [start |-> head(k), pages |-> RunPages(X, head(k))]]
<1>1. FrameRuns(f) = F
  BY <1>FrameRunsIs, Zenon
<1>2. X \in SUBSET Addresses
  BY DEF Frames
<1>3. Heads(X) \in SUBSET Addresses
  BY <1>2, Zenon DEF Heads
<1>4. IsFiniteSet(Heads(X))
  BY <1>3, <1>GreatestAddress, Zenon
<1>5. Cardinality(Heads(X)) \in Nat
  BY <1>4, FS_CardinalityType, Zenon
<1>6. Len(F) = Cardinality(Heads(X))
  <2> HIDE DEF head
  <2> QED
    BY <1>5
<1>7. ASSUME NEW k \in 1..Len(f)
      PROVE  \E j \in 1..Cardinality(Heads(X)) : Holds(F[j], f[k])
  <2>1. f[k] \in X
    BY Zenon DEF Frames
  <2> HIDE DEF X
  <2>2. PICK a \in Heads(X) : f[k] \in Run(X, a)
    BY <1>2, <2>1, <1>RunHasHead, Zenon
  <2> DEFINE j == Rank(X, a)
  <2>3. j \in 1..Cardinality(Heads(X)) /\ head(j) = a
    BY <1>2, <1>HeadByRank, Zenon
  <2>4. F[j] = [start |-> a, pages |-> RunPages(X, a)]
    <3> HIDE DEF j, head
    <3> QED
      BY <2>3, Zenon
  <2>5. a \in X
    BY Zenon DEF Heads
  <2>6. Holds([start |-> a, pages |-> RunPages(X, a)], f[k])
    BY <1>2, <2>2, <2>5, <1>RunCovers, Zenon
  <2> HIDE DEF F, j
  <2> QED
    BY <2>3, <2>4, <2>6, Zenon
<1> HIDE DEF F, X
<1> QED
  BY <1>1, <1>5, <1>6, <1>7, Zenon

-----------------------------------------------------------------------------
(* The layout and the finished map                                         *)

LEMMA LayoutIs ==
  ASSUME NEW l \in Layouts
  PROVE  /\ l.segments \in Seq(Allocations) /\ Len(l.segments) \in Nat \ {0}
         /\ \A k \in 1..(Len(l.segments) - 1) :
              RangeEnd(l.segments[k]) = l.segments[k + 1].start
         /\ l.stack \in Seq(Allocations) /\ Len(l.stack) \in Nat
         /\ l.stack # <<>> => 1 \in 1..Len(l.stack) /\ 1 \in 1..Len(l.frames)
         /\ l.frames \in Seq(Addresses) /\ Len(FrameRuns(l.frames)) \in Nat
<1>1. /\ l.segments \in Seq(Allocations) /\ l.segments # <<>>
      /\ \A k \in 1..(Len(l.segments) - 1) :
           RangeEnd(l.segments[k]) = l.segments[k + 1].start
      /\ l.stack \in Seq(Allocations) /\ l.frames \in Seq(Addresses)
      /\ l.stack # <<>> => l.frames # <<>>
  <2>1. l \in [segments: Seq(Allocations), raw_map: Allocations,
               conversion_scratch: Allocations, converted_map: Allocations,
               boot_info: Allocations, framebuffer: [start: 0..MaxAddress, length: Nat],
               stack: Seq(Allocations), frames: Seq(Addresses)]
    BY BootMapAssumption, Zenon DEF Addresses
  <2>2. /\ l.segments \in Seq(Allocations) /\ l.stack \in Seq(Allocations)
        /\ l.frames \in Seq(Addresses)
    BY <2>1, Zenon
  <2> QED
    BY <2>2, BootMapAssumption, Zenon
<1>2. Len(l.segments) \in Nat \ {0} /\ Len(l.stack) \in Nat
  BY <1>1
<1>3. l.stack # <<>> => 1 \in 1..Len(l.stack) /\ 1 \in 1..Len(l.frames)
  BY <1>1
<1>4. Len(FrameRuns(l.frames)) \in Nat
  BY <1>1, FramesReserved, Zenon
<1> QED
  BY <1>1, <1>2, <1>3, <1>4, Zenon

\* The map is finished and was made for this layout.
Settled ==
  /\ IInv /\ DInv /\ phase = "done"
  /\ layout \in Layouts /\ wanted = reservations_for(layout)

\* Allocation a is a sound range, and every page of it has one descriptor, of the
\* kind given.
Owned(a, kind) ==
  /\ Solid(a) /\ kind \in BootKinds
  /\ \A x \in Addresses : Holds(a, x) => Told(x, kind)

LEMMA OwnedIs ==
  ASSUME Settled, NEW kind, NEW source, NEW a, source # "Framebuffer",
         Among(ReservationOf(kind, source, a), wanted)
  PROVE  Owned(a, kind)
<1>1. PICK k \in 1..Len(wanted) : wanted[k] = ReservationOf(kind, source, a)
  BY Zenon DEF Among
<1>2. IInv /\ DInv /\ phase = "done"
  BY Zenon DEF Settled
<1>3. Solid(wanted[k]) /\ wanted[k].kind \in BootKinds
  BY <1>2, WantedIs, Zenon
<1>4. /\ wanted[k].kind = kind /\ wanted[k].source = source
      /\ wanted[k].start = a.start /\ wanted[k].pages = a.pages
  BY <1>1 DEF ReservationOf
<1>5. RangeEnd(wanted[k]) = RangeEnd(a)
  BY <1>4, Zenon DEF RangeEnd
<1>6. Solid(a)
  BY <1>3, <1>4, <1>5, Zenon DEF Solid
<1>7. ASSUME NEW x \in Addresses, Holds(a, x) PROVE Told(x, kind)
  <2>1. Holds(wanted[k], x)
    BY <1>4, <1>5, <1>7, Zenon DEF Holds
  <2>2. Told(x, wanted[k].kind)
    BY <1>2, <1>4, <2>1, PageTold, Zenon
  <2> QED
    BY <1>4, <2>2, Zenon
<1> QED
  BY <1>3, <1>4, <1>6, <1>7, Zenon DEF Owned

\* The four fixed allocations that are not the framebuffer.
LEMMA FixedOwned ==
  ASSUME Settled
  PROVE  /\ Owned(layout.raw_map, "boot_memory_map")
         /\ Owned(layout.conversion_scratch, "boot_memory_map")
         /\ Owned(layout.converted_map, "boot_memory_map")
         /\ Owned(layout.boot_info, "boot_info")
<1> DEFINE n == Len(layout.segments)
<1>1. layout \in Layouts /\ wanted = reservations_for(layout)
  BY Zenon DEF Settled
<1>2. n \in Nat /\ Len(layout.stack) \in Nat /\ Len(FrameRuns(layout.frames)) \in Nat
  BY <1>1, LayoutIs, Zenon
<1>3. \A m \in 1..5 : n + m \in 1..Len(wanted) /\ wanted[n + m] = Fixed(layout)[m]
  BY <1>1, <1>2, Reserved, Zenon
<1>4. \A m \in 1..5 : Among(Fixed(layout)[m], wanted)
  BY <1>3, Zenon DEF Among
<1>5. /\ Among(ReservationOf("boot_memory_map", "RawMemoryMap", layout.raw_map), wanted)
      /\ Among(ReservationOf("boot_memory_map", "ConversionScratch", layout.conversion_scratch), wanted)
      /\ Among(ReservationOf("boot_memory_map", "ConvertedMemoryMap", layout.converted_map), wanted)
      /\ Among(ReservationOf("boot_info", "BootInfo", layout.boot_info), wanted)
  <2>1. /\ Fixed(layout)[1] = ReservationOf("boot_memory_map", "RawMemoryMap", layout.raw_map)
        /\ Fixed(layout)[2] =
             ReservationOf("boot_memory_map", "ConversionScratch", layout.conversion_scratch)
        /\ Fixed(layout)[3] =
             ReservationOf("boot_memory_map", "ConvertedMemoryMap", layout.converted_map)
        /\ Fixed(layout)[4] = ReservationOf("boot_info", "BootInfo", layout.boot_info)
    BY Zenon DEF Fixed
  <2>2. 1 \in 1..5 /\ 2 \in 1..5 /\ 3 \in 1..5 /\ 4 \in 1..5
    OBVIOUS
  <2> QED
    BY <1>4, <2>1, <2>2
<1>6. /\ "RawMemoryMap" # "Framebuffer" /\ "ConversionScratch" # "Framebuffer"
      /\ "ConvertedMemoryMap" # "Framebuffer" /\ "BootInfo" # "Framebuffer"
  BY Zenon
<1> QED
  BY <1>5, <1>6, OwnedIs, Zenon

\* The segments of the kernel and the stack.
LEMMA ListsOwned ==
  ASSUME Settled
  PROVE  /\ \A k \in 1..Len(layout.segments) : Owned(layout.segments[k], "kernel_image")
         /\ \A k \in 1..Len(layout.stack) : Owned(layout.stack[k], "bootstrap_stack")
<1>1. layout \in Layouts /\ wanted = reservations_for(layout)
  BY Zenon DEF Settled
<1>2. /\ Len(layout.segments) \in Nat /\ Len(layout.stack) \in Nat
      /\ Len(FrameRuns(layout.frames)) \in Nat
  BY <1>1, LayoutIs, Zenon
<1>3. Collects(layout)
  BY <1>1, <1>2, Reserved, Zenon
<1>4. "KernelImage" # "Framebuffer" /\ "BootstrapStack" # "Framebuffer"
  BY Zenon
<1>5. ASSUME NEW k \in 1..Len(layout.segments) PROVE Owned(layout.segments[k], "kernel_image")
  <2>1. Among(ReservationOf("kernel_image", "KernelImage", layout.segments[k]),
              KernelReservations(layout))
    BY <1>2 DEF Among, KernelReservations
  <2> QED
    BY <1>1, <1>3, <1>4, <2>1, OwnedIs, Zenon DEF Collects
<1>6. ASSUME NEW k \in 1..Len(layout.stack) PROVE Owned(layout.stack[k], "bootstrap_stack")
  <2>1. Among(ReservationOf("bootstrap_stack", "BootstrapStack", layout.stack[k]),
              StackReservations(layout))
    BY <1>2 DEF Among, StackReservations
  <2> QED
    BY <1>1, <1>3, <1>4, <2>1, OwnedIs, Zenon DEF Collects
<1> QED
  BY <1>5, <1>6, Zenon

\* The frames of the page tables.
LEMMA FramesOwned ==
  ASSUME Settled, NEW k \in 1..Len(layout.frames)
  PROVE  layout.frames[k] \in Addresses /\ Told(layout.frames[k], "page_table")
<1> DEFINE runs == FrameRuns(layout.frames)
           x == layout.frames[k]
<1>1. layout \in Layouts /\ wanted = reservations_for(layout)
  BY Zenon DEF Settled
<1>2. /\ Len(layout.segments) \in Nat /\ Len(layout.stack) \in Nat
      /\ Len(runs) \in Nat /\ layout.frames \in Seq(Addresses)
  BY <1>1, LayoutIs, Zenon
<1>3. x \in Addresses
  BY <1>2
<1>4. PICK j \in 1..Len(runs) : Holds(runs[j], x)
  BY <1>2, FramesReserved, Zenon
<1>5. Among(ReservationOf("page_table", "PageTable", runs[j]), TableReservations(layout))
  BY <1>2 DEF Among, TableReservations
<1>6. Among(ReservationOf("page_table", "PageTable", runs[j]), wanted)
  <2>1. Collects(layout)
    BY <1>1, <1>2, Reserved, Zenon
  <2> QED
    BY <1>1, <1>5, <2>1, Zenon DEF Collects
<1>7. Owned(runs[j], "page_table")
  <2>1. "PageTable" # "Framebuffer"
    BY Zenon
  <2> QED
    BY <1>6, <2>1, OwnedIs, Zenon
<1> QED
  BY <1>3, <1>4, <1>7, Zenon DEF Owned

-----------------------------------------------------------------------------
(* The loader's checks                                                     *)

\* An owned allocation has a descriptor of its kind.
LEMMA OwnedHas ==
  ASSUME NEW a, NEW kind, Owned(a, kind)
  PROVE  Of(kind) # {}
<1>1. a.start \in Addresses /\ Holds(a, a.start)
  BY FirstPage, Zenon DEF Owned
<1>2. Told(a.start, kind)
  BY <1>1, Zenon DEF Owned
<1> QED
  BY <1>2, Zenon DEF Told, Of

\* The first descriptor that holds a page that has one.
LEMMA ToldKind ==
  ASSUME NEW x, NEW kind, Told(x, kind)
  PROVE  \E q \in 1..Len(output) : /\ Covering(x) # {} /\ Min(Covering(x)) = q
                                   /\ KindAt(x) = kind /\ Holds(output[q], x)
<1>1. PICK q \in 1..Len(output) :
        Covering(x) = {q} /\ Holds(output[q], x) /\ output[q].kind = kind
  BY Zenon DEF Told
<1>2. Min({q}) = q
  <2>1. q \in {q} /\ \A y \in {q} : q =< y
    OBVIOUS
  <2> QED
    BY <2>1, Zenon DEF Min
<1> QED
  BY <1>1, <1>2, Zenon DEF KindAt

-----------------------------------------------------------------------------
(* The kernel's checks                                                     *)

\* A range the kernel looks at: not empty, and no page of it is usable.
Guarded(range) ==
  /\ range.start \in Addresses /\ range.end \in Addresses /\ range.start < range.end
  /\ \A x \in Addresses : range.start <= x /\ x < range.end =>
       \E kind \in BootKinds : Told(x, kind)

\* All four ranges.
LEMMA TargetsGuarded ==
    Settled /\ Handoff =>
        Len(KernelTargets) = 4 /\ \A t \in 1..4 : Guarded(KernelTargets[t])
<1>OwnedGuarded.
    ASSUME NEW a, NEW kind, Owned(a, kind), NEW range, range.start = a.start, range.end = RangeEnd(a)
    PROVE  Guarded(range)
  <2> USE <1>OwnedGuarded
  <2>1. /\ a.start \in Addresses /\ RangeEnd(a) \in Nat /\ RangeEnd(a) <= MaxAddress
        /\ RangeEnd(a) % PageSize = 0 /\ a.start < RangeEnd(a)
    BY FirstPage, Zenon DEF Owned, Solid
  <2>2. RangeEnd(a) \in Addresses
    <3>1. RangeEnd(a) \in 0..MaxAddress
      BY <2>1, MemoryMapAssumption
    <3> QED
      BY <2>1, <3>1, Zenon DEF Addresses
  <2> QED
    BY <2>1, <2>2, Zenon DEF Guarded, Owned, Holds
\* The segments lie next to each other, so that the image has no page between them.
<1>ImageGuarded.
    ASSUME Settled
    PROVE  LET s == layout.segments
           IN  Guarded([start |-> s[1].start, end |-> RangeEnd(s[Len(s)])])
  <2> USE <1>ImageGuarded
  <2> DEFINE s == layout.segments
             n == Len(s)
             range == [start |-> s[1].start, end |-> RangeEnd(s[n])]
  <2>1. layout \in Layouts
    BY Zenon DEF Settled
  <2>2. n \in Nat \ {0} /\ \A k \in 1..(n - 1) : RangeEnd(s[k]) = s[k + 1].start
    BY <2>1, LayoutIs, Zenon
  <2>3. \A k \in 1..n : Owned(s[k], "kernel_image")
    BY ListsOwned, Zenon
  <2>4. range.start = s[1].start /\ range.end = RangeEnd(s[n])
    BY Zenon
  <2> HIDE DEF s, n, range
  <2>5. 1 \in 1..n /\ n \in 1..n
    BY <2>2
  <2>6. \A k \in 1..n : /\ s[k].start \in Nat /\ RangeEnd(s[k]) \in Nat
                        /\ s[k].start < RangeEnd(s[k])
    BY <2>3, Zenon DEF Owned, Solid
  <2>7. ASSUME NEW x \in Nat, s[1].start <= x, x < RangeEnd(s[n])
        PROVE  \E k \in 1..n : s[k].start <= x /\ x < RangeEnd(s[k])
    <3> DEFINE N == {k \in 1..n : x < RangeEnd(s[k])}
    <3>1. N \in SUBSET Nat /\ N # {}
      BY <2>2, <2>5, <2>7
    <3>2. PICK k \in N : \A m \in N : k <= m
      BY <3>1, LeastNumber, Zenon
    <3>3. k \in 1..n /\ x < RangeEnd(s[k])
      BY <3>2, Zenon
    <3>4. CASE k = 1
      BY <2>7, <3>3, <3>4, Zenon
    <3>5. CASE k # 1
      <4>1. PICK m \in 1..(n - 1) : k = m + 1
        <5>1. k - 1 \in 1..(n - 1) /\ k = (k - 1) + 1
          BY <2>2, <3>3, <3>5
        <5> QED
          BY <5>1, Zenon
      <4>2. m \in 1..n /\ ~(k <= m)
        BY <2>2, <4>1
      <4>3. m \notin N
        BY <3>2, <4>2, Zenon
      <4>4. ~(x < RangeEnd(s[m]))
        BY <4>2, <4>3, Zenon
      <4>5. RangeEnd(s[m]) = s[k].start
        BY <2>2, <4>1, Zenon
      <4>6. s[k].start <= x
        BY <2>6, <3>3, <4>4, <4>5
      <4> QED
        BY <3>3, <4>6, Zenon
    <3> QED
      BY <3>4, <3>5, Zenon
  <2>8. ASSUME NEW x \in Addresses, s[1].start <= x, x < RangeEnd(s[n])
        PROVE  Told(x, "kernel_image")
    <3>1. x \in Nat
      BY AddressIs, Zenon
    <3>2. PICK k \in 1..n : s[k].start <= x /\ x < RangeEnd(s[k])
      BY <2>7, <2>8, <3>1, Zenon
    <3> QED
      BY <2>3, <3>2, Zenon DEF Owned, Holds
  <2>9. Solid(s[1]) /\ Solid(s[n]) /\ "kernel_image" \in BootKinds
    BY <2>3, <2>5, Zenon DEF Owned
  <2>10. s[1].start \in Addresses /\ RangeEnd(s[n]) \in Addresses
    <3>1. RangeEnd(s[n]) \in 0..MaxAddress
      BY <2>9, MemoryMapAssumption DEF Solid
    <3> QED
      BY <2>9, <3>1, FirstPage, Zenon DEF Solid, Addresses
  <2>11. s[1].start < RangeEnd(s[n])
    <3> DEFINE N == {k \in 1..n : ~(s[1].start < RangeEnd(s[k]))}
    <3> SUFFICES ASSUME N # {} PROVE FALSE
      BY <2>5, Zenon
    <3>1. N \in SUBSET Nat
      BY <2>2
    <3>2. PICK k \in N : \A m \in N : k <= m
      BY <3>1, LeastNumber, Zenon
    <3>3. k \in 1..n /\ ~(s[1].start < RangeEnd(s[k]))
      BY <3>2, Zenon
    <3>4. k # 1
      BY <2>6, <3>3, Zenon
    <3>5. PICK m \in 1..(n - 1) : k = m + 1
      <4>1. k - 1 \in 1..(n - 1) /\ k = (k - 1) + 1
        BY <2>2, <3>3, <3>4
      <4> QED
        BY <4>1, Zenon
    <3>6. m \in 1..n /\ ~(k <= m)
      BY <2>2, <3>5
    <3>7. m \notin N
      BY <3>2, <3>6, Zenon
    <3>8. s[1].start < RangeEnd(s[m])
      BY <3>6, <3>7, Zenon
    <3>9. RangeEnd(s[m]) = s[k].start
      BY <2>2, <3>5, Zenon
    <3> HIDE DEF N
    <3>10. s[1].start \in Nat /\ s[k].start \in Nat /\ RangeEnd(s[k]) \in Nat
           /\ s[k].start < RangeEnd(s[k])
      BY <2>5, <2>6, <3>3, Zenon
    <3> QED
      BY <3>3, <3>8, <3>9, <3>10
  <2> QED
    BY <2>4, <2>8, <2>9, <2>10, <2>11, Zenon DEF Guarded, range, s, n
<1> HAVE Settled /\ Handoff
<1> DEFINE s == layout.segments
           image == [start |-> s[1].start, end |-> RangeEnd(s[Len(s)])]
           whole(a) == [start |-> a.start, end |-> RangeEnd(a)]
<1>1. KernelTargets = <<image, whole(layout.stack[1]), whole(layout.boot_info),
                        whole(layout.converted_map)>>
  BY Zenon DEF KernelTargets
<1>2. Guarded(image)
  BY <1>ImageGuarded, Zenon
<1>3. ASSUME NEW a, NEW kind, Owned(a, kind) PROVE Guarded(whole(a))
  <2>1. whole(a).start = a.start /\ whole(a).end = RangeEnd(a)
    BY Zenon
  <2> HIDE DEF whole
  <2> QED
    BY <1>3, <2>1, <1>OwnedGuarded, Zenon
<1> HIDE DEF image, whole
<1>4. Guarded(whole(layout.stack[1]))
  <2>1. layout \in Layouts
    BY Zenon DEF Settled
  <2>2. 1 \in 1..Len(layout.stack)
    BY <2>1, LayoutIs, Zenon DEF Handoff
  <2> QED
    BY <1>3, <2>2, ListsOwned, Zenon
<1>5. Guarded(whole(layout.boot_info)) /\ Guarded(whole(layout.converted_map))
  BY <1>3, FixedOwned, Zenon
<1>6. /\ KernelTargets[1] = image /\ KernelTargets[2] = whole(layout.stack[1])
      /\ KernelTargets[3] = whole(layout.boot_info)
      /\ KernelTargets[4] = whole(layout.converted_map) /\ Len(KernelTargets) = 4
  BY <1>1, Zenon
<1>7. \A t \in 1..4 : t = 1 \/ t = 2 \/ t = 3 \/ t = 4
  OBVIOUS
<1> QED
  BY <1>2, <1>4, <1>5, <1>6, <1>7, Zenon

-----------------------------------------------------------------------------
(* The inductive invariant                                                 *)

\* The kernel's walk: where it stands.
Walk ==
  /\ Handoff /\ target \in 1..4
  /\ seen \in Addresses /\ KernelTargets[target].start <= seen

BInv ==
  /\ layout \in Layouts /\ wanted = reservations_for(layout)
  /\ IInv /\ DInv
  /\ stage \in {"convert", "evidence", "verified", "walking", "booted"}
  /\ stage # "convert" => phase = "done"
  /\ stage = "walking" => Walk

LEMMA BootInitInv == BootInit => BInv
<1> SUFFICES ASSUME BootInit PROVE BInv
  BY Zenon
<1>1. IInv /\ phase \in {"convert", "push"}
  BY InitInv, Zenon DEF BootInit, Init, Start, FirstPhase
<1>2. DInv
  BY <1>1, Zenon DEF DInv
<1> QED
  BY <1>1, <1>2, Zenon DEF BootInit, BInv

\* No step of the conversion changes what was asked for.
LEMMA WantedStays ==
  ASSUME [Next]_vars
  PROVE  wanted' = wanted
<1>1. ASSUME NEW reason, Fail(reason) PROVE wanted' = wanted
  BY <1>1, Zenon DEF Fail, inputs
<1>2. CASE Reserve
  <2>1. UNCHANGED inputs \/ \E reason : Fail(reason)
    BY <1>2, Zenon DEF Reserve, push, FinishBegin, FinishSort, finish
  <2> QED
    BY <1>1, <2>1, Zenon DEF inputs
<1>3. CASE Normalize
  <2>1. UNCHANGED inputs \/ \E reason : Fail(reason)
    BY <1>3, Zenon DEF Normalize, Convert, insertion_sort, validate_non_overlapping,
       merge_base_descriptors, NormalizeEnd
  <2> QED
    BY <1>1, <2>1 DEF inputs
<1>4. CASE Apply
  <2>1. UNCHANGED inputs \/ \E reason : Fail(reason)
    BY <1>4, Zenon DEF Apply, ApplyBegin, ApplyReservation, ApplyRest, ApplyEnd
  <2> QED
    BY <1>1, <2>1 DEF inputs
<1>5. CASE UNCHANGED vars
  BY <1>5, Zenon DEF vars, inputs
<1> QED
  BY <1>2, <1>3, <1>4, <1>5, Zenon DEF Next, Ended

LEMMA ConvertMapKeeps ==
  ASSUME BInv, ConvertMap
  PROVE  BInv'
<1>1. stage = "convert" /\ Next /\ layout' = layout /\ stage' = stage
  BY Zenon DEF ConvertMap
<1>2. IInv /\ DInv
  BY Zenon DEF BInv
<1>3. IInv'
  BY <1>1, <1>2, StepInv, Zenon
<1>4. DInv' /\ wanted' = wanted
  BY <1>1, <1>2, NextInside, WantedStays, Zenon
<1>5. reservations_for(layout') = reservations_for(layout)
  BY <1>1, Zenon
<1> QED
  BY <1>1, <1>3, <1>4, <1>5 DEF BInv

\* A step of the checks leaves the map alone.
LEMMA StageKeeps ==
  ASSUME BInv, phase = "done", UNCHANGED <<vars, layout>>,
         stage' \in {"evidence", "verified", "walking", "booted"},
         stage' = "walking" => Walk'
  PROVE  BInv'
<1>1. IInv /\ DInv
  BY Zenon DEF BInv
<1>2. UNCHANGED vars /\ layout' = layout
  BY Zenon
<1>3. IInv' /\ DInv' /\ wanted' = wanted
  BY <1>1, <1>2, StepInv, NextInside, WantedStays, Zenon
<1>4. phase' = phase
  BY <1>2, Zenon DEF vars
<1>5. layout' \in Layouts /\ wanted' = reservations_for(layout')
  BY <1>2, <1>3, Zenon DEF BInv
<1>6. stage' \in {"convert", "evidence", "verified", "walking", "booted"}
  BY Zenon
<1> QED
  BY <1>3, <1>4, <1>5, <1>6, Zenon DEF BInv

LEMMA SettledIs ==
  ASSUME BInv, phase = "done"
  PROVE  Settled
  BY Zenon DEF BInv, Settled

LEMMA ChecksKeep ==
    BInv /\ (CheckEvidence \/ VerifyTables) =>
        BInv'
\* Its first page has a descriptor that lies inside it.
<1>OwnDescriptor.
    ASSUME IInv, DInv, phase = "done", NEW k \in 1..Len(wanted), wanted[k].source # "Framebuffer"
    PROVE  \E q \in 1..Len(output) : output[q].kind = wanted[k].kind /\ Within(output[q], wanted[k])
  <2> USE <1>OwnDescriptor
  <2>1. Solid(wanted[k]) /\ wanted[k].kind \in BootKinds /\ Inside(output, wanted)
    BY WantedIs, Zenon
  <2> DEFINE x == wanted[k].start
  <2>2. x \in Addresses /\ Holds(wanted[k], x)
    BY <2>1, FirstPage, Zenon
  <2> HIDE DEF x
  <2>3. PICK q \in 1..Len(output) : Holds(output[q], x) /\ output[q].kind = wanted[k].kind
    BY <2>2, PageTold, Zenon DEF Told
  <2>4. PICK m \in 1..Len(wanted) : Within(output[q], wanted[m])
    BY <2>1, <2>3, Zenon DEF Inside
  <2>5. Holds(wanted[m], x)
    <3>1. Solid(wanted[m]) /\ Solid(output[q])
      <4>1. output[q] \in Descriptors /\ Well(output[q])
        BY WantedIs DEF AllWell
      <4> QED
        BY <4>1, WantedIs, SolidDescriptor, Zenon
    <3>2. x \in Nat
      BY <2>2, MemoryMapAssumption DEF Addresses
    <3> QED
      BY <2>3, <2>4, <3>1, <3>2, SMT DEF Within, Holds, Solid
  <2>6. m = k
    BY <2>2, <2>5, WantedApart, Zenon
  <2> QED
    BY <2>3, <2>4, <2>6, Zenon
\* Two reservations have two descriptors.
<1>OwnDescriptors.
    ASSUME IInv, DInv, phase = "done", NEW k \in 1..Len(wanted), NEW m \in 1..Len(wanted), k # m,
           NEW q \in 1..Len(output), NEW p \in 1..Len(output),
           Within(output[q], wanted[k]), Within(output[p], wanted[m])
    PROVE  q # p
  <2> USE <1>OwnDescriptors
  <2> SUFFICES ASSUME q = p PROVE FALSE
    BY Zenon
  <2>1. Solid(output[q])
    <3>1. output[q] \in Descriptors /\ Well(output[q])
      BY WantedIs DEF AllWell
    <3> QED
      BY <3>1, SolidDescriptor, Zenon
  <2> DEFINE x == output[q].start
  <2>2. x \in Addresses /\ Holds(output[q], x)
    BY <2>1, FirstPage, Zenon
  <2>3. Solid(wanted[k]) /\ Solid(wanted[m])
    BY WantedIs, Zenon
  <2>4. Holds(wanted[k], x) /\ Holds(wanted[m], x)
    BY <2>1, <2>3 DEF Holds, Within, Solid
  <2> QED
    BY <2>2, <2>4, WantedApart, Zenon
\* The three map buffers have three descriptors.
<1>ThreeBuffers.
    ASSUME Settled
    PROVE  Cardinality(Of("boot_memory_map")) >= 3
  <2> USE <1>ThreeBuffers
  <2> DEFINE n == Len(layout.segments)
             S == Of("boot_memory_map")
  <2>1. layout \in Layouts /\ wanted = reservations_for(layout) /\ IInv /\ DInv /\ phase = "done"
    BY Zenon DEF Settled
  <2>2. n \in Nat /\ Len(layout.stack) \in Nat /\ Len(FrameRuns(layout.frames)) \in Nat
    BY <2>1, LayoutIs, Zenon
  <2>3. \A m \in 1..5 : n + m \in 1..Len(wanted) /\ wanted[n + m] = Fixed(layout)[m]
    BY <2>1, <2>2, Reserved, Zenon
  <2> HIDE DEF n
  <2>4. /\ Fixed(layout)[1].kind = "boot_memory_map" /\ Fixed(layout)[1].source # "Framebuffer"
        /\ Fixed(layout)[2].kind = "boot_memory_map" /\ Fixed(layout)[2].source # "Framebuffer"
        /\ Fixed(layout)[3].kind = "boot_memory_map" /\ Fixed(layout)[3].source # "Framebuffer"
    BY Zenon DEF Fixed, ReservationOf
  <2>5. PICK a, b, c : a = n + 1 /\ b = n + 2 /\ c = n + 3
    BY Zenon
  <2>6. /\ a \in 1..Len(wanted) /\ wanted[a].kind = "boot_memory_map" /\ wanted[a].source # "Framebuffer"
        /\ b \in 1..Len(wanted) /\ wanted[b].kind = "boot_memory_map" /\ wanted[b].source # "Framebuffer"
        /\ c \in 1..Len(wanted) /\ wanted[c].kind = "boot_memory_map" /\ wanted[c].source # "Framebuffer"
    <3>1. 1 \in 1..5 /\ 2 \in 1..5 /\ 3 \in 1..5
      OBVIOUS
    <3> QED
      BY <2>3, <2>4, <2>5, <3>1
  <2>7. a # b /\ a # c /\ b # c
    BY <2>2, <2>5 DEF n
  <2>8. PICK p \in 1..Len(output) : output[p].kind = "boot_memory_map" /\ Within(output[p], wanted[a])
    BY <2>1, <2>6, <1>OwnDescriptor, Zenon
  <2>9. PICK q \in 1..Len(output) : output[q].kind = "boot_memory_map" /\ Within(output[q], wanted[b])
    BY <2>1, <2>6, <1>OwnDescriptor, Zenon
  <2>10. PICK r \in 1..Len(output) : output[r].kind = "boot_memory_map" /\ Within(output[r], wanted[c])
    BY <2>1, <2>6, <1>OwnDescriptor, Zenon
  <2>11. p # q /\ p # r /\ q # r
    BY <2>1, <2>6, <2>7, <2>8, <2>9, <2>10, <1>OwnDescriptors, Zenon
  <2>12. p \in S /\ q \in S /\ r \in S
    BY <2>8, <2>9, <2>10, Zenon DEF Of
  <2>13. IsFiniteSet(S)
    <3>1. Len(output) \in Nat
      BY <2>1, WantedIs
    <3>2. IsFiniteSet(1..Len(output)) /\ S \in SUBSET (1..Len(output))
      BY <3>1, FS_Interval DEF Of
    <3> QED
      BY <3>2, FS_Subset, Zenon
  <2> HIDE DEF S
  <2>14. /\ IsFiniteSet({p}) /\ Cardinality({p}) = 1
         /\ 1 + 1 = 2 /\ 2 + 1 = 3
    <3>1. 1 + 1 = 2 /\ 2 + 1 = 3
      OBVIOUS
    <3> QED
      BY <3>1, FS_Singleton, Zenon
  <2>15. IsFiniteSet({p} \cup {q}) /\ Cardinality({p} \cup {q}) = 2
    <3>1. q \notin {p}
      BY <2>11, Zenon
    <3>2. IsFiniteSet({p} \cup {q}) /\ Cardinality({p} \cup {q}) = Cardinality({p}) + 1
      BY <2>14, <3>1, FS_AddElement, Zenon
    <3> QED
      BY <2>14, <3>2, Zenon
  <2>16. /\ IsFiniteSet(({p} \cup {q}) \cup {r})
         /\ Cardinality(({p} \cup {q}) \cup {r}) = 3
    <3>1. r \notin {p} \cup {q}
      BY <2>11, Zenon
    <3>2. /\ IsFiniteSet(({p} \cup {q}) \cup {r})
          /\ Cardinality(({p} \cup {q}) \cup {r}) = Cardinality({p} \cup {q}) + 1
      BY <2>15, <3>1, FS_AddElement, Zenon
    <3> QED
      BY <2>14, <2>15, <3>2, Zenon
  <2>17. ({p} \cup {q}) \cup {r} \in SUBSET S
    BY <2>12, Zenon
  <2>18. Cardinality(({p} \cup {q}) \cup {r}) <= Cardinality(S)
    BY <2>13, <2>17, FS_Subset, Zenon
  <2>19. Cardinality(S) \in Nat
    BY <2>13, FS_CardinalityType, Zenon
  <2> QED
    BY <2>16, <2>18, <2>19 DEF S
<1>EvidenceHolds.
    ASSUME Settled
    PROVE  reservation_evidence
  <2> USE <1>EvidenceHolds
  <2>1. layout \in Layouts
    BY Zenon DEF Settled
  <2>2. 1 \in 1..Len(layout.segments)
    BY <2>1, LayoutIs
  <2>3. Of("kernel_image") # {}
    BY <2>2, ListsOwned, OwnedHas, Zenon
  <2>4. Of("boot_info") # {}
    BY FixedOwned, OwnedHas, Zenon
  <2>5. ASSUME Handoff PROVE Of("bootstrap_stack") # {} /\ Of("page_table") # {}
    <3>1. 1 \in 1..Len(layout.stack) /\ 1 \in 1..Len(layout.frames)
      BY <2>1, <2>5, LayoutIs, Zenon DEF Handoff
    <3>2. Of("bootstrap_stack") # {}
      BY <3>1, ListsOwned, OwnedHas, Zenon
    <3>3. Told(layout.frames[1], "page_table")
      BY <3>1, FramesOwned, Zenon
    <3>4. Of("page_table") # {}
      BY <3>3, Zenon DEF Told, Of
    <3> QED
      BY <3>2, <3>4, Zenon
  <2> QED
    BY <2>3, <2>4, <2>5, <1>ThreeBuffers, Zenon DEF reservation_evidence
<1>TablesVerified.
    ASSUME Settled
    PROVE  verify_page_table_reservations
  <2> USE <1>TablesVerified
  <2> SUFFICES ASSUME NEW k \in 1..Len(layout.frames)
               PROVE  Covering(layout.frames[k]) # {} /\ KindAt(layout.frames[k]) = "page_table"
    BY Zenon DEF verify_page_table_reservations
  <2>1. Told(layout.frames[k], "page_table")
    BY FramesOwned, Zenon
  <2> QED
    BY <2>1, ToldKind, Zenon
<1> HAVE BInv /\ (CheckEvidence \/ VerifyTables)
<1>1. phase = "done" /\ UNCHANGED <<vars, layout>>
  BY Zenon DEF CheckEvidence, VerifyTables, Answer, BInv
<1>2. Settled
  BY <1>1, SettledIs, Zenon
<1>3. stage' \in {"evidence", "verified"}
  BY <1>2, <1>EvidenceHolds, <1>TablesVerified, Zenon DEF CheckEvidence, VerifyTables, Answer
<1> QED
  BY <1>1, <1>3, StageKeeps

\* A range that the kernel begins with.
LEMMA RangeBegins ==
  ASSUME Settled, Handoff, NEW t \in 1..4, BeginRange(t), layout' = layout
  PROVE  stage' = "walking" /\ Walk'
<1>1. Guarded(KernelTargets[t])
  BY TargetsGuarded, Zenon
<1>2. stage' = "walking" /\ target' = t /\ seen' = KernelTargets[t].start
  BY <1>1, Zenon DEF Guarded, BeginRange
<1>3. KernelTargets' = KernelTargets /\ (Handoff' <=> Handoff)
  BY Zenon DEF KernelTargets, Handoff
<1>4. seen' \in Addresses /\ seen' <= seen'
  <2>1. seen' \in Addresses
    BY <1>1, <1>2, Zenon DEF Guarded
  <2> QED
    BY <2>1, AddressIs
<1>5. KernelTargets'[target'].start <= seen'
  BY <1>2, <1>3, <1>4, Zenon
<1> QED
  BY <1>2, <1>3, <1>4, <1>5, Zenon DEF Walk

LEMMA KernelValidatesKeeps ==
    BInv /\ KernelValidates =>
        BInv'
<1>DescriptorsValid.
    ASSUME Settled
    PROVE  validate_boot_state
  <2> USE <1>DescriptorsValid
  <2>1. output \in Seq(Descriptors) /\ AllWell(output)
    BY WantedIs, Zenon DEF Settled
  <2>2. output # <<>>
    <3>1. Of("boot_info") # {}
      BY FixedOwned, OwnedHas, Zenon
    <3> QED
      BY <3>1 DEF Of
  <2>3. ASSUME NEW k \in 1..Len(output) PROVE validate_range(output[k]) = "none"
    <3>1. output[k] \in Descriptors
      BY <2>1
    <3>2. Well(output[k])
      BY <2>1, Zenon DEF AllWell
    <3> QED
      BY <3>1, <3>2, ValidIsWell, TypesOfLists, Zenon
  <2> QED
    BY <2>2, <2>3, Zenon DEF validate_boot_state
<1> HAVE BInv /\ KernelValidates
<1>1. stage = "verified" /\ Handoff /\ UNCHANGED <<vars, layout>>
  BY Zenon DEF KernelValidates
<1>2. phase = "done"
  BY <1>1, Zenon DEF BInv
<1>3. Settled
  BY <1>2, SettledIs, Zenon
<1>4. BeginRange(1)
  BY <1>3, <1>DescriptorsValid, Zenon DEF KernelValidates
<1>5. stage' = "walking" /\ Walk'
  <2>1. 1 \in 1..4 /\ layout' = layout
    BY <1>1
  <2> QED
    BY <1>1, <1>3, <1>4, <2>1, RangeBegins, Zenon
<1> QED
  BY <1>1, <1>2, <1>5, StageKeeps

\* A round of the kernel's walk.
LEMMA CoveredKeeps ==
  ASSUME BInv, covered_non_usable
  PROVE  BInv'
<1>1. stage = "walking" /\ UNCHANGED <<vars, layout, target>> /\ seen < KernelTargets[target].end
  BY Zenon DEF covered_non_usable
<1>2. phase = "done" /\ Walk
  BY <1>1, Zenon DEF BInv
<1>3. Settled
  BY <1>2, SettledIs, Zenon
<1> DEFINE range == KernelTargets[target]
<1>4. Guarded(range)
  BY <1>2, <1>3, TargetsGuarded, Zenon DEF Walk
<1>5. PICK kind \in BootKinds : Told(seen, kind)
  BY <1>1, <1>2, <1>4, Zenon DEF Guarded, Walk
<1>6. PICK q \in 1..Len(output) : /\ Covering(seen) # {} /\ Min(Covering(seen)) = q
                                  /\ KindAt(seen) = kind /\ Holds(output[q], seen)
  BY <1>5, ToldKind, Zenon
<1>7. kind # "usable"
  BY Zenon DEF BootKinds
<1>8. seen' = Minimum(RangeEnd(output[q]), range.end) /\ stage' = "walking"
  BY <1>1, <1>6, <1>7, Zenon DEF covered_non_usable
<1>9. Solid(output[q])
  <2>1. output[q] \in Descriptors /\ Well(output[q])
    BY <1>3, WantedIs DEF AllWell, Settled
  <2> QED
    BY <2>1, SolidDescriptor, Zenon
<1>10. range.start \in Nat /\ range.end \in Addresses /\ range.end \in Nat /\ seen \in Nat
  BY <1>2, <1>4, AddressIs, Zenon DEF Guarded, Walk
<1>11. RangeEnd(output[q]) \in Addresses /\ RangeEnd(output[q]) \in Nat /\ seen < RangeEnd(output[q])
  <2>1. RangeEnd(output[q]) \in 0..MaxAddress
    BY <1>9, MemoryMapAssumption DEF Solid
  <2> QED
    BY <1>6, <1>9, <2>1, Zenon DEF Solid, Addresses, Holds
<1>12. seen' \in {RangeEnd(output[q]), range.end}
  BY <1>8, Zenon DEF Minimum
<1>13. seen' \in Addresses
  BY <1>10, <1>11, <1>12, Zenon
<1> HIDE DEF range
<1>14. range.start <= seen'
  <2>1. range.start <= seen /\ seen < range.end
    BY <1>1, <1>2, Zenon DEF Walk, range
  <2> QED
    BY <1>10, <1>11, <1>12, <2>1
<1>15. KernelTargets' = KernelTargets /\ (Handoff' <=> Handoff) /\ target' = target
  BY <1>1, Zenon DEF KernelTargets, Handoff
<1>16. Walk'
  BY <1>2, <1>13, <1>14, <1>15, Zenon DEF Walk, range
<1>17. UNCHANGED <<vars, layout>>
  BY <1>1, Zenon
<1> QED
  BY <1>2, <1>8, <1>16, <1>17, StageKeeps

LEMMA NextRangeKeeps ==
  ASSUME BInv, NextRange
  PROVE  BInv'
<1>1. stage = "walking" /\ UNCHANGED <<vars, layout>>
  BY Zenon DEF NextRange
<1>2. phase = "done" /\ Walk
  BY <1>1, Zenon DEF BInv
<1>3. Settled /\ Handoff /\ target \in 1..4
  BY <1>2, SettledIs, Zenon DEF Walk
<1>4. Len(KernelTargets) = 4
  BY <1>3, TargetsGuarded, Zenon
<1>5. CASE target < 4
  <2>1. BeginRange(target + 1)
    BY <1>4, <1>5, Zenon DEF NextRange
  <2>2. target + 1 \in 1..4 /\ layout' = layout
    BY <1>1, <1>3, <1>5
  <2>3. stage' = "walking" /\ Walk'
    BY <1>3, <2>1, <2>2, RangeBegins, SMT
  <2> QED
    BY <1>1, <1>2, <2>3, StageKeeps
<1>6. CASE ~(target < 4)
  <2>1. stage' = "booted"
    BY <1>4, <1>6, Zenon DEF NextRange
  <2> QED
    BY <1>1, <1>2, <2>1, StageKeeps
<1> QED
  BY <1>5, <1>6, Zenon

LEMMA BootNextInv == BInv /\ [BootNext]_bootVars => BInv'
<1> SUFFICES ASSUME BInv, [BootNext]_bootVars PROVE BInv'
  BY Zenon
<1>1. CASE ConvertMap
  BY <1>1, ConvertMapKeeps, Zenon
<1>2. CASE CheckEvidence \/ VerifyTables
  BY <1>2, ChecksKeep, Zenon
<1>3. CASE KernelValidates
  BY <1>3, KernelValidatesKeeps
<1>4. CASE covered_non_usable
  BY <1>4, CoveredKeeps
<1>5. CASE NextRange
  BY <1>5, NextRangeKeeps
<1>6. CASE UNCHANGED bootVars
  <2>1. UNCHANGED vars /\ layout' = layout /\ stage' = stage /\ target' = target /\ seen' = seen
    BY <1>6, Zenon DEF bootVars
  <2>2. IInv' /\ DInv' /\ wanted' = wanted
    BY <2>1, StepInv, NextInside, WantedStays, Zenon DEF BInv
  <2>3. phase' = phase
    BY <2>1, Zenon DEF vars
  <2>4. Walk' <=> Walk
    BY <2>1, Zenon DEF Walk, KernelTargets, Handoff
  <2>5. layout' \in Layouts /\ wanted' = reservations_for(layout')
    BY <2>1, <2>2, Zenon DEF BInv
  <2> QED
    BY <2>1, <2>2, <2>3, <2>4, <2>5, Zenon DEF BInv
<1> QED
  BY <1>1, <1>2, <1>3, <1>4, <1>5, <1>6, Zenon DEF BootNext, Finished

-----------------------------------------------------------------------------
(* The theorem                                                             *)

LEMMA AllLabelled ==
    Settled =>
        EverythingOwnedIsLabelled
<1>OwnedLabelled.
    ASSUME NEW a, NEW kind, Owned(a, kind)
    PROVE  Labelled(a, kind)
  BY <1>OwnedLabelled, Zenon DEF Owned, Told, Labelled
<1> HAVE Settled
<1>1. /\ \A k \in 1..Len(layout.segments) : Labelled(layout.segments[k], "kernel_image")
      /\ \A k \in 1..Len(layout.stack) : Labelled(layout.stack[k], "bootstrap_stack")
  BY ListsOwned, <1>OwnedLabelled, Zenon
<1>2. ASSUME NEW k \in 1..Len(layout.frames)
      PROVE  Labelled([start |-> layout.frames[k], pages |-> 1], "page_table")
  <2> DEFINE a == layout.frames[k]
             d == [start |-> a, pages |-> 1]
  <2>1. a \in Addresses /\ Told(a, "page_table")
    BY FramesOwned, Zenon
  <2>2. ASSUME NEW x \in Addresses, Holds(d, x) PROVE x = a
    <3>1. x \in Nat /\ a \in Nat /\ x % PageSize = 0 /\ a % PageSize = 0
      BY <2>1, AddressIs, Zenon
    <3>2. a <= x /\ x < a + 1 * PageSize
      BY <2>2, Zenon DEF Holds, RangeEnd
    <3>3. 1 * PageSize = PageSize
      BY MemoryMapAssumption
    <3> HIDE DEF a
    <3>4. ASSUME a < x PROVE FALSE
      <4>1. a + PageSize <= x
        BY <3>1, <3>4, PageBelow, Zenon
      <4> QED
        BY <3>1, <3>2, <3>3, <4>1, MemoryMapAssumption
    <3> QED
      BY <3>1, <3>2, <3>4
  <2> HIDE DEF d
  <2>3. Labelled(d, "page_table")
    BY <2>1, <2>2, Zenon DEF Labelled, Told
  <2> QED
    BY <2>3, Zenon DEF d
<1>3. /\ Labelled(layout.boot_info, "boot_info")
      /\ Labelled(layout.raw_map, "boot_memory_map")
      /\ Labelled(layout.conversion_scratch, "boot_memory_map")
      /\ Labelled(layout.converted_map, "boot_memory_map")
  BY FixedOwned, <1>OwnedLabelled, Zenon
<1> QED
  BY <1>1, <1>2, <1>3, Zenon DEF EverythingOwnedIsLabelled

\* For every layout of the loader's allocations and every map the firmware may
\* report: a map that apply_reservations produced passes reservation_evidence,
\* verify_page_table_reservations and the kernel's validate_boot_state, whose walk
\* never meets a hole or a usable page, and labels all the loader still owns.
THEOREM MapIsTrustworthy == BootSpec => []KernelCanTrustTheMap
<1>1. BInv => KernelCanTrustTheMap
  <2> SUFFICES ASSUME BInv PROVE KernelCanTrustTheMap
    BY Zenon
  <2>1. ChecksConfirmTheMap
    BY Zenon DEF BInv, ChecksConfirmTheMap
  <2>2. EverythingOwnedIsLabelled
    <3>1. CASE stage \in {"verified", "walking", "booted"}
      BY <3>1, SettledIs, AllLabelled DEF BInv
    <3>2. CASE stage \notin {"verified", "walking", "booted"}
      BY <3>2, Zenon DEF EverythingOwnedIsLabelled
    <3> QED
      BY <3>1, <3>2, Zenon
  <2> QED
    BY <2>1, <2>2, Zenon DEF KernelCanTrustTheMap
<1> QED
  BY <1>1, BootInitInv, BootNextInv, PTL DEF BootSpec
=============================================================================
