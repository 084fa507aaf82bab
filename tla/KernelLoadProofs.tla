--------------------------- MODULE KernelLoadProofs ---------------------------
(***************************************************************************)
(* For every page size, window, number of segments and image: LoadPlan      *)
(* accepts exactly the loadable images, and what LoadedKernel describes is  *)
(* what the file asks for, whichever bytes changed on the way.              *)
(*                                                                         *)
(* IInv says how far each loop has got.  Planned: the items so far are      *)
(* those of the first segments, each sound and apart from the others, and   *)
(* total_page_bytes counts their distinct pages.  Recorded: the same of the *)
(* fields of LoadedKernel.  Placed: what the bytes of file and targets are, *)
(* exactly while nothing has changed, and otherwise up to a changed byte of *)
(* the file, which source_is_unchanged finds.                               *)
(***************************************************************************)
EXTENDS KernelLoad, WellFoundedInduction, TLAPS

Seg(i) == image.segments[i]
Low(s) == s.target \div PageSize
High(s) == (s.target + s.memory_size - 1) \div PageSize

\* A segment that an accepted plan may hold.
Sound(s) ==
  /\ s.memory_size > 0
  /\ s.file_size <= s.memory_size
  /\ s.file_offset + s.file_size <= image.source.file_length
  /\ s.target % PageSize = 0
  /\ \A page \in PagesOf(s) :
       /\ page * PageSize >= BOOTSTRAP_WINDOW_START
       /\ (page + 1) * PageSize <= BOOTSTRAP_WINDOW_END
  /\ PagesOf(s) \cap SourcePages = {}

\* The pages of the first n segments.
PagesUpTo(n) == UNION {PagesOf(Seg(i)) : i \in 1..n}

Loading ==
  {"zeroing", "copying", "verifying", "checking", "recording", "recorded", "loaded"}

Planned ==
  /\ items \in Seq([source_offset: Nat, file_size: Nat, memory_size: Nat,
                    target_start: Nat, target_end: Nat, page_start: Nat, page_count: Nat,
                    flags: 0..7, page_length: Nat, copy_offset: Nat])
  /\ Len(items) <= Len(image.segments) /\ Len(items) <= MAX_LOAD_ITEMS
  /\ Len(items) > 0 => source_page_end <= MaxAddress
  /\ \A i \in 1..Len(items) :
       /\ items[i] = make_item(Seg(i)) /\ Sound(Seg(i))
       /\ \A j \in 1..Len(items) \ {i} : PagesOf(Seg(i)) \cap PagesOf(Seg(j)) = {}
  /\ total_page_bytes = PageSize * Cardinality(PagesUpTo(Len(items)))

Complete ==
  /\ Len(items) = Len(image.segments) /\ Len(items) > 0
  /\ \E i \in 1..Len(items) : HoldsEntry(items[i])

Progress ==
  /\ phase \in {"planning", "refused", "failed"} \cup Loading
  /\ phase = "planning" => cursor = Len(items)
  /\ phase = "refused" => ~Loadable /\ reason # "TotalSizeExceeded"
  /\ phase \in Loading => Complete /\ cursor \in 0..(Len(items) - 1)
  /\ phase \in {"checking", "recorded", "loaded"} => cursor = 0
  /\ phase = "failed" => faults > 0 \/ reason = "Backend"
  /\ faults \in Nat

\* What LoadedKernel records of the first n items.
Recorded(n) ==
  /\ n = 0 => loaded = Unrecorded
  /\ loaded.total_pages = Cardinality(PagesUpTo(n))
  /\ n > 0 =>
       /\ \E i \in 1..n : loaded.start = items[i].page_start
       /\ \E i \in 1..n : loaded.end = page_end(items[i])
       /\ \A i \in 1..n : loaded.start <= items[i].page_start
                          /\ loaded.end >= page_end(items[i])
  /\ (\E i \in 1..n : HoldsEntry(items[i])) =>
       loaded.entry_segment_index \in 1..n /\ HoldsEntry(items[loaded.entry_segment_index])

Recording ==
  /\ phase \in {"planning", "zeroing", "copying", "verifying", "checking"} => Recorded(0)
  /\ phase = "recording" => Recorded(cursor)
  /\ phase \in {"recorded", "loaded"} => Recorded(Len(items))

InFile(a) ==
  a >= image.source.page_start /\ a < image.source.page_start + image.source.file_length
InItem(i, a) == a >= items[i].page_start /\ a < page_end(items[i])
FromFile(i, a) == a - items[i].target_start < items[i].file_size
OffsetOf(i, a) == items[i].source_offset + (a - items[i].target_start)

Zeroed(i) == \A a \in Addresses : InItem(i, a) => memory[a] = 0
Copied(i) ==
  \A a \in Addresses : InItem(i, a) =>
    memory[a] = IF FromFile(i, a) THEN FileByte(OffsetOf(i, a)) ELSE 0
\* As verify_target saw it; a byte of the file may have changed since.
Verified(i) ==
  \A a \in Addresses : InItem(i, a) =>
    IF FromFile(i, a)
      THEN memory[a] = Source(OffsetOf(i, a)) \/ Source(OffsetOf(i, a)) = Garbage
      ELSE memory[a] = 0

Placed ==
  /\ memory \in [Addresses -> Int]
  /\ \A a \in Addresses : InFile(a) =>
       memory[a] \in {FileByte(a - image.source.page_start), Garbage}
  /\ faults = 0 \/ phase \in {"recording", "recorded", "loaded"} =>
       \A a \in Addresses : InFile(a) => memory[a] = FileByte(a - image.source.page_start)
  /\ \A a \in Addresses :
       ~InFile(a) /\ (phase \in Loading => \A i \in 1..Len(items) : ~InItem(i, a))
         => memory[a] = Stale
  /\ faults = 0 /\ phase = "zeroing" => \A i \in 1..cursor : Zeroed(i)
  /\ faults = 0 /\ phase = "copying" =>
       \A i \in 1..Len(items) : IF i <= cursor THEN Copied(i) ELSE Zeroed(i)
  /\ faults = 0 /\ phase \in {"verifying", "checking"} => \A i \in 1..Len(items) : Copied(i)
  /\ phase = "verifying" => \A i \in 1..cursor : Verified(i)
  /\ phase = "checking" => \A i \in 1..Len(items) : Verified(i)
  /\ phase \in {"recording", "recorded", "loaded"} => \A i \in 1..Len(items) : Copied(i)

IInv ==
  /\ image \in Images
  /\ Planned
  /\ Progress
  /\ Recording
  /\ phase \notin {"refused", "failed"} => Placed

-----------------------------------------------------------------------------
(* Pages and bytes.                                                         *)

LEMMA SizeIs == PageSize \in Nat /\ PageSize > 0
BY KernelLoadAssumption

LEMMA Division ==
  ASSUME NEW P \in Nat, P > 0, NEW r \in Nat
  PROVE  r \div P \in Nat /\ r % P \in 0..P - 1 /\ r = P * (r \div P) + (r % P)
  BY Z3

\* Multiples of the page size are ordered as what they are multiples of.
LEMMA Scaling ==
  ASSUME NEW p \in Nat, NEW q \in Nat
  PROVE  /\ PageSize * p \in Nat
         /\ p <= q <=> PageSize * p <= PageSize * q
         /\ p < q <=> PageSize * p + PageSize <= PageSize * q
         /\ PageSize * (p + 1) = PageSize * p + PageSize
         /\ p * PageSize = PageSize * p
<1>1. PageSize * p \in Nat /\ PageSize * q \in Nat /\ PageSize * (p + 1) = PageSize * p + PageSize
      /\ p * PageSize = PageSize * p
  BY SizeIs
<1>2. ASSUME p < q PROVE PageSize * p + PageSize <= PageSize * q
  <2>1. PICK k \in Nat : q = p + 1 + k
    <3>1. q - p - 1 \in Nat
      BY <1>2
    <3> QED
      BY <3>1
  <2>2. PageSize * (p + 1 + k) = PageSize * p + PageSize + PageSize * k /\ PageSize * k \in Nat
    BY SizeIs
  <2> QED
    BY <1>1, <2>1, <2>2, SizeIs
<1>3. ASSUME q < p PROVE PageSize * q + PageSize <= PageSize * p
  <2>1. PICK k \in Nat : p = q + 1 + k
    <3>1. p - q - 1 \in Nat
      BY <1>3
    <3> QED
      BY <3>1
  <2>2. PageSize * (q + 1 + k) = PageSize * q + PageSize + PageSize * k /\ PageSize * k \in Nat
    BY SizeIs
  <2> QED
    BY <1>1, <2>1, <2>2, SizeIs
<1>4. p = q => PageSize * p = PageSize * q
  OBVIOUS
<1> QED
  BY <1>1, <1>2, <1>3, <1>4, SizeIs

\* A multiple of the page size is the start of its page.
LEMMA PageStart ==
  ASSUME NEW p \in Nat
  PROVE  (PageSize * p) % PageSize = 0 /\ (PageSize * p) \div PageSize = p
  BY SizeIs, Z3

LEMMA Aligned ==
  ASSUME NEW a \in Nat, a % PageSize = 0
  PROVE  a \div PageSize \in Nat /\ a = PageSize * (a \div PageSize)
<1>1. a = PageSize * (a \div PageSize) + (a % PageSize) /\ a \div PageSize \in Nat
  BY SizeIs, Division
<1>2. PageSize * (a \div PageSize) \in Nat
  BY <1>1, Scaling
<1> QED
  BY <1>1, <1>2

\* An address lies on one of the pages p to q if and only if it lies between
\* the first byte of p and the end of q.
LEMMA OnPages ==
  ASSUME NEW a \in Nat, NEW p \in Nat, NEW q \in Nat
  PROVE  a \div PageSize \in p..q <=> a >= PageSize * p /\ a < PageSize * (q + 1)
<1> DEFINE d == a \div PageSize
<1>1. d \in Nat /\ a % PageSize \in 0..(PageSize - 1) /\ a = PageSize * d + (a % PageSize)
  BY SizeIs, Division
<1> HIDE DEF d
<1>2. /\ PageSize * p \in Nat /\ PageSize * q \in Nat /\ PageSize * d \in Nat
      /\ PageSize * (q + 1) = PageSize * q + PageSize
      /\ (d < p <=> PageSize * d + PageSize <= PageSize * p)
      /\ (q < d <=> PageSize * q + PageSize <= PageSize * d)
  BY <1>1, Scaling
<1>3. d \in p..q <=> ~(d < p) /\ ~(q < d)
  BY <1>1
<1> QED
  BY <1>1, <1>2, <1>3, SizeIs DEF d

\* Ranges of pages are disjoint if and only if their bytes do not overlap.
LEMMA PagesMeet ==
  ASSUME NEW p \in Nat, NEW q \in Nat, NEW r \in Nat, NEW t \in Nat, p <= q, r <= t
  PROVE  (p..q) \cap (r..t) = {}
           <=> ~ranges_overlap(PageSize * p, PageSize * (q + 1), PageSize * r, PageSize * (t + 1))
<1>1. (p..q) \cap (r..t) = {} <=> q < r \/ t < p
  <2>1. ASSUME ~(q < r), ~(t < p) PROVE (p..q) \cap (r..t) # {}
    <3>1. CASE p <= r
      <4>1. r \in p..q /\ r \in r..t
        BY <2>1, <3>1
      <4> QED
        BY <4>1
    <3>2. CASE r <= p
      <4>1. p \in p..q /\ p \in r..t
        BY <2>1, <3>2
      <4> QED
        BY <4>1
    <3> QED
      BY <3>1, <3>2
  <2>2. ASSUME q < r \/ t < p, NEW x \in p..q, x \in r..t PROVE FALSE
    BY <2>2
  <2> QED
    BY <2>1, <2>2
<1>2. /\ q + 1 \in Nat /\ t + 1 \in Nat
      /\ (q + 1 <= r <=> PageSize * (q + 1) <= PageSize * r)
      /\ (t + 1 <= p <=> PageSize * (t + 1) <= PageSize * p)
  <2>1. q + 1 \in Nat /\ t + 1 \in Nat
    OBVIOUS
  <2> QED
    BY <2>1, Scaling
<1>3. /\ PageSize * (q + 1) \in Nat /\ PageSize * r \in Nat
      /\ PageSize * (t + 1) \in Nat /\ PageSize * p \in Nat
  BY <1>2, Scaling
<1> QED
  BY <1>1, <1>2, <1>3 DEF ranges_overlap

LEMMA SameDivision ==
  ASSUME NEW a \in Nat, NEW b \in Nat, NEW x \in 0..(PageSize - 1), NEW y \in 0..(PageSize - 1),
         PageSize * a + x = PageSize * b + y
  PROVE  a = b /\ x = y
<1>1. /\ PageSize * a \in Nat /\ PageSize * b \in Nat
      /\ (a < b <=> PageSize * a + PageSize <= PageSize * b)
      /\ (b < a <=> PageSize * b + PageSize <= PageSize * a)
  BY Scaling
<1>2. a = b
  BY <1>1, SizeIs
<1> QED
  BY <1>1, <1>2, SizeIs

\* What make_item computes for an aligned, non-empty segment, in pages.
LEMMA ItemOf ==
  ASSUME NEW s \in Segments, s.memory_size > 0, s.target % PageSize = 0
  PROVE  /\ Low(s) \in Nat /\ High(s) \in Nat /\ Low(s) <= High(s)
         /\ s.target = PageSize * Low(s)
         /\ make_item(s).page_start = s.target
         /\ page_end(make_item(s)) = PageSize * (High(s) + 1)
         /\ make_item(s).page_length = PageSize * (High(s) + 1 - Low(s))
         /\ make_item(s).page_count = High(s) + 1 - Low(s)
         /\ make_item(s).copy_offset = 0
         /\ s.target + s.memory_size <= PageSize * (High(s) + 1)
         /\ PageSize * High(s) < s.target + s.memory_size
<1> DEFINE v == s.target + s.memory_size
           w == v + (PageSize - 1)
           h == High(s)
           l == Low(s)
           r == (v - 1) % PageSize
           d == w \div PageSize
           e == w % PageSize
<1>1. s.target \in Nat /\ s.memory_size \in Nat /\ v \in Nat /\ v - 1 \in Nat /\ w \in Nat
      /\ w = v + (PageSize - 1) /\ s.target <= v - 1
  <2>1. s.target \in Nat /\ s.memory_size \in Nat
    BY KernelLoadAssumption DEF Segments, Addresses
  <2> QED
    BY <2>1, SizeIs
<1>v. h = (v - 1) \div PageSize
  <2>1. s.target + s.memory_size - 1 = v - 1
    BY <1>1
  <2> QED
    BY <2>1, Zenon DEF High
<1>8a. round_up(v) = w - e /\ round_down(s.target) = s.target - 0
  BY DEF round_up, round_down
<1> HIDE DEF v, w
<1>2. h \in Nat /\ r \in 0..(PageSize - 1) /\ v - 1 = PageSize * h + r
  BY <1>1, <1>v, SizeIs, Division
<1>3. d \in Nat /\ e \in 0..(PageSize - 1) /\ w = PageSize * d + e
  BY <1>1, SizeIs, Division
<1>4. l \in Nat /\ s.target = PageSize * l
  BY <1>1, Aligned DEF Low
<1> HIDE DEF h, l, r, d, e
<1>5. /\ PageSize * h \in Nat /\ PageSize * l \in Nat /\ PageSize * (h + 1) = PageSize * h + PageSize
      /\ (h < l <=> PageSize * h + PageSize <= PageSize * l)
  BY <1>2, <1>4, Scaling
<1>6. h + 1 \in Nat /\ w = PageSize * (h + 1) + r
  BY <1>1, <1>2, <1>5, SizeIs
<1>7. d = h + 1 /\ e = r
  BY <1>2, <1>3, <1>6, SameDivision
<1>8. round_up(v) = PageSize * (h + 1) /\ round_down(s.target) = s.target
  <2>1. PageSize * (h + 1) \in Nat
    BY <1>5, SizeIs
  <2> QED
    BY <1>1, <1>2, <1>6, <1>7, <1>8a, <2>1, SizeIs
<1>9. l <= h /\ v <= PageSize * (h + 1) /\ PageSize * h < v
  BY <1>1, <1>2, <1>4, <1>5, SizeIs
<1>10. h + 1 - l \in Nat /\ PageSize * (h + 1) - PageSize * l = PageSize * (h + 1 - l)
  BY <1>2, <1>4, <1>9, SizeIs
<1>11. (PageSize * (h + 1 - l)) \div PageSize = h + 1 - l
  BY <1>10, PageStart
<1>12. /\ make_item(s).page_start = s.target
       /\ make_item(s).page_length = PageSize * (h + 1) - s.target
       /\ make_item(s).page_count = (PageSize * (h + 1) - s.target) \div PageSize
       /\ make_item(s).copy_offset = s.target - s.target
  BY <1>8 DEF make_item, v
<1> QED
  BY <1>1, <1>2, <1>4, <1>5, <1>9, <1>10, <1>11, <1>12, SizeIs DEF page_end, h, l, v

-----------------------------------------------------------------------------
(* The checks of build.                                                     *)

\* The code returns at the first check that fails.
LEMMA FirstIs ==
  ASSUME NEW checks, Len(checks) \in Nat,
         \A i \in 1..Len(checks) : checks[i].error # "none"
  PROVE  /\ First(checks) = "none" <=> \A i \in 1..Len(checks) : ~checks[i].fails
         /\ First(checks) # "none" =>
              \E i \in 1..Len(checks) :
                /\ checks[i].fails /\ First(checks) = checks[i].error
                /\ \A j \in 1..(i - 1) : ~checks[j].fails
<1> DEFINE failing == {i \in 1..Len(checks) : checks[i].fails}
<1>1. CASE failing = {}
  <2>1. First(checks) = "none"
    BY <1>1 DEF First
  <2> QED
    BY <1>1, <2>1
<1>2. CASE failing # {}
  <2>1. failing \subseteq Nat
    BY SMT
  <2> HIDE DEF failing
  <2>2. PICK i \in failing : \A j \in failing : ~(<<j, i>> \in OpToRel(<, Nat))
    BY <1>2, <2>1, WFMin, NatLessThanWellFounded, Zenon
  <2>3. \A j \in failing : i <= j
    <3>1. \A j \in failing : ~(j < i)
      BY <2>1, <2>2, Zenon DEF OpToRel
    <3> QED
      BY <2>1, <3>1
  <2>4. Least(failing) \in failing /\ \A j \in failing : Least(failing) <= j
    BY <2>3 DEF Least
  <2>5. First(checks) = checks[Least(failing)].error
    BY <1>2 DEF First, failing
  <2>6. Least(failing) \in 1..Len(checks) /\ checks[Least(failing)].fails
    BY <2>4 DEF failing
  <2>7. \A j \in 1..(Least(failing) - 1) : j \in 1..Len(checks) /\ ~(Least(failing) <= j)
    BY <2>6
  <2>8. \A j \in 1..(Least(failing) - 1) : ~checks[j].fails
    BY <2>4, <2>7 DEF failing
  <2> QED
    BY <2>5, <2>6, <2>8
<1> QED
  BY <1>1, <1>2

\* The refusals of build but the last, and that one.
Meets(s) ==
  \E i \in 1..Len(items) :
    ranges_overlap(items[i].page_start, page_end(items[i]),
                   make_item(s).page_start, page_end(make_item(s)))
Refused(s) ==
  \/ source_page_end > MaxAddress
  \/ PlanFull
  \/ s.memory_size = 0
  \/ s.target % PageSize # 0
  \/ s.file_offset + s.file_size > MaxAddress
  \/ s.file_offset + s.file_size > image.source.file_length
  \/ s.target + s.memory_size > MaxAddress
  \/ s.target + s.memory_size + (PageSize - 1) > MaxAddress
  \/ s.file_size > s.memory_size
  \/ make_item(s).page_start < BOOTSTRAP_WINDOW_START
  \/ page_end(make_item(s)) > BOOTSTRAP_WINDOW_END
  \/ Meets(s)
  \/ SourceOverlap(make_item(s))
TooLong(s) == total_page_bytes + make_item(s).page_length > BOOTSTRAP_WINDOW_BYTES

LEMMA BuildOutcome ==
  ASSUME NEW s
  PROVE  /\ First(build_checks(s)) = "none" <=> ~Refused(s) /\ ~TooLong(s)
         /\ First(build_checks(s)) = "TotalSizeExceeded" => ~Refused(s) /\ TooLong(s)
<1> DEFINE c == build_checks(s)
           k1 == Check(source_page_end > MaxAddress, "RangeOverflow")
           k2 == Check(PlanFull, "TooManySegments")
           k3 == Check(s.memory_size = 0, "ZeroMemorySize")
           k4 == Check(s.target % PageSize # 0, "UnalignedTarget")
           k5 == Check(s.file_offset + s.file_size > MaxAddress, "SourceRangeOverflow")
           k6 == Check(s.file_offset + s.file_size > image.source.file_length, "SourceOutsideFile")
           k7 == Check(s.target + s.memory_size > MaxAddress, "RangeOverflow")
           k8 == Check(s.target + s.memory_size + (PageSize - 1) > MaxAddress, "PageRoundingOverflow")
           k9 == Check(s.file_size > s.memory_size, "RangeOverflow")
           k10 == Check(make_item(s).page_start < BOOTSTRAP_WINDOW_START, "BelowWindow")
           k11 == Check(page_end(make_item(s)) > BOOTSTRAP_WINDOW_END, "AboveWindow")
           k12 == Check(Meets(s), "RoundedOverlap")
           k13 == Check(SourceOverlap(make_item(s)), "SourceOverlap")
           k14 == Check(TooLong(s), "TotalSizeExceeded")
<1>1. c = <<k1, k2>> \o <<k3, k4, k5, k6, k7, k8, k9>> \o <<k10, k11, k12, k13, k14>>
  BY Zenon DEF build_checks, make_item_checks, TooLong, Meets
<1>2. /\ (k1.fails <=> source_page_end > MaxAddress) /\ k1.error = "RangeOverflow"
      /\ (k2.fails <=> PlanFull) /\ k2.error = "TooManySegments"
      /\ (k3.fails <=> s.memory_size = 0) /\ k3.error = "ZeroMemorySize"
      /\ (k4.fails <=> s.target % PageSize # 0) /\ k4.error = "UnalignedTarget"
      /\ (k5.fails <=> s.file_offset + s.file_size > MaxAddress) /\ k5.error = "SourceRangeOverflow"
      /\ (k6.fails <=> s.file_offset + s.file_size > image.source.file_length) /\ k6.error = "SourceOutsideFile"
      /\ (k7.fails <=> s.target + s.memory_size > MaxAddress) /\ k7.error = "RangeOverflow"
  BY Zenon DEF Check
<1>3. /\ (k8.fails <=> s.target + s.memory_size + (PageSize - 1) > MaxAddress) /\ k8.error = "PageRoundingOverflow"
      /\ (k9.fails <=> s.file_size > s.memory_size) /\ k9.error = "RangeOverflow"
      /\ (k10.fails <=> make_item(s).page_start < BOOTSTRAP_WINDOW_START) /\ k10.error = "BelowWindow"
      /\ (k11.fails <=> page_end(make_item(s)) > BOOTSTRAP_WINDOW_END) /\ k11.error = "AboveWindow"
      /\ (k12.fails <=> Meets(s)) /\ k12.error = "RoundedOverlap"
      /\ (k13.fails <=> SourceOverlap(make_item(s))) /\ k13.error = "SourceOverlap"
      /\ (k14.fails <=> TooLong(s)) /\ k14.error = "TotalSizeExceeded"
  BY Zenon DEF Check
<1> HIDE DEF c, k1, k2, k3, k4, k5, k6, k7, k8, k9, k10, k11, k12, k13, k14
<1>4. /\ Len(c) = 14
       /\ c[1] = k1 /\ c[2] = k2 /\ c[3] = k3 /\ c[4] = k4 /\ c[5] = k5 /\ c[6] = k6
       /\ c[7] = k7 /\ c[8] = k8 /\ c[9] = k9 /\ c[10] = k10 /\ c[11] = k11 /\ c[12] = k12
       /\ c[13] = k13 /\ c[14] = k14
  BY <1>1
<1>5. \A i \in 1..Len(c) : c[i].error # "none" /\ (c[i].error = "TotalSizeExceeded" => i = 14)
  BY <1>2, <1>3, <1>4
<1>6. Refused(s) <=> \/ c[1].fails \/ c[2].fails \/ c[3].fails \/ c[4].fails \/ c[5].fails
                     \/ c[6].fails \/ c[7].fails \/ c[8].fails \/ c[9].fails \/ c[10].fails
                     \/ c[11].fails \/ c[12].fails \/ c[13].fails
  <2>1. Refused(s) <=> \/ k1.fails \/ k2.fails \/ k3.fails \/ k4.fails \/ k5.fails
                       \/ k6.fails \/ k7.fails \/ k8.fails \/ k9.fails \/ k10.fails
                       \/ k11.fails \/ k12.fails \/ k13.fails
    BY <1>2, <1>3, PTL DEF Refused
  <2> QED
    BY <1>4, <2>1, Zenon
<1>7. First(c) = "none" <=> \A i \in 1..14 : ~c[i].fails
  <2> Len(c) \in Nat
    BY <1>4
  <2>1. First(c) = "none" <=> \A i \in 1..Len(c) : ~c[i].fails
    BY <1>5, FirstIs, Zenon
  <2> QED
    BY <1>4, <2>1, Zenon
<1>8. ASSUME First(c) = "TotalSizeExceeded"
      PROVE  c[14].fails /\ \A j \in 1..13 : ~c[j].fails
  <2>1. First(c) # "none"
    BY <1>8
  <2> Len(c) \in Nat
    BY <1>4
  <2>2. PICK i \in 1..Len(c) : c[i].fails /\ First(c) = c[i].error
                           /\ \A j \in 1..(i - 1) : ~c[j].fails
    BY <1>5, <2>1, FirstIs, Zenon
  <2>3. i = 14
    BY <1>5, <1>8, <2>2, Zenon
  <2>4. 14 - 1 = 13
    OBVIOUS
  <2> QED
    BY <2>2, <2>3, <2>4, Zenon
<1>9. \A i \in 1..14 : \/ i = 1 \/ i = 2 \/ i = 3 \/ i = 4 \/ i = 5 \/ i = 6 \/ i = 7
                       \/ i = 8 \/ i = 9 \/ i = 10 \/ i = 11 \/ i = 12 \/ i = 13 \/ i = 14
  OBVIOUS
<1>10. /\ 1 \in 1..13 /\ 2 \in 1..13 /\ 3 \in 1..13 /\ 4 \in 1..13 /\ 5 \in 1..13
      /\ 6 \in 1..13 /\ 7 \in 1..13 /\ 8 \in 1..13 /\ 9 \in 1..13 /\ 10 \in 1..13
      /\ 11 \in 1..13 /\ 12 \in 1..13 /\ 13 \in 1..13 /\ 14 \in 1..14
      /\ \A i \in 1..13 : i \in 1..14
  OBVIOUS
<1>11. First(c) = "none" => ~Refused(s) /\ ~TooLong(s)
  BY <1>3, <1>4, <1>6, <1>7, <1>10, Zenon
<1>12. ~Refused(s) /\ ~TooLong(s) => First(c) = "none"
  BY <1>3, <1>4, <1>6, <1>7, <1>9, Zenon
<1>13. First(c) = "TotalSizeExceeded" => ~Refused(s) /\ TooLong(s)
  BY <1>3, <1>4, <1>6, <1>8, <1>10, ZenonT(30)
<1> QED
  BY <1>11, <1>12, <1>13 DEF c

-----------------------------------------------------------------------------
(* What the checks say of the pages.                                        *)

LEMMA ImageTypes ==
  ASSUME image \in Images
  PROVE  /\ image.entry \in Nat
         /\ image.segments \in Seq(Segments) /\ Len(image.segments) \in Nat
         /\ \A i \in 1..Len(image.segments) : Seg(i) \in Segments
         /\ image.source.page_start \in Nat /\ image.source.page_count \in Nat
         /\ image.source.file_length \in Addresses
         /\ image.source.page_start % PageSize = 0 /\ image.source.page_count > 0
         /\ image.source.file_length <= image.source.page_count * PageSize
<1>1. image \in [entry: Addresses, segments: Seq(Segments), source: Sources]
  BY KernelLoadAssumption
<1>2. Addresses \subseteq Nat
  BY KernelLoadAssumption DEF Addresses
<1>3. /\ image.entry \in Addresses /\ image.segments \in Seq(Segments)
      /\ image.source \in Sources
  BY <1>1
<1>4. /\ image.source.page_start \in Addresses /\ image.source.page_count \in Nat
      /\ image.source.file_length \in Addresses
  BY <1>3 DEF Sources
<1>5. Len(image.segments) \in Nat /\ \A i \in 1..Len(image.segments) : Seg(i) \in Segments
  BY <1>3 DEF Seg
<1>6. /\ image.source.page_start % PageSize = 0 /\ image.source.page_count > 0
      /\ image.source.file_length <= image.source.page_count * PageSize
  BY KernelLoadAssumption
<1> QED
  BY <1>2, <1>3, <1>4, <1>5, <1>6, Zenon

LEMMA SegmentTypes ==
  ASSUME NEW s \in Segments
  PROVE  /\ s.file_offset \in Nat /\ s.file_size \in Nat /\ s.memory_size \in Nat
         /\ s.target \in Nat /\ s.flags \in 0..7
BY KernelLoadAssumption DEF Segments, Addresses

LEMMA WindowTypes ==
  /\ BOOTSTRAP_WINDOW_START \in Nat /\ BOOTSTRAP_WINDOW_END \in Nat
  /\ BOOTSTRAP_WINDOW_END <= MaxAddress /\ MaxAddress \in Nat /\ MAX_LOAD_ITEMS \in Nat
BY KernelLoadAssumption

LEMMA SourceIs ==
  ASSUME image \in Images
  PROVE  LET f == image.source.page_start \div PageSize
             g == f + image.source.page_count - 1
         IN /\ f \in Nat /\ g \in Nat /\ f <= g /\ SourcePages = f..g
            /\ image.source.page_start = PageSize * f /\ source_page_end = PageSize * (g + 1)
<1> DEFINE f == image.source.page_start \div PageSize
           n == image.source.page_count
           g == f + n - 1
<1>1. image.source.page_start \in Nat /\ n \in Nat /\ n > 0
      /\ image.source.page_start % PageSize = 0
  BY ImageTypes
<1>2. f \in Nat /\ image.source.page_start = PageSize * f
  BY <1>1, Aligned
<1>3. source_page_end = image.source.page_start + n * PageSize /\ SourcePages = f..g
  BY DEF source_page_end, SourcePages
<1> HIDE DEF f, n
<1>4. g \in Nat /\ f <= g /\ g + 1 = f + n
  BY <1>1, <1>2
<1>5. PageSize * (f + n) = PageSize * f + n * PageSize
  BY <1>1, <1>2, SizeIs
<1> QED
  BY <1>2, <1>3, <1>4, <1>5 DEF f, n

LEMMA PagesAre ==
  ASSUME NEW s
  PROVE  PagesOf(s) = Low(s)..High(s)
BY DEF PagesOf, Low, High

\* Segments whose page ranges overlap are those that share a page.
LEMMA ItemsMeet ==
  ASSUME NEW s \in Segments, s.memory_size > 0, s.target % PageSize = 0,
         NEW t \in Segments, t.memory_size > 0, t.target % PageSize = 0
  PROVE  ranges_overlap(make_item(t).page_start, page_end(make_item(t)),
                        make_item(s).page_start, page_end(make_item(s)))
           <=> PagesOf(t) \cap PagesOf(s) # {}
<1>1. /\ Low(s) \in Nat /\ High(s) \in Nat /\ Low(s) <= High(s)
      /\ make_item(s).page_start = PageSize * Low(s)
      /\ page_end(make_item(s)) = PageSize * (High(s) + 1)
  BY ItemOf
<1>2. /\ Low(t) \in Nat /\ High(t) \in Nat /\ Low(t) <= High(t)
      /\ make_item(t).page_start = PageSize * Low(t)
      /\ page_end(make_item(t)) = PageSize * (High(t) + 1)
  BY ItemOf
<1>3. (Low(t)..High(t)) \cap (Low(s)..High(s)) = {}
        <=> ~ranges_overlap(PageSize * Low(t), PageSize * (High(t) + 1),
                            PageSize * Low(s), PageSize * (High(s) + 1))
  BY <1>1, <1>2, PagesMeet, Zenon
<1> QED
  BY <1>1, <1>2, <1>3, PagesAre, Zenon

LEMMA ItemMeetsSource ==
  ASSUME image \in Images, NEW s \in Segments, s.memory_size > 0, s.target % PageSize = 0
  PROVE  SourceOverlap(make_item(s)) <=> PagesOf(s) \cap SourcePages # {}
<1> DEFINE f == image.source.page_start \div PageSize
           g == f + image.source.page_count - 1
<1>1. /\ Low(s) \in Nat /\ High(s) \in Nat /\ Low(s) <= High(s)
      /\ make_item(s).page_start = PageSize * Low(s)
      /\ page_end(make_item(s)) = PageSize * (High(s) + 1)
  BY ItemOf
<1>2. /\ f \in Nat /\ g \in Nat /\ f <= g /\ SourcePages = f..g
      /\ image.source.page_start = PageSize * f /\ source_page_end = PageSize * (g + 1)
  BY SourceIs
<1> HIDE DEF f, g
<1>3. (f..g) \cap (Low(s)..High(s)) = {}
        <=> ~ranges_overlap(PageSize * f, PageSize * (g + 1),
                            PageSize * Low(s), PageSize * (High(s) + 1))
  BY <1>1, <1>2, PagesMeet, Zenon
<1>4. SourceOverlap(make_item(s)) <=> SourcePages \cap PagesOf(s) # {}
  BY <1>1, <1>2, <1>3, PagesAre, Zenon DEF SourceOverlap
<1> QED
  BY <1>4, Zenon

LEMMA ItemInWindow ==
  ASSUME NEW s \in Segments, s.memory_size > 0, s.target % PageSize = 0
  PROVE  (\A page \in PagesOf(s) :
            /\ page * PageSize >= BOOTSTRAP_WINDOW_START
            /\ (page + 1) * PageSize <= BOOTSTRAP_WINDOW_END)
         <=> /\ ~(make_item(s).page_start < BOOTSTRAP_WINDOW_START)
             /\ ~(page_end(make_item(s)) > BOOTSTRAP_WINDOW_END)
<1> DEFINE l == Low(s)
           h == High(s)
<1>1. /\ l \in Nat /\ h \in Nat /\ l <= h
      /\ make_item(s).page_start = PageSize * l
      /\ page_end(make_item(s)) = PageSize * (h + 1)
  BY ItemOf
<1>2. PagesOf(s) = l..h
  BY PagesAre
<1> HIDE DEF l, h
<1>3. h + 1 \in Nat /\ l \in l..h /\ h \in l..h
  BY <1>1
<1>4. /\ PageSize * l \in Nat /\ PageSize * (h + 1) \in Nat
      /\ l * PageSize = PageSize * l /\ (h + 1) * PageSize = PageSize * (h + 1)
  BY <1>1, <1>3, Scaling
<1>5. ASSUME NEW page \in l..h
      PROVE  /\ page * PageSize \in Nat /\ page * PageSize >= PageSize * l
             /\ (page + 1) * PageSize \in Nat /\ (page + 1) * PageSize <= PageSize * (h + 1)
  <2>1. page \in Nat /\ page + 1 \in Nat /\ l <= page /\ page + 1 <= h + 1
    BY <1>1
  <2> QED
    BY <1>1, <1>3, <2>1, Scaling
<1> DEFINE above == PageSize * l
           below == PageSize * (h + 1)
           In(page) == /\ page * PageSize >= BOOTSTRAP_WINDOW_START
                       /\ (page + 1) * PageSize <= BOOTSTRAP_WINDOW_END
<1>6. (\A page \in l..h : In(page)) => In(l) /\ In(h)
  BY <1>3
<1>7. In(l) /\ In(h) => ~(above < BOOTSTRAP_WINDOW_START) /\ ~(below > BOOTSTRAP_WINDOW_END)
  BY <1>4, WindowTypes
<1>8. ASSUME ~(above < BOOTSTRAP_WINDOW_START), ~(below > BOOTSTRAP_WINDOW_END),
             NEW page \in l..h
      PROVE  In(page)
  BY <1>4, <1>5, <1>8, WindowTypes
<1> QED
  BY <1>1, <1>2, <1>6, <1>7, <1>8, Zenon

LEMMA PlannedItems ==
  ASSUME image \in Images, Planned
  PROVE  /\ Len(items) \in Nat /\ Len(items) <= Len(image.segments)
         /\ \A i \in 1..Len(items) :
              /\ i \in 1..Len(image.segments)
              /\ Seg(i) \in Segments /\ items[i] = make_item(Seg(i)) /\ Sound(Seg(i))
              /\ Seg(i).memory_size > 0 /\ Seg(i).target % PageSize = 0
<1>1. Len(items) \in Nat /\ Len(items) <= Len(image.segments)
  BY DEF Planned
<1>2. \A i \in 1..Len(items) : i \in 1..Len(image.segments)
  BY <1>1, ImageTypes
<1>3. \A i \in 1..Len(items) : items[i] = make_item(Seg(i)) /\ Sound(Seg(i))
  BY Zenon DEF Planned
<1>4. \A i \in 1..Len(items) : Seg(i) \in Segments
  BY <1>2, ImageTypes, Zenon
<1> QED
  BY <1>1, <1>2, <1>3, <1>4, Zenon DEF Sound

\* A segment that passes the checks is sound and apart from those before it.
LEMMA AcceptedIsSound ==
  ASSUME image \in Images, Planned, NEW s \in Segments, ~Refused(s)
  PROVE  /\ Sound(s)
         /\ \A i \in 1..Len(items) : PagesOf(Seg(i)) \cap PagesOf(s) = {}
<1>1. s.memory_size > 0 /\ s.target % PageSize = 0
  BY SegmentTypes DEF Refused
<1>2. s.file_size <= s.memory_size /\ s.file_offset + s.file_size <= image.source.file_length
  <2>1. /\ ~(s.file_offset + s.file_size > image.source.file_length)
        /\ ~(s.file_size > s.memory_size)
    BY Zenon DEF Refused
  <2> QED
    BY <2>1, SegmentTypes, ImageTypes, WindowTypes DEF Addresses
<1>3. \A page \in PagesOf(s) : /\ page * PageSize >= BOOTSTRAP_WINDOW_START
                               /\ (page + 1) * PageSize <= BOOTSTRAP_WINDOW_END
  BY <1>1, ItemInWindow, Zenon DEF Refused
<1>4. PagesOf(s) \cap SourcePages = {}
  BY <1>1, ItemMeetsSource, Zenon DEF Refused
<1>5. ASSUME NEW i \in 1..Len(items)
      PROVE  PagesOf(Seg(i)) \cap PagesOf(s) = {}
  <2>1. /\ Seg(i) \in Segments /\ items[i] = make_item(Seg(i))
        /\ Seg(i).memory_size > 0 /\ Seg(i).target % PageSize = 0
    BY PlannedItems, Zenon
  <2>2. ~ranges_overlap(items[i].page_start, page_end(items[i]),
                        make_item(s).page_start, page_end(make_item(s)))
    BY Zenon DEF Refused, Meets
  <2> QED
    BY <1>1, <2>1, <2>2, ItemsMeet, Zenon
<1> QED
  BY <1>1, <1>2, <1>3, <1>4, <1>5, Zenon DEF Sound

\* Every byte of a segment in the window can be rounded up to its page.
LEMMA RoundingFits ==
  ASSUME NEW s \in Segments, s.memory_size > 0, s.target % PageSize = 0,
         ~(page_end(make_item(s)) > BOOTSTRAP_WINDOW_END)
  PROVE  /\ ~(s.target + s.memory_size > MaxAddress)
         /\ ~(s.target + s.memory_size + (PageSize - 1) > MaxAddress)
<1> DEFINE h == High(s)
           v == s.target + s.memory_size
           m == (MaxAddress + 1) \div PageSize
<1>1. /\ h \in Nat /\ v <= PageSize * (h + 1)
      /\ PageSize * (h + 1) <= BOOTSTRAP_WINDOW_END
  <2>1. /\ h \in Nat /\ v <= PageSize * (h + 1)
        /\ page_end(make_item(s)) = PageSize * (h + 1)
    BY ItemOf
  <2>2. h + 1 \in Nat
    BY <2>1
  <2>3. PageSize * (h + 1) \in Nat
    BY <2>2, Scaling
  <2> QED
    BY <2>1, <2>3, WindowTypes
<1>2. m \in Nat /\ MaxAddress + 1 = PageSize * m
  BY KernelLoadAssumption, Aligned
<1>3. v \in Nat
  BY SegmentTypes
<1> HIDE DEF h, v, m
<1>4. h + 1 \in Nat /\ PageSize * (h + 1) \in Nat /\ PageSize * m \in Nat
      /\ (h + 1 < m <=> PageSize * (h + 1) + PageSize <= PageSize * m)
      /\ (m <= h + 1 <=> PageSize * m <= PageSize * (h + 1))
  <2>1. h + 1 \in Nat
    BY <1>1
  <2> QED
    BY <1>2, <2>1, Scaling
<1>5. h + 1 < m
  BY <1>1, <1>2, <1>4, WindowTypes
<1>6. ~(v > MaxAddress) /\ ~(v + (PageSize - 1) > MaxAddress)
  BY <1>1, <1>2, <1>3, <1>4, <1>5, SizeIs, WindowTypes
<1> QED
  BY <1>6 DEF v

\* A check fails only for an image that is not loadable.
LEMMA RefusedIsNotLoadable ==
  ASSUME image \in Images, Planned, Len(items) < Len(image.segments),
         Refused(Seg(Len(items) + 1))
  PROVE  ~Loadable
<1> DEFINE n == Len(items) + 1
           s == Seg(n)
<1> SUFFICES ASSUME Loadable PROVE FALSE
  OBVIOUS
<1>1. /\ n \in 1..Len(image.segments) /\ Len(items) \in Nat
      /\ \A i \in 1..Len(items) : i \in 1..Len(image.segments) /\ i # n
  <2>1. Len(items) \in Nat /\ \A i \in 1..Len(items) : i \in 1..Len(image.segments)
    BY PlannedItems, Zenon
  <2> QED
    BY <2>1, ImageTypes
<1>2. s \in Segments
  BY <1>1, ImageTypes
<1>3. /\ Len(image.segments) \in 1..MAX_LOAD_ITEMS
      /\ source_page_end <= MaxAddress
  BY DEF Loadable
<1>4. \A i \in 1..Len(image.segments) :
        /\ Seg(i).memory_size > 0
        /\ Seg(i).file_size <= Seg(i).memory_size
        /\ Seg(i).file_offset + Seg(i).file_size <= image.source.file_length
        /\ Seg(i).target % PageSize = 0
        /\ \A page \in PagesOf(Seg(i)) :
             /\ page * PageSize >= BOOTSTRAP_WINDOW_START
             /\ (page + 1) * PageSize <= BOOTSTRAP_WINDOW_END
        /\ PagesOf(Seg(i)) \cap SourcePages = {}
        /\ \A j \in 1..Len(image.segments) \ {i} : PagesOf(Seg(i)) \cap PagesOf(Seg(j)) = {}
  BY Zenon DEF Loadable, Seg
<1> HIDE DEF s
<1>5. s.memory_size > 0 /\ s.target % PageSize = 0
  BY <1>1, <1>4, Zenon DEF s
<1>6. /\ ~(make_item(s).page_start < BOOTSTRAP_WINDOW_START)
      /\ ~(page_end(make_item(s)) > BOOTSTRAP_WINDOW_END)
  BY <1>1, <1>2, <1>4, <1>5, ItemInWindow, Zenon DEF s
<1>7. /\ ~(s.target + s.memory_size > MaxAddress)
      /\ ~(s.target + s.memory_size + (PageSize - 1) > MaxAddress)
  BY <1>2, <1>5, <1>6, RoundingFits
<1>8. ~SourceOverlap(make_item(s))
  BY <1>1, <1>2, <1>4, <1>5, ItemMeetsSource, Zenon DEF s
<1>9. ~Meets(s)
  <2> SUFFICES ASSUME NEW i \in 1..Len(items)
               PROVE  ~ranges_overlap(items[i].page_start, page_end(items[i]),
                                      make_item(s).page_start, page_end(make_item(s)))
    BY Zenon DEF Meets
  <2>1. Seg(i) \in Segments /\ items[i] = make_item(Seg(i))
    BY PlannedItems, Zenon
  <2>2. Seg(i).memory_size > 0 /\ Seg(i).target % PageSize = 0
    BY <1>1, <1>4, Zenon
  <2>3. n \in 1..Len(image.segments) \ {i} /\ i \in 1..Len(image.segments)
    BY <1>1, Zenon
  <2>4. PagesOf(Seg(i)) \cap PagesOf(s) = {}
    BY <1>4, <2>3, Zenon DEF s
  <2> QED
    BY <1>2, <1>5, <2>1, <2>2, <2>4, ItemsMeet, Zenon
<1>10. s.file_size <= s.memory_size /\ s.file_offset + s.file_size <= image.source.file_length
  BY <1>1, <1>4, Zenon DEF s
<1>11. /\ ~(s.file_offset + s.file_size > image.source.file_length)
       /\ ~(s.file_offset + s.file_size > MaxAddress)
       /\ ~(s.file_size > s.memory_size) /\ s.memory_size # 0
  <2>1. s.file_offset + s.file_size \in Int /\ s.file_size \in Int /\ s.memory_size \in Int
    BY <1>2, SegmentTypes
  <2>2. image.source.file_length \in Int /\ image.source.file_length <= MaxAddress
    BY ImageTypes, WindowTypes DEF Addresses
  <2> QED
    BY <1>5, <1>10, <2>1, <2>2, WindowTypes
<1>12. ~PlanFull
  BY <1>1, <1>3, WindowTypes DEF PlanFull
<1>13. source_page_end \in Int
  BY ImageTypes, SizeIs DEF source_page_end
<1>14. ~(source_page_end > MaxAddress)
  BY <1>3, <1>13, WindowTypes
<1> QED
  BY <1>5, <1>6, <1>7, <1>8, <1>9, <1>11, <1>12, <1>14, Zenon DEF Refused, s

-----------------------------------------------------------------------------
(* Counting the pages.                                                      *)

\* What the library says of finite sets; CountingHolds, below.
Counting ==
  /\ \A a, b \in Int : /\ IsFiniteSet(a..b)
                       /\ Cardinality(a..b) = IF a > b THEN 0 ELSE b - a + 1
  /\ \A S, T : IsFiniteSet(S) /\ IsFiniteSet(T) /\ S \cap T = {} =>
                 Cardinality(S \cup T) = Cardinality(S) + Cardinality(T)
  /\ \A S, T : IsFiniteSet(T) /\ S \subseteq T =>
                 /\ IsFiniteSet(S) /\ Cardinality(S) \in Nat /\ Cardinality(T) \in Nat
                 /\ Cardinality(S) <= Cardinality(T)
  /\ Cardinality({}) = 0

\* The pages of sound segments lie in the window, so there are no more of them
\* than fit into it.
LEMMA PagesFit ==
  ASSUME Counting, NEW n \in Nat,
         \A i \in 1..n : Seg(i) \in Segments /\ Sound(Seg(i))
  PROVE  /\ IsFiniteSet(PagesUpTo(n)) /\ Cardinality(PagesUpTo(n)) \in Nat
         /\ PageSize * Cardinality(PagesUpTo(n)) <= BOOTSTRAP_WINDOW_BYTES
<1> DEFINE b == BOOTSTRAP_WINDOW_START \div PageSize
           e == BOOTSTRAP_WINDOW_END \div PageSize
           r == BOOTSTRAP_WINDOW_END % PageSize
           k == Cardinality(PagesUpTo(n))
<1>1. b \in Nat /\ BOOTSTRAP_WINDOW_START = PageSize * b
  BY KernelLoadAssumption, Aligned
<1>2. e \in Nat /\ r \in 0..(PageSize - 1) /\ BOOTSTRAP_WINDOW_END = PageSize * e + r
  BY WindowTypes, SizeIs, Division
<1> HIDE DEF b, e, r
<1>3. ASSUME NEW i \in 1..n, NEW page \in PagesOf(Seg(i))
      PROVE  page \in b..(e - 1)
  <2>1. Low(Seg(i)) \in Nat /\ High(Seg(i)) \in Nat
    BY ItemOf DEF Sound
  <2>2. page \in Nat /\ page + 1 \in Nat /\ e + 1 \in Nat
    BY <1>2, <2>1, PagesAre
  <2>3. page * PageSize >= BOOTSTRAP_WINDOW_START /\ (page + 1) * PageSize <= BOOTSTRAP_WINDOW_END
    BY Zenon DEF Sound
  <2>4. /\ PageSize * b \in Nat /\ PageSize * page \in Nat /\ page * PageSize = PageSize * page
        /\ (b <= page <=> PageSize * b <= PageSize * page)
    BY <1>1, <2>2, Scaling
  <2>5. /\ PageSize * (page + 1) \in Nat /\ PageSize * (e + 1) = PageSize * e + PageSize
        /\ (page + 1) * PageSize = PageSize * (page + 1) /\ PageSize * e \in Nat
        /\ (e + 1 <= page + 1 <=> PageSize * (e + 1) <= PageSize * (page + 1))
    BY <1>2, <2>2, Scaling
  <2>6. b <= page
    BY <1>1, <2>3, <2>4
  <2>7. ~(e + 1 <= page + 1)
    BY <1>2, <2>3, <2>5, SizeIs
  <2> QED
    BY <1>1, <1>2, <2>2, <2>6, <2>7
<1>4. PagesUpTo(n) \subseteq b..(e - 1)
  BY <1>3, Zenon DEF PagesUpTo
<1>5. b \in Int /\ e - 1 \in Int
  BY <1>1, <1>2
<1>6. /\ IsFiniteSet(b..(e - 1))
      /\ Cardinality(b..(e - 1)) = IF b > e - 1 THEN 0 ELSE (e - 1) - b + 1
  BY <1>5, Zenon DEF Counting
<1>7. IsFiniteSet(PagesUpTo(n)) /\ k \in Nat /\ k <= Cardinality(b..(e - 1))
  BY <1>4, <1>6, Zenon DEF Counting
<1>8. k = 0 \/ b + k <= e
  BY <1>1, <1>2, <1>6, <1>7
<1> HIDE DEF k
<1>9. PageSize * k \in Nat /\ (k = 0 => PageSize * k = 0)
  BY <1>7, SizeIs
<1>10. b + k \in Nat
  BY <1>1, <1>7
<1>11. /\ PageSize * (b + k) = PageSize * b + PageSize * k /\ PageSize * b \in Nat
       /\ PageSize * e \in Nat
       /\ (b + k <= e <=> PageSize * (b + k) <= PageSize * e)
  <2>1. PageSize * (b + k) = PageSize * b + PageSize * k
    BY <1>1, <1>7, SizeIs
  <2> QED
    BY <1>1, <1>2, <1>10, <2>1, Scaling
<1>12. PageSize * k <= BOOTSTRAP_WINDOW_BYTES
  <2> DEFINE x == PageSize * k
             y == PageSize * b
             z == PageSize * e
  <2>1. x \in Nat /\ y \in Nat /\ z \in Nat /\ (x = 0 \/ y + x <= z)
    BY <1>8, <1>9, <1>11, Zenon
  <2>2. BOOTSTRAP_WINDOW_START = y /\ BOOTSTRAP_WINDOW_END = z + r
    BY <1>1, <1>2
  <2> HIDE DEF x, y, z
  <2>3. x <= BOOTSTRAP_WINDOW_BYTES
    BY <1>2, <2>1, <2>2, SizeIs, KernelLoadAssumption
  <2> QED
    BY <2>3 DEF x
<1> QED
  BY <1>7, <1>12 DEF k

\* A segment apart from the ones before it adds as many pages as it has.
LEMMA PagesAdd ==
  ASSUME Counting, NEW n \in Nat,
         \A i \in 1..(n + 1) : Seg(i) \in Segments /\ Sound(Seg(i)),
         \A i \in 1..n : PagesOf(Seg(i)) \cap PagesOf(Seg(n + 1)) = {}
  PROVE  LET k == Cardinality(PagesUpTo(n))
             item == make_item(Seg(n + 1))
         IN /\ k \in Nat /\ item.page_count \in Nat
            /\ Cardinality(PagesUpTo(n + 1)) = k + item.page_count
            /\ PageSize * Cardinality(PagesUpTo(n + 1)) = PageSize * k + item.page_length
            /\ PageSize * k + item.page_length <= BOOTSTRAP_WINDOW_BYTES
<1> DEFINE k == Cardinality(PagesUpTo(n))
           item == make_item(Seg(n + 1))
           l == Low(Seg(n + 1))
           h == High(Seg(n + 1))
<1>1. /\ n + 1 \in Nat /\ n + 1 \in 1..(n + 1)
      /\ \A i \in 1..n : i \in 1..(n + 1)
      /\ \A i \in 1..(n + 1) : i \in 1..n \/ i = n + 1
  OBVIOUS
<1>2. /\ IsFiniteSet(PagesUpTo(n)) /\ k \in Nat
      /\ PageSize * Cardinality(PagesUpTo(n + 1)) <= BOOTSTRAP_WINDOW_BYTES
  BY <1>1, PagesFit
<1>3. /\ l \in Nat /\ h \in Nat /\ l <= h
      /\ item.page_count = h + 1 - l /\ item.page_length = PageSize * (h + 1 - l)
  <2>1. /\ Seg(n + 1) \in Segments
        /\ Seg(n + 1).memory_size > 0 /\ Seg(n + 1).target % PageSize = 0
    BY <1>1, Zenon DEF Sound
  <2> QED
    BY <2>1, ItemOf, Zenon
<1>4. PagesOf(Seg(n + 1)) = l..h
  BY PagesAre
<1>5. PagesUpTo(n + 1) = PagesUpTo(n) \cup PagesOf(Seg(n + 1))
  <2>1. PagesOf(Seg(n + 1)) \subseteq PagesUpTo(n + 1) /\ PagesUpTo(n) \subseteq PagesUpTo(n + 1)
    BY <1>1, Zenon DEF PagesUpTo
  <2>2. ASSUME NEW p \in PagesUpTo(n + 1), p \notin PagesOf(Seg(n + 1)) PROVE p \in PagesUpTo(n)
    <3>1. PICK i \in 1..(n + 1) : p \in PagesOf(Seg(i))
      BY Zenon DEF PagesUpTo
    <3>2. i # n + 1
      BY <2>2, <3>1, Zenon
    <3>3. i \in 1..n
      BY <1>1, <3>2, Zenon
    <3> QED
      BY <3>1, <3>3, Zenon DEF PagesUpTo
  <2> QED
    BY <2>1, <2>2, Zenon
<1>6. PagesUpTo(n) \cap PagesOf(Seg(n + 1)) = {}
  <2>1. ASSUME NEW p \in PagesUpTo(n), p \in PagesOf(Seg(n + 1)) PROVE FALSE
    <3>1. PICK i \in 1..n : p \in PagesOf(Seg(i))
      BY Zenon DEF PagesUpTo
    <3>2. PagesOf(Seg(i)) \cap PagesOf(Seg(n + 1)) = {}
      BY Zenon
    <3> QED
      BY <2>1, <3>1, <3>2
  <2> QED
    BY <2>1, Zenon
<1> HIDE DEF k, l, h
<1>7. l \in Int /\ h \in Int
  BY <1>3
<1>8. IsFiniteSet(l..h) /\ Cardinality(l..h) = IF l > h THEN 0 ELSE h - l + 1
  BY <1>7, Zenon DEF Counting
<1>9. Cardinality(PagesUpTo(n + 1)) = k + Cardinality(l..h)
  <2> DEFINE S == PagesUpTo(n)
             T == PagesOf(Seg(n + 1))
  <2>1. IsFiniteSet(S) /\ IsFiniteSet(T) /\ S \cap T = {}
    BY <1>2, <1>4, <1>6, <1>8, Zenon
  <2> HIDE DEF S, T
  <2>2. Cardinality(S \cup T) = Cardinality(S) + Cardinality(T)
    BY <2>1, Zenon DEF Counting
  <2> QED
    BY <1>4, <1>5, <2>2, Zenon DEF k, S, T
<1>10. h + 1 - l \in Nat /\ Cardinality(l..h) = h + 1 - l
  BY <1>3, <1>8
<1>11. PageSize * (k + (h + 1 - l)) = PageSize * k + PageSize * (h + 1 - l)
  <2>1. ASSUME NEW x \in Nat, NEW y \in Nat PROVE PageSize * (x + y) = PageSize * x + PageSize * y
    BY SizeIs
  <2> QED
    BY <1>2, <1>10, <2>1
<1> QED
  BY <1>2, <1>3, <1>9, <1>10, <1>11, Zenon DEF k

LEMMA NoPages ==
  PagesUpTo(0) = {} /\ PagesUpTo(0)' = {} /\ 1..0 = {}
<1>1. 1..0 = {}
  OBVIOUS
<1> QED
  BY <1>1, Zenon DEF PagesUpTo

LEMMA RecordedNone ==
  ASSUME Counting
  PROVE  (Recorded(0) <=> loaded = Unrecorded) /\ (Recorded(0)' <=> loaded' = Unrecorded)
<1>1. ~(0 > 0) /\ Unrecorded.total_pages = 0 /\ Unrecorded' = Unrecorded
  BY DEF Unrecorded
<1>2. Cardinality({}) = 0
  BY Zenon DEF Counting
<1> QED
  BY <1>1, <1>2, NoPages, Zenon DEF Recorded

-----------------------------------------------------------------------------
(* What a step leaves alone.                                                *)

LEMMA PlanKept ==
  ASSUME UNCHANGED <<image, items, total_page_bytes>>
  PROVE  /\ Planned' <=> Planned
         /\ Complete' <=> Complete
         /\ Loadable' <=> Loadable
<1>1. SourcePages' = SourcePages /\ source_page_end' = source_page_end
  BY DEF SourcePages, source_page_end
<1>2. /\ \A i : Sound(Seg(i))' <=> Sound(Seg(i))
      /\ \A i : PagesOf(Seg(i))' = PagesOf(Seg(i))
      /\ \A i : make_item(Seg(i))' = make_item(Seg(i))
      /\ \A i : HoldsEntry(items[i])' <=> HoldsEntry(items[i])
  <2>1. \A i : Seg(i)' = Seg(i)
    BY Zenon DEF Seg
  <2> QED
    BY <1>1, <2>1, Zenon DEF Sound, PagesOf, make_item, HoldsEntry, is_executable
<1>3. PagesUpTo(Len(items))' = PagesUpTo(Len(items))
  BY <1>2, Zenon DEF PagesUpTo
<1>4. Planned' <=> Planned
  BY <1>1, <1>2, <1>3, Zenon DEF Planned
<1>5. Complete' <=> Complete
  BY <1>2 DEF Complete
<1>6. Loadable' <=> Loadable
  BY <1>1 DEF Loadable, PagesOf
<1> QED
  BY <1>4, <1>5, <1>6, Zenon

LEMMA RecordKept ==
  ASSUME UNCHANGED <<image, items, loaded>>, NEW n
  PROVE  Recorded(n)' <=> Recorded(n)
<1>1. PagesUpTo(n)' = PagesUpTo(n)
  BY Zenon DEF PagesUpTo, PagesOf, Seg
<1>2. \A i : HoldsEntry(items[i])' <=> HoldsEntry(items[i])
  BY Zenon DEF HoldsEntry, is_executable
<1>3. \A i : page_end(items[i])' = page_end(items[i])
  BY Zenon DEF page_end
<1> QED
  BY <1>1, <1>2, <1>3, Zenon DEF Recorded, Unrecorded

LEMMA BytesKept ==
  ASSUME UNCHANGED <<image, items>>
  PROVE  /\ \A a : InFile(a)' <=> InFile(a)
         /\ \A i, a : InItem(i, a)' <=> InItem(i, a)
         /\ \A i, a : FromFile(i, a)' <=> FromFile(i, a)
         /\ \A i, a : OffsetOf(i, a)' = OffsetOf(i, a)
         /\ memory' = memory => \A i : /\ Zeroed(i)' <=> Zeroed(i)
                                       /\ Copied(i)' <=> Copied(i)
                                       /\ Verified(i)' <=> Verified(i)
<1>1. /\ \A a : InFile(a)' <=> InFile(a)
      /\ \A i, a : InItem(i, a)' <=> InItem(i, a)
      /\ \A i, a : FromFile(i, a)' <=> FromFile(i, a)
      /\ \A i, a : OffsetOf(i, a)' = OffsetOf(i, a)
  BY Zenon DEF InFile, InItem, page_end, FromFile, OffsetOf
<1>2. ASSUME memory' = memory, NEW i
      PROVE  /\ Zeroed(i)' <=> Zeroed(i)
             /\ Copied(i)' <=> Copied(i)
             /\ Verified(i)' <=> Verified(i)
  <2>1. \A o : Source(o)' = Source(o)
    BY <1>2, Zenon DEF Source
  <2>2. Zeroed(i)' <=> Zeroed(i)
    BY <1>1, <1>2, Zenon DEF Zeroed
  <2>3. Copied(i)' <=> Copied(i)
    BY <1>1, <1>2, Zenon DEF Copied
  <2>4. Verified(i)' <=> Verified(i)
    BY <1>1, <1>2, <2>1, Zenon DEF Verified
  <2> QED
    BY <2>2, <2>3, <2>4
<1> QED
  BY <1>1, <1>2, Zenon

-----------------------------------------------------------------------------
(* The steps.                                                               *)

\* The total size is that of the distinct pages, which the window holds: the
\* other checks leave nothing for the last one to refuse.
LEMMA NeverTooLong ==
  ASSUME Counting, image \in Images, Planned, Len(items) < Len(image.segments),
         ~Refused(Seg(Len(items) + 1))
  PROVE  LET n == Len(items)
             s == Seg(n + 1)
         IN /\ ~TooLong(s)
            /\ Sound(s) /\ \A i \in 1..n : PagesOf(Seg(i)) \cap PagesOf(s) = {}
            /\ total_page_bytes + make_item(s).page_length
                 = PageSize * Cardinality(PagesUpTo(n + 1))
<1> DEFINE n == Len(items)
           s == Seg(n + 1)
<1>1. n \in Nat /\ \A i \in 1..n : Seg(i) \in Segments /\ Sound(Seg(i))
  BY PlannedItems, Zenon
<1>2. s \in Segments
  <2>1. n + 1 \in 1..Len(image.segments)
    BY <1>1, ImageTypes
  <2> QED
    BY <2>1, ImageTypes, Zenon
<1>3. Sound(s) /\ \A i \in 1..n : PagesOf(Seg(i)) \cap PagesOf(s) = {}
  BY <1>2, AcceptedIsSound, Zenon
<1>4. total_page_bytes = PageSize * Cardinality(PagesUpTo(n))
  BY Zenon DEF Planned
<1> HIDE DEF n
<1>5. \A i \in 1..(n + 1) : i \in 1..n \/ i = n + 1
  BY <1>1
<1>6. \A i \in 1..(n + 1) : Seg(i) \in Segments /\ Sound(Seg(i))
  BY <1>1, <1>2, <1>3, <1>5, Zenon
<1>7. LET k == Cardinality(PagesUpTo(n))
          item == make_item(s)
      IN /\ k \in Nat
         /\ PageSize * Cardinality(PagesUpTo(n + 1)) = PageSize * k + item.page_length
         /\ PageSize * k + item.page_length <= BOOTSTRAP_WINDOW_BYTES
  BY <1>1, <1>3, <1>6, PagesAdd, Zenon
<1>8. PageSize * Cardinality(PagesUpTo(n)) \in Nat
  BY <1>7, Scaling
<1>9. make_item(s).page_length \in Nat
  <2>1. /\ Low(s) \in Nat /\ High(s) \in Nat /\ Low(s) <= High(s)
        /\ make_item(s).page_length = PageSize * (High(s) + 1 - Low(s))
    BY <1>2, <1>3, ItemOf, Zenon DEF Sound
  <2>2. High(s) + 1 - Low(s) \in Nat
    BY <2>1
  <2> QED
    BY <2>1, <2>2, Scaling, Zenon
<1>10. ~TooLong(s)
  <2> DEFINE x == PageSize * Cardinality(PagesUpTo(n)) + make_item(s).page_length
  <2>1. x \in Nat /\ x <= BOOTSTRAP_WINDOW_BYTES
    BY <1>7, <1>8, <1>9
  <2>2. TooLong(s) <=> x > BOOTSTRAP_WINDOW_BYTES
    BY <1>4, Zenon DEF TooLong
  <2> HIDE DEF x
  <2> QED
    BY <2>1, <2>2, KernelLoadAssumption
<1> QED
  BY <1>3, <1>4, <1>7, <1>10, Zenon DEF n

\* The plan with one more item.
LEMMA PlanGrows ==
  ASSUME Counting, image \in Images, Planned, Len(items) < Len(image.segments),
         ~Refused(Seg(Len(items) + 1)),
         items' = Append(items, make_item(Seg(Len(items) + 1))),
         total_page_bytes' = total_page_bytes + make_item(Seg(Len(items) + 1)).page_length,
         image' = image
  PROVE  Planned' /\ Len(items') = Len(items) + 1
<1> DEFINE n == Len(items)
           s == Seg(n + 1)
           Items == [source_offset: Nat, file_size: Nat, memory_size: Nat,
                     target_start: Nat, target_end: Nat, page_start: Nat, page_count: Nat,
                     flags: 0..7, page_length: Nat, copy_offset: Nat]
<1>1. /\ n \in Nat /\ n < Len(image.segments) /\ items \in Seq(Items)
      /\ Len(image.segments) \in Nat
  BY ImageTypes DEF Planned
<1>2. /\ Sound(s) /\ \A i \in 1..n : PagesOf(Seg(i)) \cap PagesOf(s) = {}
      /\ total_page_bytes' = PageSize * Cardinality(PagesUpTo(n + 1))
  BY NeverTooLong, Zenon
<1>3. s \in Segments
  <2>1. n + 1 \in 1..Len(image.segments)
    BY <1>1
  <2> QED
    BY <2>1, ImageTypes, Zenon
<1>4. make_item(s) \in Items
  <2>1. /\ s.file_offset \in Nat /\ s.file_size \in Nat /\ s.memory_size \in Nat
        /\ s.target \in Nat /\ s.flags \in 0..7
    BY <1>3, SegmentTypes
  <2>2. /\ Low(s) \in Nat /\ High(s) \in Nat /\ Low(s) <= High(s)
        /\ make_item(s).page_start = s.target
        /\ make_item(s).page_length = PageSize * (High(s) + 1 - Low(s))
        /\ make_item(s).page_count = High(s) + 1 - Low(s)
        /\ make_item(s).copy_offset = 0
    BY <1>2, <1>3, ItemOf, Zenon DEF Sound
  <2>3. High(s) + 1 - Low(s) \in Nat
    BY <2>2
  <2>4. PageSize * (High(s) + 1 - Low(s)) \in Nat
    BY <2>3, Scaling
  <2>5. s.target + s.memory_size \in Nat
    BY <2>1
  <2>6. /\ make_item(s).page_start \in Nat /\ make_item(s).page_length \in Nat
        /\ make_item(s).page_count \in Nat /\ make_item(s).copy_offset \in Nat
    <3> 0 \in Nat
      OBVIOUS
    <3> QED
      BY <2>1, <2>2, <2>3, <2>4, Zenon
  <2> DEFINE ps == round_down(s.target)
             pl == round_up(s.target + s.memory_size) - round_down(s.target)
             pc == (round_up(s.target + s.memory_size) - round_down(s.target)) \div PageSize
             co == s.target - round_down(s.target)
  <2>7. make_item(s) = [source_offset |-> s.file_offset, file_size |-> s.file_size,
                        memory_size |-> s.memory_size, target_start |-> s.target,
                        target_end |-> s.target + s.memory_size, page_start |-> ps,
                        page_count |-> pc, flags |-> s.flags, page_length |-> pl,
                        copy_offset |-> co]
    BY DEF make_item
  <2> HIDE DEF s, ps, pl, pc, co
  <2>8. ps \in Nat /\ pl \in Nat /\ pc \in Nat /\ co \in Nat
    BY <2>6, <2>7
  <2> QED
    BY <2>1, <2>5, <2>7, <2>8
<1> HIDE DEF Items
<1>5. /\ items' \in Seq(Items) /\ Len(items') = n + 1 /\ items'[n + 1] = make_item(s)
      /\ \A i \in 1..n : items'[i] = items[i]
  BY <1>1, <1>4
<1>6. /\ \A i : Seg(i)' = Seg(i) /\ (Sound(Seg(i))' <=> Sound(Seg(i)))
      /\ source_page_end' = source_page_end
      /\ PagesUpTo(Len(items))' = PagesUpTo(Len(items'))
  BY Zenon DEF Seg, Sound, source_page_end, SourcePages, PagesUpTo
<1>7. Len(items') <= Len(image'.segments)
  BY <1>1, <1>5
<1>8. Len(items') <= MAX_LOAD_ITEMS
  <2>1. ~PlanFull /\ Len(items) <= MAX_LOAD_ITEMS
    BY Zenon DEF Refused, Planned
  <2> QED
    BY <1>1, <1>5, <2>1, WindowTypes DEF PlanFull
<1>9. source_page_end <= MaxAddress
  <2>1. ~(source_page_end > MaxAddress)
    BY Zenon DEF Refused
  <2>2. source_page_end \in Int
    BY ImageTypes, SizeIs DEF source_page_end
  <2> QED
    BY <2>1, <2>2, WindowTypes
<1>10. \A i \in 1..(n + 1) : i \in 1..n \/ i = n + 1
  BY <1>1
<1>11. \A i \in 1..n : items[i] = make_item(Seg(i)) /\ Sound(Seg(i))
                       /\ \A j \in 1..n \ {i} : PagesOf(Seg(i)) \cap PagesOf(Seg(j)) = {}
  BY Zenon DEF Planned
<1>12. ASSUME NEW i \in 1..(n + 1)
       PROVE  items'[i] = make_item(Seg(i)) /\ Sound(Seg(i))
  BY <1>2, <1>5, <1>10, <1>11, Zenon
<1>13. ASSUME NEW i \in 1..(n + 1), NEW j \in 1..(n + 1), j # i
       PROVE  PagesOf(Seg(i)) \cap PagesOf(Seg(j)) = {}
  <2>1. CASE i \in 1..n /\ j \in 1..n
    BY <1>11, <1>13, <2>1, Zenon
  <2>2. CASE i = n + 1 /\ j \in 1..n
    <3>1. PagesOf(Seg(j)) \cap PagesOf(Seg(i)) = {}
      BY <1>2, <2>2, Zenon
    <3> QED
      BY <3>1, Zenon
  <2>3. CASE i \in 1..n /\ j = n + 1
    BY <1>2, <2>3, Zenon
  <2> QED
    BY <1>10, <1>13, <2>1, <2>2, <2>3, Zenon
<1> HIDE DEF n
<1>14. \A i \in 1..Len(items') :
         /\ items'[i] = make_item(Seg(i)') /\ Sound(Seg(i))'
         /\ \A j \in 1..Len(items') \ {i} : PagesOf(Seg(i)') \cap PagesOf(Seg(j)') = {}
  BY <1>5, <1>6, <1>12, <1>13, Zenon
<1>15. total_page_bytes' = PageSize * Cardinality(PagesUpTo(Len(items)))'
  BY <1>2, <1>5, <1>6, Zenon
<1> QED
  BY <1>5, <1>6, <1>7, <1>8, <1>9, <1>14, <1>15, Zenon DEF Planned, Items, n

LEMMA BuildStep ==
  ASSUME Counting, IInv, build
  PROVE  IInv'
<1> DEFINE n == Len(items)
           s == Seg(n + 1)
<1>1. /\ image \in Images /\ Planned /\ Progress /\ Recording
      /\ phase = "planning" /\ Placed
  BY DEF IInv, build
<1>2. cursor = n /\ n < Len(image.segments) /\ faults \in Nat /\ loaded = Unrecorded
  BY <1>1, RecordedNone DEF Progress, Recording, build
<1>3. CASE First(build_checks(s)) # "none"
  <2>1. /\ phase' = "refused" /\ reason' = First(build_checks(s))
        /\ UNCHANGED <<image, items, total_page_bytes, cursor, memory, loaded, faults>>
    BY <1>2, <1>3, Zenon DEF build, Stop, Seg, planVars
  <2>2. Refused(s)
    BY <1>1, <1>2, <1>3, BuildOutcome, NeverTooLong, Zenon
  <2>3. ~Loadable /\ reason' # "TotalSizeExceeded"
    BY <1>1, <1>2, <2>1, <2>2, BuildOutcome, RefusedIsNotLoadable, Zenon
  <2>4. Planned' /\ ~Loadable'
    BY <1>1, <2>1, <2>3, PlanKept, Zenon
  <2> QED
    BY <1>1, <1>2, <2>1, <2>3, <2>4 DEF IInv, Progress, Recording, Loading
<1>4. CASE First(build_checks(s)) = "none"
  <2>1. /\ items' = Append(items, make_item(s))
        /\ total_page_bytes' = total_page_bytes + make_item(s).page_length
        /\ cursor' = cursor + 1
        /\ UNCHANGED <<image, phase, memory, loaded, faults, reason>>
    BY <1>2, <1>4, Zenon DEF build, Seg
  <2>2. ~Refused(s)
    BY <1>4, BuildOutcome, Zenon
  <2>3. Planned' /\ Len(items') = n + 1
    BY <1>1, <1>2, <2>1, <2>2, PlanGrows, Zenon
  <2>4. cursor' = Len(items')
    BY <1>2, <2>1, <2>3, Zenon
  <2>5. Recorded(0)'
    BY <1>2, <2>1, RecordedNone, Zenon
  <2>6. Placed'
    <3>1. \A a : InFile(a)' <=> InFile(a)
      BY <2>1, Zenon DEF InFile
    <3> QED
      BY <1>1, <2>1, <3>1 DEF Placed, Loading
  <2> QED
    BY <1>1, <1>2, <2>1, <2>3, <2>4, <2>5, <2>6 DEF IInv, Progress, Recording, Loading
<1> QED
  BY <1>3, <1>4

LEMMA BuildEndStep ==
  ASSUME Counting, IInv, build_end
  PROVE  IInv'
<1>1. /\ image \in Images /\ Planned /\ Progress /\ Recording
      /\ phase = "planning" /\ Placed
  BY DEF IInv, build_end
<1>2. /\ Len(items) = Len(image.segments) /\ Len(items) \in Nat
      /\ faults \in Nat /\ loaded = Unrecorded
  BY <1>1, RecordedNone, PlannedItems DEF Progress, Recording, build_end
<1>3. UNCHANGED <<image, items, total_page_bytes, memory, loaded, faults>>
  BY Zenon DEF build_end, Stop, planVars
<1>4. Planned' /\ (Complete' <=> Complete) /\ (Loadable' <=> Loadable)
  BY <1>1, <1>3, PlanKept, Zenon
<1>5. ASSUME phase' = "refused", reason' # "TotalSizeExceeded", ~Loadable
      PROVE  IInv'
  BY <1>1, <1>2, <1>3, <1>4, <1>5 DEF IInv, Progress, Recording, Loading
<1>6. CASE items = <<>>
  <2>1. phase' = "refused" /\ reason' = "NoSegments"
    BY <1>6, Zenon DEF build_end, Stop
  <2>2. Len(image.segments) = 0
    BY <1>2, <1>6
  <2>3. ~Loadable
    BY <2>2, WindowTypes DEF Loadable
  <2> QED
    BY <1>5, <2>1, <2>3
<1>7. CASE items # <<>> /\ ~\E i \in 1..Len(items) : HoldsEntry(items[i])
  <2>1. phase' = "refused" /\ reason' = "EntryOutsideExecutableSegment"
    BY <1>7, Zenon DEF build_end, Stop
  <2>2. ~Loadable
    <3> SUFFICES ASSUME Loadable PROVE FALSE
      OBVIOUS
    <3>1. PICK i \in 1..Len(image.segments) :
            /\ Seg(i).flags % 2 = 1
            /\ image.entry \in Seg(i).target..(Seg(i).target + Seg(i).memory_size - 1)
      BY Zenon DEF Loadable, Seg
    <3>2. Seg(i) \in Segments /\ items[i] = make_item(Seg(i))
      BY <1>1, <1>2, PlannedItems, ZenonT(30)
    <3>3. HoldsEntry(items[i])
      BY <1>1, <3>1, <3>2, SegmentTypes, ImageTypes DEF HoldsEntry, is_executable, make_item
    <3> QED
      BY <1>2, <1>7, <3>3
  <2> QED
    BY <1>5, <2>1, <2>2
<1>8. CASE items # <<>> /\ \E i \in 1..Len(items) : HoldsEntry(items[i])
  <2>1. phase' = "zeroing" /\ cursor' = 0
    BY <1>8, Zenon DEF build_end
  <2>2. Len(items) > 0 /\ 0 \in 0..(Len(items) - 1)
    BY <1>2, <1>8
  <2>3. Complete'
    BY <1>2, <1>4, <1>8, <2>2, Zenon DEF Complete
  <2>4. Recorded(0)'
    BY <1>2, <1>3, RecordedNone, Zenon
  <2>5. Placed'
    <3>1. /\ \A a : InFile(a)' <=> InFile(a)
          /\ 1..0 = {}
      BY <1>3, NoPages, Zenon DEF InFile
    <3>2. phase' # phase /\ phase \notin Loading
      BY <1>1, <2>1 DEF Loading
    <3> QED
      BY <1>1, <1>3, <2>1, <3>1, <3>2 DEF Placed, Loading
  <2> QED
    BY <1>1, <1>2, <1>3, <1>4, <2>1, <2>2, <2>3, <2>4, <2>5
    DEF IInv, Progress, Recording, Loading
<1> QED
  BY <1>6, <1>7, <1>8

-----------------------------------------------------------------------------
(* Where the items and the file lie.                                        *)

LEMMA ItemFacts ==
  ASSUME image \in Images, Planned, NEW i \in 1..Len(items)
  PROVE  LET t == items[i]
         IN /\ t.page_start \in Nat /\ t.page_length \in Nat
            /\ t.file_size \in Nat /\ t.source_offset \in Nat
            /\ t.target_start = t.page_start /\ t.copy_offset = 0
            /\ page_end(t) = t.page_start + t.page_length /\ page_end(t) <= MaxAddress
            /\ t.file_size <= t.page_length
            /\ t.source_offset + t.file_size <= image.source.file_length
<1> DEFINE s == Seg(i)
           l == PageSize * Low(s)
           h == PageSize * (High(s) + 1)
<1>1. /\ s \in Segments /\ items[i] = make_item(s) /\ Sound(s)
      /\ s.memory_size > 0 /\ s.target % PageSize = 0
  BY PlannedItems, Zenon
<1>2. /\ Low(s) \in Nat /\ High(s) \in Nat /\ Low(s) <= High(s)
      /\ s.target = l
      /\ make_item(s).page_start = s.target /\ page_end(make_item(s)) = h
      /\ make_item(s).page_length = PageSize * (High(s) + 1 - Low(s))
      /\ make_item(s).copy_offset = 0
      /\ s.target + s.memory_size <= h
  BY <1>1, ItemOf, Zenon
<1>3. /\ s.file_offset \in Nat /\ s.file_size \in Nat /\ s.memory_size \in Nat
      /\ s.target \in Nat
  BY <1>1, SegmentTypes, SMTT(30)
<1>4. /\ make_item(s).source_offset = s.file_offset /\ make_item(s).file_size = s.file_size
      /\ make_item(s).target_start = s.target
  BY DEF make_item
<1>5. s.file_size <= s.memory_size /\ s.file_offset + s.file_size <= image.source.file_length
  BY <1>1, Zenon DEF Sound
<1>6. ~(page_end(make_item(s)) > BOOTSTRAP_WINDOW_END)
  BY <1>1, ItemInWindow, Zenon DEF Sound
<1>7. High(s) + 1 - Low(s) \in Nat /\ High(s) + 1 \in Nat
  BY <1>2
<1>8. h \in Nat /\ PageSize * (High(s) + 1 - Low(s)) \in Nat
  BY <1>7, Scaling
<1>9. page_end(make_item(s)) = make_item(s).page_start + make_item(s).page_length
  BY Zenon DEF page_end
<1> DEFINE t == make_item(s)
           e == page_end(t)
           k == t.page_length
<1>10. k \in Nat /\ e \in Nat /\ e = s.target + k /\ s.target + s.memory_size <= e
       /\ ~(e > BOOTSTRAP_WINDOW_END)
  BY <1>2, <1>6, <1>8, <1>9, Zenon
<1> HIDE DEF s, h, e, k
<1>11. s.file_size <= k /\ e <= MaxAddress
  <2>1. ASSUME NEW x \in Nat, NEW y \in Nat, NEW z \in Nat, x + y <= x + k, z <= y
        PROVE  z <= k
    BY <1>10, <2>1
  <2>2. s.file_size <= k
    BY <1>3, <1>5, <1>10, <2>1, Zenon
  <2>3. e <= MaxAddress
    BY <1>10, WindowTypes
  <2> QED
    BY <2>2, <2>3
<1>12. /\ t.page_start \in Nat /\ t.page_length \in Nat
       /\ t.file_size \in Nat /\ t.source_offset \in Nat
       /\ t.target_start = t.page_start /\ t.copy_offset = 0
       /\ page_end(t) = t.page_start + t.page_length /\ page_end(t) <= MaxAddress
       /\ t.file_size <= t.page_length
       /\ t.source_offset + t.file_size <= image.source.file_length
  <2>1. t.page_start \in Nat /\ t.file_size \in Nat /\ t.source_offset \in Nat
        /\ t.target_start = t.page_start /\ t.copy_offset = 0
    BY <1>2, <1>3, <1>4, Zenon
  <2>2. t.page_length \in Nat /\ page_end(t) <= MaxAddress /\ t.file_size <= t.page_length
    BY <1>4, <1>10, <1>11, Zenon DEF e, k
  <2>3. t.source_offset + t.file_size <= image.source.file_length
    BY <1>4, <1>5, Zenon
  <2> QED
    BY <1>9, <2>1, <2>2, <2>3, Zenon
<1> HIDE DEF t
<1> QED
  BY <1>1, <1>12, Zenon DEF t

LEMMA InItemIs ==
  ASSUME image \in Images, Planned, NEW i \in 1..Len(items), NEW a \in Nat
  PROVE  InItem(i, a) <=> a \div PageSize \in PagesOf(Seg(i))
<1> DEFINE s == Seg(i)
<1>1. /\ s \in Segments /\ items[i] = make_item(s)
      /\ s.memory_size > 0 /\ s.target % PageSize = 0
  BY PlannedItems, Zenon
<1>2. /\ Low(s) \in Nat /\ High(s) \in Nat
      /\ make_item(s).page_start = PageSize * Low(s)
      /\ page_end(make_item(s)) = PageSize * (High(s) + 1)
  BY <1>1, ItemOf, Zenon
<1>3. a \div PageSize \in Low(s)..High(s)
        <=> a >= PageSize * Low(s) /\ a < PageSize * (High(s) + 1)
  BY <1>2, OnPages, Zenon
<1> QED
  BY <1>1, <1>2, <1>3, PagesAre, Zenon DEF InItem

LEMMA FileFits ==
  ASSUME image \in Images, Planned, Len(items) > 0
  PROVE  /\ image.source.page_start \in Nat /\ image.source.file_length \in Nat
         /\ image.source.page_start + image.source.file_length <= MaxAddress
         /\ \A a \in Nat : InFile(a) => a \div PageSize \in SourcePages
<1> DEFINE f == image.source.page_start \div PageSize
           g == f + image.source.page_count - 1
           b == image.source.page_start
           n == image.source.file_length
           e == source_page_end
<1>1. /\ f \in Nat /\ g \in Nat /\ SourcePages = f..g
      /\ b = PageSize * f /\ e = PageSize * (g + 1)
  BY SourceIs, Zenon
<1>2. /\ b \in Nat /\ n \in Nat /\ e \in Nat /\ b + n <= e
  <2> DEFINE m == image.source.page_count * PageSize
  <2>1. b \in Nat /\ n \in Addresses /\ n <= m /\ e = b + m
    BY ImageTypes, Zenon DEF source_page_end
  <2>2. m \in Nat
    BY ImageTypes, SizeIs
  <2> HIDE DEF m, b, n, e
  <2> QED
    BY <2>1, <2>2 DEF Addresses
<1>3. e <= MaxAddress
  BY DEF Planned
<1>4. \A a \in Nat : a >= b /\ a < e => a \div PageSize \in SourcePages
  BY <1>1, OnPages, Zenon
<1>5. \A a \in Nat : InFile(a) => a >= b /\ a < b + n
  BY Zenon DEF InFile
<1> HIDE DEF b, n, e, f, g
<1>6. \A a \in Nat : InFile(a) => a >= b /\ a < e
  BY <1>2, <1>5
<1>7. b + n <= MaxAddress
  BY <1>2, <1>3, WindowTypes
<1> QED
  BY <1>2, <1>4, <1>6, <1>7, Zenon DEF b, n

\* No byte belongs to two items, or to an item and the file.
LEMMA Apart ==
  ASSUME image \in Images, Planned, NEW i \in 1..Len(items), NEW a \in Addresses, InItem(i, a)
  PROVE  /\ ~InFile(a)
         /\ \A j \in 1..Len(items) \ {i} : ~InItem(j, a)
<1>1. a \in Nat /\ a \div PageSize \in PagesOf(Seg(i))
  <2>1. a \in Nat
    BY WindowTypes DEF Addresses
  <2> QED
    BY <2>1, InItemIs
<1>2. Len(items) > 0
  BY PlannedItems
<1>3. /\ PagesOf(Seg(i)) \cap SourcePages = {}
      /\ \A j \in 1..Len(items) \ {i} : PagesOf(Seg(i)) \cap PagesOf(Seg(j)) = {}
  BY Zenon DEF Planned, Sound
<1>4. ~InFile(a)
  BY <1>1, <1>2, <1>3, FileFits, Zenon
<1>5. ASSUME NEW j \in 1..Len(items) \ {i}, InItem(j, a) PROVE FALSE
  <2>1. a \div PageSize \in PagesOf(Seg(j))
    BY <1>1, <1>5, InItemIs, Zenon
  <2> QED
    BY <1>1, <1>3, <2>1, Zenon
<1> QED
  BY <1>4, <1>5, Zenon

\* The byte an item's byte is copied from is one of the file.
LEMMA CopiedFrom ==
  ASSUME image \in Images, Planned, NEW i \in 1..Len(items), NEW a \in Addresses,
         InItem(i, a), FromFile(i, a)
  PROVE  LET o == OffsetOf(i, a)
             b == image.source.page_start + o
         IN /\ o \in 0..(image.source.file_length - 1)
            /\ b \in Addresses /\ InFile(b) /\ b - image.source.page_start = o
<1> DEFINE t == items[i]
           n == image.source.file_length
           p == image.source.page_start
<1>1. /\ t.page_start \in Nat /\ t.file_size \in Nat /\ t.source_offset \in Nat
      /\ t.target_start = t.page_start /\ t.source_offset + t.file_size <= n
  BY ItemFacts, Zenon
<1>2. p \in Nat /\ n \in Nat /\ p + n <= MaxAddress
  <2>1. Len(items) > 0
    BY PlannedItems
  <2> QED
    BY <2>1, FileFits
<1>3. a \in Nat /\ a >= t.page_start /\ a - t.target_start < t.file_size
      /\ OffsetOf(i, a) = t.source_offset + (a - t.target_start)
  BY WindowTypes DEF Addresses, InItem, FromFile, OffsetOf
<1> HIDE DEF t, n, p
<1> DEFINE x == a - t.target_start
           o == OffsetOf(i, a)
<1>4. x \in Nat /\ x < t.file_size /\ o = t.source_offset + x
  BY <1>1, <1>3
<1> HIDE DEF x, o
<1>5. o \in 0..(n - 1)
  BY <1>1, <1>2, <1>4
<1>6. /\ p + o \in Nat /\ p + o <= MaxAddress /\ p + o >= p /\ p + o < p + n
      /\ (p + o) - p = o
  BY <1>2, <1>5, WindowTypes
<1>7. p + o \in Addresses
  BY <1>6, WindowTypes DEF Addresses
<1> QED
  BY <1>5, <1>6, <1>7, Zenon DEF InFile, n, p, o

-----------------------------------------------------------------------------
(* Zeroing, copying and verifying.                                          *)

LEMMA RoundIs ==
  ASSUME NEW next, Round(next), Len(items) \in Nat, cursor \in 0..(Len(items) - 1)
  PROVE  /\ UNCHANGED <<image, items, total_page_bytes, faults, reason>>
         /\ \/ /\ cursor + 1 = Len(items) /\ cursor' = 0 /\ phase' = next
            \/ /\ cursor + 1 < Len(items) /\ cursor' = cursor + 1 /\ phase' = phase
         /\ cursor' \in 0..(Len(items) - 1) /\ cursor + 1 \in 1..Len(items)
<1>1. /\ UNCHANGED <<image, items, total_page_bytes, faults, reason>>
      /\ cursor' = (cursor + 1) % Len(items)
      /\ phase' = IF cursor + 1 = Len(items) THEN next ELSE phase
  BY Zenon DEF Round, planVars
<1>2. ASSUME NEW x \in Nat, NEW y \in Nat, x < y PROVE x + 1 = y \/ (x + 1 < y /\ (x + 1) % y = x + 1)
  BY <1>2
<1>3. ASSUME NEW y \in Nat, y > 0 PROVE y % y = 0
  BY <1>3, Z3
<1>4. cursor \in Nat /\ Len(items) > 0 /\ cursor < Len(items) /\ cursor + 1 \in 1..Len(items)
  BY SMT
<1>5. CASE cursor + 1 = Len(items)
  BY <1>1, <1>3, <1>4, <1>5
<1>6. CASE cursor + 1 < Len(items) /\ (cursor + 1) % Len(items) = cursor + 1
  BY <1>1, <1>4, <1>6
<1> QED
  BY <1>2, <1>4, <1>5, <1>6

\* What the loops over the items share.
LEMMA LoadingFacts ==
  ASSUME IInv, phase \in Loading
  PROVE  /\ image \in Images /\ Planned /\ Complete /\ Placed
         /\ Len(items) \in Nat /\ Len(items) > 0 /\ cursor \in 0..(Len(items) - 1)
         /\ faults \in Nat
<1>1. /\ image \in Images /\ Planned /\ Progress /\ Placed
  BY DEF IInv, Loading
<1>2. Len(items) \in Nat
  BY <1>1, PlannedItems, Zenon
<1> QED
  BY <1>1, <1>2, Zenon DEF Progress, Complete

\* The loading ends without a kernel.
LEMMA FailStep ==
  ASSUME IInv, phase \in Loading, NEW why, Stop("failed", why), why = "Backend" \/ faults > 0
  PROVE  IInv'
<1>1. /\ phase' = "failed" /\ reason' = why
      /\ UNCHANGED <<image, items, total_page_bytes, cursor, memory, loaded, faults>>
  BY Zenon DEF Stop, planVars
<1>2. Planned'
  BY <1>1, LoadingFacts, PlanKept, Zenon
<1> QED
  BY <1>1, <1>2, LoadingFacts DEF IInv, Progress, Recording, Loading

LEMMA ZeroStep ==
  ASSUME Counting, IInv, zero
  PROVE  IInv'
<1> DEFINE c == cursor + 1
           n == Len(items)
<1>1. phase = "zeroing" /\ phase \in Loading
  BY DEF zero, Loading
<1>2. /\ image \in Images /\ Planned /\ Complete /\ Placed /\ n \in Nat /\ n > 0
      /\ cursor \in 0..(n - 1) /\ faults \in Nat /\ Recorded(0)
  BY <1>1, LoadingFacts DEF IInv, Recording
<1>3. CASE Stop("failed", "Backend")
  BY <1>1, <1>3, FailStep, Zenon
<1>4. CASE /\ memory' = [a \in Addresses |->
                           IF a >= items[c].page_start /\ a < page_end(items[c])
                           THEN 0 ELSE memory[a]]
           /\ Round("copying") /\ UNCHANGED loaded
  <2>1. /\ UNCHANGED <<image, items, total_page_bytes, faults, reason, loaded>>
        /\ \/ c = n /\ cursor' = 0 /\ phase' = "copying"
           \/ c < n /\ cursor' = c /\ phase' = "zeroing"
        /\ cursor' \in 0..(n - 1) /\ c \in 1..n
    BY <1>1, <1>2, <1>4, RoundIs, Zenon
  <2>2. \A a \in Addresses : memory'[a] = IF InItem(c, a) THEN 0 ELSE memory[a]
    BY <1>4, Zenon DEF InItem
  <2>3. /\ Planned' /\ Complete' /\ Recorded(0)'
    BY <1>2, <2>1, PlanKept, RecordKept, Zenon
  <2> HIDE DEF c
  <2>4. memory' \in [Addresses -> Int]
    <3>1. memory \in [Addresses -> Int]
      BY <1>2, Zenon DEF Placed
    <3> QED
      BY <1>4, <3>1
  <2>5. \A a \in Addresses : InFile(a) => memory'[a] = memory[a]
    BY <1>2, <2>1, <2>2, Apart, Zenon
  <2>6. \A a \in Addresses : (\A i \in 1..n : ~InItem(i, a)) => memory'[a] = memory[a]
    BY <2>1, <2>2, Zenon
  <2>7. ASSUME faults = 0, NEW i \in 1..n, i <= cursor \/ i = c PROVE Zeroed(i)'
    <3>1. i <= cursor => i \in 1..cursor
      BY <1>2
    <3>2. \A a \in Addresses : InItem(i, a) => memory'[a] = 0
      BY <1>1, <1>2, <2>2, <2>7, <3>1, Zenon DEF Placed, Zeroed
    <3> QED
      BY <2>1, <3>2, BytesKept, Zenon DEF Zeroed
  <2>8. /\ \A a : InFile(a)' <=> InFile(a)
        /\ \A i, a : InItem(i, a)' <=> InItem(i, a)
    BY <2>1, BytesKept, Zenon
  <2>9. Placed'
    <3>1. \A a \in Addresses : InFile(a)' =>
            memory'[a] \in {FileByte(a - image'.source.page_start), Garbage}
      BY <1>2, <2>1, <2>5, <2>8, Zenon DEF Placed
    <3>2. faults' = 0 \/ phase' \in {"recording", "recorded", "loaded"} =>
            \A a \in Addresses : InFile(a)' => memory'[a] = FileByte(a - image'.source.page_start)
      <4>1. phase' \notin {"recording", "recorded", "loaded"}
        BY <2>1
      <4> QED
        BY <1>2, <2>1, <2>5, <2>8, <4>1, Zenon DEF Placed
    <3>3. \A a \in Addresses :
            ~InFile(a)' /\ (phase' \in Loading => \A i \in 1..Len(items') : ~InItem(i, a)')
              => memory'[a] = Stale
      <4>1. phase' \in Loading
        BY <2>1 DEF Loading
      <4> QED
        BY <1>1, <1>2, <2>1, <2>6, <2>8, <4>1, Zenon DEF Placed
    <3>4. faults' = 0 /\ phase' = "zeroing" => \A i \in 1..cursor' : Zeroed(i)'
      <4>1. phase' = "zeroing" => cursor' = c /\ c < n
        BY <2>1
      <4>2. \A i \in 1..c : c < n => i \in 1..n /\ (i <= cursor \/ i = c)
        BY <1>2, <2>1 DEF c
      <4> QED
        BY <2>1, <2>7, <4>1, <4>2, Zenon
    <3>5. faults' = 0 /\ phase' = "copying" =>
            \A i \in 1..Len(items') : IF i <= cursor' THEN Copied(i)' ELSE Zeroed(i)'
      <4>1. phase' = "copying" => cursor' = 0 /\ c = n
        BY <2>1
      <4>2. \A i \in 1..n : ~(i <= 0) /\ (c = n => i <= cursor \/ i = c)
        BY <1>2 DEF c
      <4> QED
        BY <2>1, <2>7, <4>1, <4>2, Zenon
    <3>6. phase' \in {"zeroing", "copying"}
      BY <2>1
    <3> QED
      BY <2>4, <3>1, <3>2, <3>3, <3>4, <3>5, <3>6 DEF Placed
  <2> QED
    BY <1>2, <2>1, <2>3, <2>9 DEF IInv, Progress, Recording, Loading
<1> QED
  BY <1>3, <1>4 DEF zero

LEMMA CopyStep ==
  ASSUME Counting, IInv, copy
  PROVE  IInv'
<1> DEFINE c == cursor + 1
           n == Len(items)
<1>1. phase = "copying" /\ phase \in Loading
  BY DEF copy, Loading
<1>2. /\ image \in Images /\ Planned /\ Complete /\ Placed /\ n \in Nat /\ n > 0
      /\ cursor \in 0..(n - 1) /\ faults \in Nat /\ Recorded(0)
  BY <1>1, LoadingFacts DEF IInv, Recording
<1>3. CASE Stop("failed", "Backend")
  BY <1>1, <1>3, FailStep, Zenon
<1>4. CASE memory' = copy_target(items[c]) /\ Round("verifying") /\ UNCHANGED loaded
  <2>1. /\ UNCHANGED <<image, items, total_page_bytes, faults, reason, loaded>>
        /\ \/ c = n /\ cursor' = 0 /\ phase' = "verifying"
           \/ c < n /\ cursor' = c /\ phase' = "copying"
        /\ cursor' \in 0..(n - 1) /\ c \in 1..n
    BY <1>1, <1>2, <1>4, RoundIs, Zenon
  <2>2. /\ Planned' /\ Complete' /\ Recorded(0)'
    BY <1>2, <2>1, PlanKept, RecordKept, Zenon
  <2> HIDE DEF c
  <2>3. memory \in [Addresses -> Int]
    BY <1>2, Zenon DEF Placed
  <2>4. ASSUME NEW a \in Addresses
        PROVE  memory'[a] = IF InItem(c, a) /\ FromFile(c, a)
                              THEN Source(OffsetOf(c, a)) ELSE memory[a]
    <3> DEFINE t == items[c]
               o == a - t.page_start - t.copy_offset
    <3>1. /\ t.page_start \in Nat /\ t.page_length \in Nat /\ t.file_size \in Nat
          /\ t.source_offset \in Nat /\ t.target_start = t.page_start /\ t.copy_offset = 0
          /\ page_end(t) = t.page_start + t.page_length /\ t.file_size <= t.page_length
      BY <1>2, <2>1, ItemFacts, Zenon
    <3>2. memory'[a] = IF o >= 0 /\ o < t.file_size THEN Source(t.source_offset + o)
                       ELSE memory[a]
      BY <1>4, Zenon DEF copy_target
    <3>3. /\ InItem(c, a) <=> a >= t.page_start /\ a < page_end(t)
          /\ FromFile(c, a) <=> a - t.target_start < t.file_size
          /\ OffsetOf(c, a) = t.source_offset + (a - t.target_start)
      BY Zenon DEF InItem, FromFile, OffsetOf
    <3>4. a \in Nat
      BY WindowTypes DEF Addresses
    <3>5. o = a - t.target_start
      BY <3>1, <3>4
    <3>6. o >= 0 /\ o < t.file_size <=> InItem(c, a) /\ FromFile(c, a)
      BY <3>1, <3>3, <3>4
    <3> HIDE DEF o, t
    <3> QED
      BY <3>2, <3>3, <3>5, <3>6, Zenon DEF t
  <2>5. memory' \in [Addresses -> Int]
    <3>1. memory' = [a \in Addresses |-> memory'[a]]
      BY <1>4, Zenon DEF copy_target
    <3>2. ASSUME NEW a \in Addresses PROVE memory'[a] \in Int
      <4>1. CASE InItem(c, a) /\ FromFile(c, a)
        <5>1. image.source.page_start + OffsetOf(c, a) \in Addresses
          BY <1>2, <2>1, <4>1, CopiedFrom, Zenon
        <5> QED
          BY <2>3, <2>4, <4>1, <5>1 DEF Source
      <4>2. CASE ~(InItem(c, a) /\ FromFile(c, a))
        BY <2>3, <2>4, <4>2
      <4> QED
        BY <4>1, <4>2
    <3> QED
      BY <3>1, <3>2
  <2>6. \A a \in Addresses : ~InItem(c, a) => memory'[a] = memory[a]
    BY <2>4, Zenon
  <2>7. \A a \in Addresses : InFile(a) => memory'[a] = memory[a]
    BY <1>2, <2>1, <2>6, Apart, Zenon
  <2>8. /\ \A a : InFile(a)' <=> InFile(a)
        /\ \A i, a : InItem(i, a)' <=> InItem(i, a)
        /\ \A i, a : FromFile(i, a)' <=> FromFile(i, a)
        /\ \A i, a : OffsetOf(i, a)' = OffsetOf(i, a)
    BY <2>1, BytesKept, Zenon
  <2>9. \A i \in 1..n : i # c =>
          \A a \in Addresses : InItem(i, a) => memory'[a] = memory[a]
    BY <1>2, <2>1, <2>6, Apart, Zenon
  <2>10. ASSUME faults = 0, NEW i \in 1..n
         PROVE  IF i <= cursor \/ i = c THEN Copied(i)' ELSE Zeroed(i)'
    <3>1. IF i <= cursor THEN Copied(i) ELSE Zeroed(i)
      BY <1>1, <1>2, <2>10, Zenon DEF Placed
    <3>2. CASE i = c
      <4>1. Zeroed(i)
        <5>1. ~(i <= cursor)
          BY <1>2, <3>2 DEF c
        <5> QED
          BY <3>1, <5>1, Zenon
      <4>2. ASSUME NEW a \in Addresses, InItem(i, a), FromFile(i, a)
            PROVE  memory'[a] = FileByte(OffsetOf(i, a))
        <5> DEFINE b == image.source.page_start + OffsetOf(i, a)
        <5>1. b \in Addresses /\ InFile(b) /\ b - image.source.page_start = OffsetOf(i, a)
          BY <1>2, <4>2, CopiedFrom, Zenon
        <5>2. memory[b] = FileByte(b - image.source.page_start)
          BY <1>2, <2>10, <5>1, Zenon DEF Placed
        <5>3. memory'[a] = memory[b]
          BY <2>4, <3>2, <4>2, Zenon DEF Source
        <5> QED
          BY <5>1, <5>2, <5>3, Zenon
      <4>3. ASSUME NEW a \in Addresses, InItem(i, a), ~FromFile(i, a)
            PROVE  memory'[a] = 0
        BY <2>4, <3>2, <4>1, <4>3, Zenon DEF Zeroed
      <4>4. Copied(i)'
        BY <2>8, <4>2, <4>3, Zenon DEF Copied
      <4> QED
        BY <3>2, <4>4, Zenon
    <3>3. CASE i # c /\ i <= cursor
      <4>1. Copied(i)'
        BY <2>8, <2>9, <3>1, <3>3, Zenon DEF Copied
      <4> QED
        BY <3>3, <4>1, Zenon
    <3>4. CASE i # c /\ ~(i <= cursor)
      <4>1. Zeroed(i)'
        BY <2>8, <2>9, <3>1, <3>4, Zenon DEF Zeroed
      <4> QED
        BY <3>4, <4>1, Zenon
    <3> QED
      BY <3>2, <3>3, <3>4, Zenon
  <2>11. Placed'
    <3>1. \A a \in Addresses : InFile(a)' =>
            memory'[a] \in {FileByte(a - image'.source.page_start), Garbage}
      BY <1>2, <2>1, <2>7, <2>8, Zenon DEF Placed
    <3>2. faults' = 0 \/ phase' \in {"recording", "recorded", "loaded"} =>
            \A a \in Addresses : InFile(a)' => memory'[a] = FileByte(a - image'.source.page_start)
      <4>1. phase' \notin {"recording", "recorded", "loaded"}
        BY <2>1
      <4> QED
        BY <1>2, <2>1, <2>7, <2>8, <4>1, Zenon DEF Placed
    <3>3. \A a \in Addresses :
            ~InFile(a)' /\ (phase' \in Loading => \A i \in 1..Len(items') : ~InItem(i, a)')
              => memory'[a] = Stale
      <4>1. phase' \in Loading
        BY <2>1 DEF Loading
      <4> QED
        BY <1>1, <1>2, <2>1, <2>6, <2>8, <4>1, Zenon DEF Placed
    <3>4. faults' = 0 /\ phase' = "copying" =>
            \A i \in 1..Len(items') : IF i <= cursor' THEN Copied(i)' ELSE Zeroed(i)'
      <4>1. phase' = "copying" => cursor' = c
        BY <2>1
      <4>2. \A i \in 1..n : i <= c <=> i <= cursor \/ i = c
        BY <1>2 DEF c
      <4> QED
        BY <2>1, <2>10, <4>1, <4>2, Zenon
    <3>5. faults' = 0 /\ phase' = "verifying" => \A i \in 1..Len(items') : Copied(i)'
      <4>1. phase' = "verifying" => c = n
        BY <2>1
      <4>2. \A i \in 1..n : c = n => i <= cursor \/ i = c
        BY <1>2 DEF c
      <4> QED
        BY <2>1, <2>10, <4>1, <4>2, Zenon
    <3>6. phase' = "verifying" => 1..cursor' = {}
      BY <2>1
    <3>7. phase' \in {"copying", "verifying"}
      BY <2>1
    <3> QED
      BY <2>5, <3>1, <3>2, <3>3, <3>4, <3>5, <3>6, <3>7 DEF Placed
  <2> QED
    BY <1>2, <2>1, <2>2, <2>11 DEF IInv, Progress, Recording, Loading
<1> QED
  BY <1>3, <1>4 DEF copy

\* verify_target looks at every byte of the item's pages.
LEMMA VerifyIs ==
  ASSUME image \in Images, Planned, NEW i \in 1..Len(items)
  PROVE  verify_target(items[i]) <=>
           \A a \in Addresses : InItem(i, a) =>
             IF FromFile(i, a) THEN memory[a] = Source(OffsetOf(i, a)) ELSE memory[a] = 0
<1> DEFINE t == items[i]
           Equal(o) == Target(t, t.copy_offset + o) = Source(t.source_offset + o)
           Zero(o) == Target(t, o) = 0
<1>1. /\ t.page_start \in Nat /\ t.page_length \in Nat /\ t.file_size \in Nat
      /\ t.source_offset \in Nat /\ t.target_start = t.page_start /\ t.copy_offset = 0
      /\ page_end(t) = t.page_start + t.page_length /\ page_end(t) <= MaxAddress
      /\ t.file_size <= t.page_length
  BY ItemFacts, Zenon
<1>2. verify_target(t) <=>
        /\ \A o \in 0..(t.file_size - 1) : Equal(o)
        /\ \A o \in (t.copy_offset + t.file_size)..(t.page_length - 1) : Zero(o)
  BY Zenon DEF verify_target
<1>3. \A a : /\ InItem(i, a) <=> a >= t.page_start /\ a < page_end(t)
             /\ FromFile(i, a) <=> a - t.target_start < t.file_size
             /\ OffsetOf(i, a) = t.source_offset + (a - t.target_start)
  BY Zenon DEF InItem, FromFile, OffsetOf
<1>4. \A o : Target(t, o) = memory[t.page_start + o]
  BY Zenon DEF Target
<1> HIDE DEF t
<1>5. ASSUME verify_target(t), NEW a \in Addresses, InItem(i, a)
      PROVE  IF FromFile(i, a) THEN memory[a] = Source(OffsetOf(i, a)) ELSE memory[a] = 0
  <2> DEFINE o == a - t.target_start
  <2>1. a \in Nat /\ a >= t.page_start /\ a < t.page_start + t.page_length
    BY <1>1, <1>3, <1>5, WindowTypes DEF Addresses
  <2>2. /\ o \in 0..(t.page_length - 1) /\ t.page_start + o = a
        /\ t.page_start + (t.copy_offset + o) = a
    BY <1>1, <2>1
  <2>3. CASE FromFile(i, a)
    <3>1. o \in 0..(t.file_size - 1)
      BY <1>1, <1>3, <2>2, <2>3
    <3>2. Equal(o)
      BY <1>2, <1>5, <3>1, Zenon
    <3> QED
      BY <1>3, <1>4, <2>2, <2>3, <3>2, Zenon
  <2>4. CASE ~FromFile(i, a)
    <3>1. ~(o < t.file_size)
      BY <1>3, <2>4, Zenon
    <3>2. o \in (t.copy_offset + t.file_size)..(t.page_length - 1)
      BY <1>1, <2>2, <3>1
    <3>3. Zero(o)
      BY <1>2, <1>5, <3>2, Zenon
    <3> QED
      BY <1>4, <2>2, <2>4, <3>3, Zenon
  <2> QED
    BY <2>3, <2>4
<1>6. ASSUME \A a \in Addresses : InItem(i, a) =>
               IF FromFile(i, a) THEN memory[a] = Source(OffsetOf(i, a)) ELSE memory[a] = 0
      PROVE  verify_target(t)
  <2>1. ASSUME NEW o \in 0..(t.page_length - 1), NEW a, a = t.page_start + o
        PROVE  /\ InItem(i, a) /\ a - t.target_start = o
               /\ Target(t, o) = memory[a] /\ Target(t, t.copy_offset + o) = memory[a]
               /\ IF FromFile(i, a) THEN memory[a] = Source(OffsetOf(i, a)) ELSE memory[a] = 0
    <3>1. /\ a \in Nat /\ a >= t.page_start /\ a < page_end(t) /\ a <= MaxAddress
          /\ a - t.target_start = o /\ a = t.page_start + (t.copy_offset + o)
      <4> DEFINE ps == t.page_start
                 pl == t.page_length
                 pe == page_end(t)
                 ts == t.target_start
                 co == t.copy_offset
      <4>1. /\ ps \in Nat /\ pl \in Nat /\ ts = ps /\ co = 0 /\ pe = ps + pl
            /\ pe <= MaxAddress /\ o \in 0..(pl - 1) /\ a = ps + o
        BY <1>1, <2>1, Zenon
      <4> HIDE DEF ps, pl, pe, ts, co
      <4>2. /\ a \in Nat /\ a >= ps /\ a < pe /\ a <= MaxAddress
            /\ a - ts = o /\ a = ps + (co + o)
        BY <4>1, WindowTypes
      <4> QED
        BY <4>2, Zenon DEF ps, pl, pe, ts, co
    <3>2. a \in Addresses
      BY <3>1, WindowTypes DEF Addresses
    <3>3. InItem(i, a)
      BY <1>3, <3>1, Zenon
    <3>4. Target(t, o) = memory[a] /\ Target(t, t.copy_offset + o) = memory[a]
      <4>1. /\ Target(t, o) = memory[t.page_start + o]
            /\ Target(t, t.copy_offset + o) = memory[t.page_start + (t.copy_offset + o)]
        BY <1>4, Zenon
      <4> QED
        BY <2>1, <3>1, <4>1
    <3> QED
      BY <1>6, <3>1, <3>2, <3>3, <3>4, Zenon
  <2>2. ASSUME NEW o \in 0..(t.file_size - 1) PROVE Equal(o)
    <3>1. o \in 0..(t.page_length - 1) /\ o < t.file_size
      BY <1>1
    <3>2. PICK a : a = t.page_start + o
      OBVIOUS
    <3>3. FromFile(i, a) /\ OffsetOf(i, a) = t.source_offset + o
      <4>1. a - t.target_start = o
        BY <2>1, <3>1, <3>2, Zenon
      <4> QED
        BY <1>3, <3>1, <4>1, Zenon
    <3>4. memory[a] = Source(OffsetOf(i, a)) /\ Target(t, t.copy_offset + o) = memory[a]
      BY <2>1, <3>1, <3>2, <3>3, Zenon
    <3> QED
      BY <3>3, <3>4, Zenon
  <2>3. ASSUME NEW o \in (t.copy_offset + t.file_size)..(t.page_length - 1) PROVE Zero(o)
    <3>1. o \in 0..(t.page_length - 1) /\ ~(o < t.file_size)
      BY <1>1
    <3>2. PICK a : a = t.page_start + o
      OBVIOUS
    <3>3. ~FromFile(i, a)
      <4>1. a - t.target_start = o
        BY <2>1, <3>1, <3>2, Zenon
      <4> QED
        BY <1>3, <3>1, <4>1, Zenon
    <3> QED
      BY <2>1, <3>1, <3>2, <3>3, Zenon
  <2> QED
    BY <1>2, <2>2, <2>3, Zenon
<1> QED
  BY <1>5, <1>6, Zenon DEF t

LEMMA VerifyStep ==
  ASSUME Counting, IInv, verify
  PROVE  IInv'
<1> DEFINE c == cursor + 1
           n == Len(items)
<1>1. phase = "verifying" /\ phase \in Loading
  BY DEF verify, Loading
<1>2. /\ image \in Images /\ Planned /\ Complete /\ Placed /\ n \in Nat /\ n > 0
      /\ cursor \in 0..(n - 1) /\ faults \in Nat /\ Recorded(0)
  BY <1>1, LoadingFacts DEF IInv, Recording
<1>3. c \in 1..n
  BY <1>2
<1>4. CASE ~verify_target(items[c])
  <2>1. faults # 0
    <3> SUFFICES ASSUME faults = 0 PROVE FALSE
      OBVIOUS
    <3>1. Copied(c)
      BY <1>1, <1>2, <1>3 DEF Placed
    <3>2. ASSUME NEW a \in Addresses, InItem(c, a), FromFile(c, a)
          PROVE  memory[a] = Source(OffsetOf(c, a))
      <4> DEFINE b == image.source.page_start + OffsetOf(c, a)
      <4>1. b \in Addresses /\ InFile(b) /\ b - image.source.page_start = OffsetOf(c, a)
        BY <1>2, <1>3, <3>2, CopiedFrom, Zenon
      <4>2. memory[b] = FileByte(b - image.source.page_start)
        BY <1>2, <4>1, Zenon DEF Placed
      <4> QED
        BY <3>1, <3>2, <4>1, <4>2, Zenon DEF Copied, Source
    <3>3. verify_target(items[c])
      BY <1>2, <1>3, <3>1, <3>2, VerifyIs, Zenon DEF Copied
    <3> QED
      BY <1>4, <3>3
  <2>2. Stop("failed", "Verify") /\ faults > 0
    BY <1>2, <1>4, <2>1 DEF verify
  <2> QED
    BY <1>1, <2>2, FailStep, Zenon
<1>5. CASE verify_target(items[c])
  <2>1. Round("checking") /\ UNCHANGED <<memory, loaded>>
    BY <1>5, Zenon DEF verify
  <2>2. /\ UNCHANGED <<image, items, total_page_bytes, faults, reason, loaded, memory>>
        /\ \/ c = n /\ cursor' = 0 /\ phase' = "checking"
           \/ c < n /\ cursor' = c /\ phase' = "verifying"
        /\ cursor' \in 0..(n - 1)
    BY <1>1, <1>2, <2>1, RoundIs, Zenon
  <2>3. /\ Planned' /\ Complete' /\ Recorded(0)'
    BY <1>2, <2>2, PlanKept, RecordKept, Zenon
  <2>4. Verified(c)
    BY <1>2, <1>3, <1>5, VerifyIs, Zenon DEF Verified
  <2>5. \A i \in 1..c : Verified(i)
    <3>1. \A i \in 1..c : i \in 1..cursor \/ i = c
      BY <1>2
    <3>2. \A i \in 1..cursor : Verified(i)
      BY <1>1, <1>2, Zenon DEF Placed
    <3> HIDE DEF c
    <3> QED
      BY <2>4, <3>1, <3>2, Zenon
  <2>6. /\ \A a : InFile(a)' <=> InFile(a)
        /\ \A i, a : InItem(i, a)' <=> InItem(i, a)
        /\ \A i : (Copied(i)' <=> Copied(i)) /\ (Verified(i)' <=> Verified(i))
    BY <2>2, BytesKept, Zenon
  <2> HIDE DEF c
  <2>7. Placed'
    BY <1>1, <1>2, <2>2, <2>5, <2>6 DEF Placed, Loading
  <2> QED
    BY <1>2, <2>2, <2>3, <2>7 DEF IInv, Progress, Recording, Loading
<1> QED
  BY <1>4, <1>5

\* The file is read again: with every byte of it in place, so are the copies.
LEMMA RecheckStep ==
  ASSUME Counting, IInv, recheck
  PROVE  IInv'
<1> DEFINE n == Len(items)
           p == image.source.page_start
           Intact == \A a \in Addresses : InFile(a) => memory[a] = FileByte(a - p)
<1>1. phase = "checking" /\ phase \in Loading
  BY DEF recheck, Loading
<1>2. /\ image \in Images /\ Planned /\ Complete /\ Placed /\ n \in Nat /\ n > 0
      /\ cursor = 0 /\ faults \in Nat /\ Recorded(0)
  BY <1>1, LoadingFacts DEF IInv, Recording, Progress
<1>3. /\ p \in Nat /\ image.source.file_length \in Nat
      /\ p + image.source.file_length <= MaxAddress
  BY <1>2, FileFits, Zenon
<1>4. source_is_unchanged <=> Intact
  <2>1. ASSUME source_is_unchanged, NEW a \in Addresses, InFile(a)
        PROVE  memory[a] = FileByte(a - p)
    <3>1. /\ a - p \in 0..(image.source.file_length - 1) /\ p + (a - p) = a
      BY <1>3, <2>1, WindowTypes DEF Addresses, InFile
    <3> QED
      BY <2>1, <3>1, Zenon DEF source_is_unchanged, Source
  <2>2. ASSUME Intact, NEW o \in 0..(image.source.file_length - 1)
        PROVE  Source(o) = FileByte(o)
    <3>1. p + o \in Addresses /\ InFile(p + o) /\ (p + o) - p = o
      BY <1>3, WindowTypes DEF Addresses, InFile
    <3> QED
      BY <2>2, <3>1, Zenon DEF Source
  <2> QED
    BY <2>1, <2>2, Zenon DEF source_is_unchanged
<1> HIDE DEF p
<1>5. CASE ~source_is_unchanged
  <2>1. faults # 0
    BY <1>2, <1>4, <1>5, Zenon DEF Placed, p
  <2>2. Stop("failed", "Verify") /\ faults > 0
    BY <1>2, <1>5, <2>1 DEF recheck
  <2> QED
    BY <1>1, <2>2, FailStep, Zenon
<1>6. CASE source_is_unchanged
  <2>1. /\ phase' = "recording"
        /\ UNCHANGED <<image, items, total_page_bytes, cursor, memory, loaded, faults>>
    BY <1>6, Zenon DEF recheck, Stop, planVars
  <2>2. ASSUME NEW i \in 1..n PROVE Copied(i)
    <3>1. Verified(i)
      BY <1>1, <1>2, Zenon DEF Placed
    <3>2. ASSUME NEW a \in Addresses, InItem(i, a), FromFile(i, a)
          PROVE  memory[a] = FileByte(OffsetOf(i, a))
      <4> DEFINE b == image.source.page_start + OffsetOf(i, a)
      <4>1. /\ b \in Addresses /\ InFile(b) /\ b - image.source.page_start = OffsetOf(i, a)
            /\ OffsetOf(i, a) \in 0..(image.source.file_length - 1)
        BY <1>2, <3>2, CopiedFrom, Zenon
      <4>2. Source(OffsetOf(i, a)) = FileByte(OffsetOf(i, a))
        BY <1>4, <1>6, <4>1, Zenon DEF Source, p
      <4>3. FileByte(OffsetOf(i, a)) # Garbage
        BY <1>3, <4>1 DEF FileByte, Garbage
      <4> QED
        BY <3>1, <3>2, <4>2, <4>3, Zenon DEF Verified
    <3> QED
      BY <3>1, <3>2, Zenon DEF Copied, Verified
  <2>3. /\ Planned' /\ Complete' /\ Recorded(0)'
    BY <1>2, <2>1, PlanKept, RecordKept, Zenon
  <2>4. /\ \A a : InFile(a)' <=> InFile(a)
        /\ \A i, a : InItem(i, a)' <=> InItem(i, a)
        /\ \A i : Copied(i)' <=> Copied(i)
    BY <2>1, BytesKept, Zenon
  <2>5. Placed'
    BY <1>1, <1>2, <1>4, <1>6, <2>1, <2>2, <2>4 DEF Placed, Loading, p
  <2>6. cursor' \in 0..(Len(items') - 1) /\ Recorded(cursor)'
    BY <1>2, <2>1, <2>3
  <2> QED
    BY <1>2, <2>1, <2>3, <2>5, <2>6 DEF IInv, Progress, Recording, Loading
<1> QED
  BY <1>5, <1>6

-----------------------------------------------------------------------------
(* Recording.                                                               *)

LEMMA LeastIs ==
  ASSUME NEW S \in SUBSET Int, NEW x \in S, \A y \in S : x <= y
  PROVE  Least(S) = x
<1>1. Least(S) \in S /\ \A y \in S : Least(S) <= y
  BY Zenon DEF Least
<1>2. x \in Int /\ Least(S) \in Int /\ x <= Least(S) /\ Least(S) <= x
  BY <1>1, Zenon
<1> QED
  BY <1>2

LEMMA GreatestIs ==
  ASSUME NEW S \in SUBSET Int, NEW x \in S, \A y \in S : x >= y
  PROVE  Greatest(S) = x
<1>1. Greatest(S) \in S /\ \A y \in S : Greatest(S) >= y
  BY Zenon DEF Greatest
<1>2. x \in Int /\ Greatest(S) \in Int /\ x >= Greatest(S) /\ Greatest(S) >= x
  BY <1>1, Zenon
<1> QED
  BY <1>2

LEMMA OfTwo ==
  ASSUME NEW x \in Int, NEW y \in Int
  PROVE  /\ Least({x, y}) = IF x <= y THEN x ELSE y
         /\ Greatest({x, y}) = IF x >= y THEN x ELSE y
<1>1. CASE x < y
  BY <1>1, LeastIs, GreatestIs
<1>2. CASE x > y
  BY <1>2, LeastIs, GreatestIs
<1>3. CASE x = y
  BY <1>3, LeastIs, GreatestIs
<1> QED
  BY <1>1, <1>2, <1>3

\* One more item recorded.
LEMMA RecordGrows ==
  ASSUME Counting, image \in Images, Planned, NEW m, m \in Nat, m < Len(items),
         Recorded(m), NEW c, c = m + 1,
         loaded' = [start |-> Least({loaded.start, items[c].page_start}),
                    end |-> Greatest({loaded.end, page_end(items[c])}),
                    total_pages |-> loaded.total_pages + items[c].page_count,
                    entry_segment_index |->
                      IF HoldsEntry(items[c]) THEN c ELSE loaded.entry_segment_index],
         UNCHANGED <<image, items>>
  PROVE  Recorded(c)'
<1> DEFINE ps == items[c].page_start
           pe == page_end(items[c])
<1>1. c \in 1..Len(items) /\ c \in Nat /\ c > 0 /\ c \in 1..c
      /\ (\A i \in 1..m : i \in 1..Len(items) /\ i \in 1..c)
      /\ (\A i \in 1..c : i \in 1..m \/ i = c)
  BY PlannedItems
<1>2. ps \in Nat /\ pe \in Nat /\ ps <= MaxAddress
  <2>1. /\ ps \in Nat /\ items[c].page_length \in Nat
        /\ pe = ps + items[c].page_length /\ pe <= MaxAddress
    BY <1>1, ItemFacts, Zenon
  <2> HIDE DEF ps, pe
  <2> QED
    BY <2>1, WindowTypes, SMTT(30)
<1>3. \A i \in 1..m : items[i].page_start \in Nat /\ page_end(items[i]) \in Nat
  <2> SUFFICES ASSUME NEW i \in 1..m
               PROVE  items[i].page_start \in Nat /\ page_end(items[i]) \in Nat
    OBVIOUS
  <2>1. /\ items[i].page_start \in Nat /\ items[i].page_length \in Nat
        /\ page_end(items[i]) = items[i].page_start + items[i].page_length
    BY <1>1, ItemFacts, ZenonT(30)
  <2> QED
    BY <2>1
<1>4. /\ m = 0 => loaded.start = MaxAddress /\ loaded.end = 0
      /\ m > 0 => /\ \E i \in 1..m : loaded.start = items[i].page_start
                  /\ \E i \in 1..m : loaded.end = page_end(items[i])
                  /\ \A i \in 1..m : loaded.start <= items[i].page_start
                                     /\ loaded.end >= page_end(items[i])
  BY DEF Recorded, Unrecorded
<1>5. loaded.start \in Nat /\ loaded.end \in Nat
  BY <1>3, <1>4, WindowTypes, SMTT(30)
<1>6. /\ loaded'.start = IF loaded.start <= ps THEN loaded.start ELSE ps
      /\ loaded'.end = IF loaded.end >= pe THEN loaded.end ELSE pe
  <2>1. /\ loaded'.start = Least({loaded.start, ps})
        /\ loaded'.end = Greatest({loaded.end, pe})
    BY SMT
  <2> HIDE DEF ps, pe
  <2>2. ps \in Int /\ pe \in Int /\ loaded.start \in Int /\ loaded.end \in Int
    BY <1>2, <1>5
  <2> QED
    BY <2>1, <2>2, OfTwo, Zenon
<1> HIDE DEF ps, pe
<1>7. /\ \E i \in 1..c : loaded'.start = items[i].page_start
      /\ \E i \in 1..c : loaded'.end = page_end(items[i])
  <2>1. \E i \in 1..c : loaded'.start = items[i].page_start
    <3>1. CASE loaded'.start = ps
      BY <1>1, <3>1, Zenon DEF ps
    <3>2. CASE loaded'.start # ps
      <4>1. loaded'.start = loaded.start /\ m > 0
        BY <1>2, <1>4, <1>5, <1>6, <3>2, WindowTypes
      <4> QED
        BY <1>1, <1>4, <4>1, Zenon
    <3> QED
      BY <3>1, <3>2, ZenonT(30)
  <2>2. \E i \in 1..c : loaded'.end = page_end(items[i])
    <3>1. CASE loaded'.end = pe
      BY <1>1, <3>1, Zenon DEF pe
    <3>2. CASE loaded'.end # pe
      <4>1. loaded'.end = loaded.end /\ m > 0
        BY <1>2, <1>4, <1>5, <1>6, <3>2
      <4> QED
        BY <1>1, <1>4, <4>1, Zenon
    <3> QED
      BY <3>1, <3>2, Zenon
  <2> QED
    BY <2>1, <2>2
<1>8. ASSUME NEW i \in 1..c
      PROVE  loaded'.start <= items[i].page_start /\ loaded'.end >= page_end(items[i])
  <2>1. CASE i = c
    <3>1. loaded'.start <= ps /\ loaded'.end >= pe
      BY <1>2, <1>5, <1>6, SMTT(30)
    <3> QED
      BY <2>1, <3>1 DEF ps, pe
  <2>2. CASE i \in 1..m
    <3>1. /\ loaded.start <= items[i].page_start /\ loaded.end >= page_end(items[i])
          /\ items[i].page_start \in Nat /\ page_end(items[i]) \in Nat
      BY <1>3, <1>4, <2>2, SMTT(30)
    <3> QED
      BY <1>2, <1>5, <1>6, <3>1, SMTT(30)
  <2> QED
    BY <1>1, <2>1, <2>2, ZenonT(30)
<1>9. loaded'.total_pages = Cardinality(PagesUpTo(c))
  <2>1. items[c] = make_item(Seg(c)) /\ loaded'.total_pages = loaded.total_pages + items[c].page_count
        /\ loaded.total_pages = Cardinality(PagesUpTo(m))
    BY <1>1, PlannedItems DEF Recorded
  <2>2. /\ \A i \in 1..(m + 1) : Seg(i) \in Segments /\ Sound(Seg(i))
        /\ \A i \in 1..m : PagesOf(Seg(i)) \cap PagesOf(Seg(m + 1)) = {}
    <3>1. \A i \in 1..(m + 1) : i \in 1..Len(items)
      BY <1>1
    <3>2. \A i \in 1..m : m + 1 \in 1..Len(items) \ {i}
      BY <1>1
    <3>3. \A i \in 1..Len(items) : \A j \in 1..Len(items) \ {i} :
            PagesOf(Seg(i)) \cap PagesOf(Seg(j)) = {}
      BY Zenon DEF Planned
    <3>4. \A i \in 1..(m + 1) : Seg(i) \in Segments /\ Sound(Seg(i))
      BY <3>1, PlannedItems, Zenon
    <3> QED
      BY <1>1, <3>2, <3>3, <3>4, ZenonT(30)
  <2>3. Cardinality(PagesUpTo(m + 1)) = Cardinality(PagesUpTo(m)) + make_item(Seg(m + 1)).page_count
    BY <2>2, PagesAdd, ZenonT(30)
  <2> QED
    BY <2>1, <2>3, Zenon
<1>10. ASSUME \E i \in 1..c : HoldsEntry(items[i])
       PROVE  /\ loaded'.entry_segment_index \in 1..c
              /\ HoldsEntry(items[loaded'.entry_segment_index])
  <2>1. loaded'.entry_segment_index =
          IF HoldsEntry(items[c]) THEN c ELSE loaded.entry_segment_index
    BY SMT
  <2>2. CASE HoldsEntry(items[c])
    BY <1>1, <2>1, <2>2, Zenon
  <2>3. CASE ~HoldsEntry(items[c])
    <3>1. \E i \in 1..m : HoldsEntry(items[i])
      BY <1>1, <1>10, <2>3, Zenon
    <3>2. /\ loaded.entry_segment_index \in 1..m
          /\ HoldsEntry(items[loaded.entry_segment_index])
      BY <3>1, Zenon DEF Recorded
    <3> QED
      BY <1>1, <2>1, <2>3, <3>2, Zenon
  <2> QED
    BY <2>2, <2>3, SMTT(30)
<1>11. /\ PagesUpTo(c)' = PagesUpTo(c)
       /\ \A i : page_end(items[i])' = page_end(items[i])
       /\ \A i : HoldsEntry(items[i])' <=> HoldsEntry(items[i])
  BY ZenonT(30) DEF PagesUpTo, PagesOf, Seg, page_end, HoldsEntry, is_executable
<1>12. HoldsEntry(items[loaded.entry_segment_index])'
         <=> HoldsEntry(items[loaded'.entry_segment_index])
  BY Zenon DEF HoldsEntry, is_executable
<1>13. c # 0
  BY <1>1
<1> QED
  BY <1>7, <1>8, <1>9, <1>10, <1>11, <1>12, <1>13, Zenon DEF Recorded

LEMMA FromVerifiedStep ==
  ASSUME Counting, IInv, from_verified
  PROVE  IInv'
<1> DEFINE n == Len(items)
<1>1. phase = "recording" /\ phase \in Loading
  BY DEF from_verified, Loading
<1>2. /\ image \in Images /\ Planned /\ Complete /\ Placed /\ n \in Nat /\ n > 0
      /\ cursor \in 0..(n - 1) /\ faults \in Nat /\ Recorded(cursor)
  BY <1>1, LoadingFacts DEF IInv, Recording
<1>3. PICK c : c = cursor + 1
  OBVIOUS
<1>4. PICK m : m = cursor
  OBVIOUS
<1>5. Round("recorded") /\ memory' = memory
  BY Zenon DEF from_verified
<1>6. /\ UNCHANGED <<image, items, total_page_bytes, faults, reason, memory>>
      /\ \/ c = n /\ cursor' = 0 /\ phase' = "recorded"
         \/ c < n /\ cursor' = c /\ phase' = "recording"
      /\ cursor' \in 0..(n - 1)
  BY <1>1, <1>2, <1>3, <1>5, RoundIs, Zenon
<1>7. Recorded(c)'
  <2>1. loaded' = [start |-> Least({loaded.start, items[c].page_start}),
                   end |-> Greatest({loaded.end, page_end(items[c])}),
                   total_pages |-> loaded.total_pages + items[c].page_count,
                   entry_segment_index |->
                     IF HoldsEntry(items[c]) THEN c ELSE loaded.entry_segment_index]
    BY <1>3, Zenon DEF from_verified
  <2>2. m \in Nat /\ m < n /\ c = m + 1 /\ Recorded(m)
    BY <1>2, <1>3, <1>4
  <2> QED
    BY <1>2, <1>6, <2>1, <2>2, RecordGrows, Zenon
<1>8. Planned' /\ Complete'
  BY <1>2, <1>6, PlanKept, Zenon
<1>9. /\ \A a : InFile(a)' <=> InFile(a)
      /\ \A i, a : InItem(i, a)' <=> InItem(i, a)
      /\ \A i : Copied(i)' <=> Copied(i)
  BY <1>6, BytesKept, ZenonT(30)
<1>10. Placed'
  BY <1>1, <1>2, <1>6, <1>9 DEF Placed, Loading
<1>11. Recording'
  <2>1. CASE phase' = "recording" /\ cursor' = c
    BY <1>7, <2>1 DEF Recording
  <2>2. CASE phase' = "recorded" /\ c = n
    BY <1>6, <1>7, <2>2 DEF Recording
  <2> QED
    BY <1>6, <2>1, <2>2
<1> QED
  BY <1>2, <1>6, <1>8, <1>10, <1>11, ZenonT(30) DEF IInv, Progress, Loading

\* What LoadedKernel records is what the plan says of the same items.
LEMMA MetadataMatches ==
  ASSUME Counting, image \in Images, Planned, Len(items) > 0, Recorded(Len(items))
  PROVE  metadata_matches_plan
<1> DEFINE n == Len(items)
           k == Cardinality(PagesUpTo(n))
           S == {items[i].page_start : i \in 1..n}
           T == {page_end(items[i]) : i \in 1..n}
<1>1. \A i \in 1..n : items[i].page_start \in Int /\ page_end(items[i]) \in Int
  <2> SUFFICES ASSUME NEW i \in 1..n
               PROVE  items[i].page_start \in Int /\ page_end(items[i]) \in Int
    OBVIOUS
  <2>1. /\ items[i].page_start \in Nat /\ items[i].page_length \in Nat
        /\ page_end(items[i]) = items[i].page_start + items[i].page_length
    BY ItemFacts, Zenon
  <2> QED
    BY <2>1
<1>2. /\ loaded.total_pages = k
      /\ \E i \in 1..n : loaded.start = items[i].page_start
      /\ \E i \in 1..n : loaded.end = page_end(items[i])
      /\ \A i \in 1..n : loaded.start <= items[i].page_start
                         /\ loaded.end >= page_end(items[i])
  BY Zenon DEF Recorded
<1>3. loaded.start = Least(S)
  <2>1. S \in SUBSET Int /\ loaded.start \in S /\ \A y \in S : loaded.start <= y
    BY <1>1, <1>2, Zenon
  <2> HIDE DEF S
  <2> QED
    BY <2>1, LeastIs, Zenon
<1>4. loaded.end = Greatest(T)
  <2>1. T \in SUBSET Int /\ loaded.end \in T /\ \A y \in T : loaded.end >= y
    BY <1>1, <1>2, Zenon
  <2> HIDE DEF T
  <2> QED
    BY <2>1, GreatestIs, Zenon
<1>5. total_page_bytes = PageSize * k
  BY Zenon DEF Planned
<1>6. k \in Nat
  <2>1. n \in Nat /\ \A i \in 1..n : Seg(i) \in Segments /\ Sound(Seg(i))
    BY PlannedItems, Zenon
  <2> QED
    BY <2>1, PagesFit, Zenon
<1> HIDE DEF k
<1>7. k * PageSize = PageSize * k
  BY <1>6, SizeIs
<1> QED
  BY <1>2, <1>3, <1>4, <1>5, <1>7, Zenon DEF metadata_matches_plan

LEMMA CompareStep ==
  ASSUME Counting, IInv, compare
  PROVE  IInv'
<1>1. phase = "recorded" /\ phase \in Loading
  BY DEF compare, Loading
<1>2. /\ image \in Images /\ Planned /\ Complete /\ Placed /\ Len(items) \in Nat
      /\ Len(items) > 0 /\ cursor = 0 /\ faults \in Nat /\ Recorded(Len(items))
  BY <1>1, LoadingFacts DEF IInv, Recording, Progress
<1>3. metadata_matches_plan
  BY <1>2, MetadataMatches, Zenon
<1>4. /\ phase' = "loaded"
      /\ UNCHANGED <<image, items, total_page_bytes, cursor, memory, loaded, faults>>
  BY <1>3, Zenon DEF compare, Stop, planVars
<1>5. Planned' /\ Complete'
  BY <1>2, <1>4, PlanKept, Zenon
<1>6. Recorded(Len(items))'
  <2>1. PICK m : m = Len(items)
    BY Zenon
  <2>2. Recorded(m)'
    BY <1>2, <1>4, <2>1, RecordKept, Zenon
  <2> QED
    BY <1>4, <2>1, <2>2
<1>7. /\ \A a : InFile(a)' <=> InFile(a)
      /\ \A i, a : InItem(i, a)' <=> InItem(i, a)
      /\ \A i : Copied(i)' <=> Copied(i)
  BY <1>4, BytesKept, Zenon
<1>8. Placed'
  BY <1>1, <1>2, <1>4, <1>7 DEF Placed, Loading
<1>9. 0 \in 0..(Len(items) - 1)
  BY <1>2
<1> QED
  BY <1>2, <1>4, <1>5, <1>6, <1>8, <1>9 DEF IInv, Progress, Recording, Loading

\* A byte that changes on its own is one of the file, or one of a target that
\* has not been verified yet.
LEMMA DisturbStep ==
  ASSUME Counting, IInv, Disturb
  PROVE  IInv'
<1>1. phase \in {"zeroing", "copying", "verifying", "checking"} /\ phase \in Loading
  BY DEF Disturb, Loading
<1>2. /\ image \in Images /\ Planned /\ Complete /\ Placed /\ Len(items) \in Nat
      /\ cursor \in 0..(Len(items) - 1) /\ faults \in Nat /\ Recorded(0)
      /\ (phase = "checking" => cursor = 0)
  BY <1>1, LoadingFacts DEF IInv, Recording, Progress
<1>3. /\ UNCHANGED <<image, items, total_page_bytes, phase, cursor, loaded, reason>>
      /\ faults' = faults + 1
  BY Zenon DEF Disturb, planVars
<1>4. PICK d \in Addresses :
        /\ \/ InFile(d)
           \/ /\ phase = "copying" \/ (phase = "verifying" /\ cursor = 0)
              /\ \E i \in 1..Len(items) : InItem(i, d)
        /\ memory' = [memory EXCEPT ![d] = Garbage]
  BY Zenon DEF Disturb, InFile, InItem
<1>5. memory \in [Addresses -> Int] /\ Garbage \in Int
  <2>1. Garbage \in Int
    BY DEF Garbage
  <2> QED
    BY <1>2, <2>1, Zenon DEF Placed
<1>6. \A a \in Addresses : memory'[a] = IF a = d THEN Garbage ELSE memory[a]
  BY <1>4, <1>5
<1>7. /\ \A a : InFile(a)' <=> InFile(a)
      /\ \A i, a : InItem(i, a)' <=> InItem(i, a)
      /\ \A i, a : FromFile(i, a)' <=> FromFile(i, a)
      /\ \A i, a : OffsetOf(i, a)' = OffsetOf(i, a)
  BY <1>3, BytesKept, Zenon
<1>8. ASSUME InFile(d), NEW i \in 1..Len(items), Verified(i) PROVE Verified(i)'
  <2>1. ASSUME NEW a \in Addresses, InItem(i, a)
        PROVE  IF FromFile(i, a)
                 THEN memory'[a] = Source(OffsetOf(i, a))' \/ Source(OffsetOf(i, a))' = Garbage
                 ELSE memory'[a] = 0
    <3>1. memory'[a] = memory[a]
      BY <1>2, <1>6, <1>8, <2>1, Apart, Zenon
    <3>2. ASSUME FromFile(i, a)
          PROVE  /\ image.source.page_start + OffsetOf(i, a) \in Addresses
                 /\ Source(OffsetOf(i, a))' = memory'[image.source.page_start + OffsetOf(i, a)]
      BY <1>2, <1>3, <1>7, <2>1, <3>2, CopiedFrom, ZenonT(30) DEF Source
    <3> QED
      BY <1>6, <1>8, <2>1, <3>1, <3>2, Zenon DEF Verified, Source
  <2> QED
    BY <1>7, <2>1, Zenon DEF Verified
<1>9. Placed'
  <2>1. memory' \in [Addresses -> Int]
    BY <1>4, <1>5
  <2>2. \A a \in Addresses : InFile(a)' =>
          memory'[a] \in {FileByte(a - image'.source.page_start), Garbage}
    BY <1>2, <1>3, <1>6, <1>7, Zenon DEF Placed
  <2>3. \A a \in Addresses :
          ~InFile(a)' /\ (phase' \in Loading => \A i \in 1..Len(items') : ~InItem(i, a)')
            => memory'[a] = Stale
    BY <1>1, <1>2, <1>3, <1>4, <1>6, <1>7, Zenon DEF Placed
  <2>4. phase' = "verifying" => \A i \in 1..cursor' : Verified(i)'
    <3> SUFFICES ASSUME phase = "verifying", NEW i \in 1..cursor PROVE Verified(i)'
      BY <1>3
    <3>1. i \in 1..Len(items) /\ cursor # 0
      BY <1>2
    <3>2. InFile(d) /\ Verified(i)
      BY <1>2, <1>4, <3>1 DEF Placed
    <3> QED
      BY <1>8, <3>1, <3>2
  <2>5. phase' = "checking" => \A i \in 1..Len(items') : Verified(i)'
    <3> SUFFICES ASSUME phase = "checking", NEW i \in 1..Len(items) PROVE Verified(i)'
      BY <1>3
    <3>1. InFile(d) /\ Verified(i)
      BY <1>2, <1>4 DEF Placed
    <3> QED
      BY <1>8, <3>1
  <2>6. faults' # 0
    BY <1>2, <1>3
  <2> QED
    BY <1>1, <1>3, <2>1, <2>2, <2>3, <2>4, <2>5, <2>6 DEF Placed
<1>10. Planned' /\ Complete' /\ Recorded(0)'
  BY <1>2, <1>3, PlanKept, RecordKept, Zenon
<1>11. faults' \in Nat /\ cursor' \in 0..(Len(items') - 1)
  BY <1>2, <1>3
<1> QED
  BY <1>1, <1>2, <1>3, <1>9, <1>10, <1>11 DEF IInv, Progress, Recording, Loading

-----------------------------------------------------------------------------
(* The inductive invariant.                                                 *)

LEMMA InitInv ==
  ASSUME Counting, Init
  PROVE  IInv
<1>1. /\ image \in Images /\ items = <<>> /\ total_page_bytes = 0 /\ phase = "planning"
      /\ cursor = 0 /\ loaded = Unrecorded /\ faults = 0
  BY DEF Init
<1>2. Len(items) = 0 /\ 1..Len(items) = {}
  BY <1>1
<1>3. total_page_bytes = PageSize * Cardinality(PagesUpTo(Len(items)))
  <2>1. Cardinality(PagesUpTo(Len(items))) = 0
    BY <1>2, NoPages, Zenon DEF Counting
  <2> QED
    BY <1>1, <2>1, SizeIs
<1>4. Planned
  <2>1. /\ items \in Seq([source_offset: Nat, file_size: Nat, memory_size: Nat,
                          target_start: Nat, target_end: Nat, page_start: Nat, page_count: Nat,
                          flags: 0..7, page_length: Nat, copy_offset: Nat])
    BY <1>1
  <2>2. Len(items) <= Len(image.segments) /\ Len(items) <= MAX_LOAD_ITEMS /\ ~(Len(items) > 0)
    BY <1>1, <1>2, ImageTypes, WindowTypes
  <2> QED
    BY <1>2, <1>3, <2>1, <2>2, Zenon DEF Planned
<1>5. Recorded(0)
  BY <1>1, RecordedNone, Zenon
<1>6. Placed
  <2>1. memory = [a \in Addresses |->
                    IF InFile(a) THEN FileByte(a - image.source.page_start) ELSE Stale]
    BY Zenon DEF Init, InFile
  <2>2. ASSUME NEW a \in Addresses
        PROVE  memory[a] \in Int
    <3>1. a \in Int /\ image.source.page_start \in Int
      BY <1>1, ImageTypes, WindowTypes DEF Addresses
    <3> QED
      BY <2>1, <3>1 DEF FileByte, Stale
  <2>3. memory \in [Addresses -> Int]
    BY <2>1, <2>2
  <2>4. \A a \in Addresses :
          memory[a] = IF InFile(a) THEN FileByte(a - image.source.page_start) ELSE Stale
    BY <2>1, Zenon
  <2> QED
    BY <1>1, <2>3, <2>4 DEF Placed, Loading
<1> QED
  BY <1>1, <1>2, <1>4, <1>5, <1>6 DEF IInv, Progress, Recording, Loading

LEMMA StutterStep ==
  ASSUME Counting, IInv, UNCHANGED vars
  PROVE  IInv'
<1>1. UNCHANGED <<image, items, total_page_bytes, phase, cursor, memory, loaded, faults, reason>>
  BY Zenon DEF vars, planVars
<1>2. /\ Planned' <=> Planned
      /\ Complete' <=> Complete
      /\ Loadable' <=> Loadable
  BY <1>1, PlanKept, Zenon
<1>3. \A n : Recorded(n)' <=> Recorded(n)
  BY <1>1, RecordKept, Zenon
<1>4. /\ \A a : InFile(a)' <=> InFile(a)
      /\ \A i, a : InItem(i, a)' <=> InItem(i, a)
      /\ \A i : /\ Zeroed(i)' <=> Zeroed(i)
                /\ Copied(i)' <=> Copied(i)
                /\ Verified(i)' <=> Verified(i)
  BY <1>1, BytesKept, Zenon
<1>5. Progress'
  BY <1>1, <1>2 DEF IInv, Progress
<1>6. Recording'
  BY <1>1, <1>3 DEF IInv, Recording
<1>7. phase' \notin {"refused", "failed"} => Placed'
  BY <1>1, <1>4, Zenon DEF IInv, Placed
<1> QED
  BY <1>1, <1>2, <1>5, <1>6, <1>7, Zenon DEF IInv

LEMMA NextInv ==
  ASSUME Counting, IInv, [Next]_vars
  PROVE  IInv'
<1>1. CASE build
  BY <1>1, BuildStep
<1>2. CASE build_end
  BY <1>2, BuildEndStep, ZenonT(30)
<1>3. CASE zero
  BY <1>3, ZeroStep
<1>4. CASE copy
  BY <1>4, CopyStep
<1>5. CASE verify
  BY <1>5, VerifyStep
<1>6. CASE recheck
  BY <1>6, RecheckStep
<1>7. CASE from_verified
  BY <1>7, FromVerifiedStep
<1>8. CASE compare
  BY <1>8, CompareStep
<1>9. CASE Disturb
  BY <1>9, DisturbStep
<1>10. CASE Ended \/ UNCHANGED vars
  BY <1>10, StutterStep, Zenon DEF Ended
<1> QED
  BY <1>1, <1>2, <1>3, <1>4, <1>5, <1>6, <1>7, <1>8, <1>9, <1>10, Zenon DEF Next

-----------------------------------------------------------------------------
(* What the invariant says of the properties.                               *)

LEMMA LoadingIsLoadable ==
  ASSUME IInv, phase \in Loading
  PROVE  Loadable
<1> DEFINE n == Len(items)
<1>1. /\ image \in Images /\ Planned /\ Complete /\ n \in Nat /\ n > 0
      /\ n = Len(image.segments)
  BY LoadingFacts DEF Complete
<1>2. n \in 1..MAX_LOAD_ITEMS /\ source_page_end <= MaxAddress
  BY <1>1, WindowTypes DEF Planned
<1>3. \A i \in 1..n : /\ Sound(image.segments[i])
                      /\ \A j \in 1..n \ {i} :
                           PagesOf(image.segments[i]) \cap PagesOf(image.segments[j]) = {}
  BY <1>1, Zenon DEF Planned, Seg
<1>4. \E i \in 1..n :
        /\ image.segments[i].flags % 2 = 1
        /\ image.entry \in image.segments[i].target
                             ..(image.segments[i].target + image.segments[i].memory_size - 1)
  <2>1. PICK i \in 1..n : HoldsEntry(items[i])
    BY <1>1, Zenon DEF Complete
  <2>2. Seg(i) \in Segments /\ items[i] = make_item(Seg(i))
    BY <1>1, PlannedItems, Zenon
  <2>3. /\ Seg(i).flags % 2 = 1
        /\ image.entry \in Seg(i).target..(Seg(i).target + Seg(i).memory_size - 1)
    BY <1>1, <2>1, <2>2, SegmentTypes, ImageTypes DEF HoldsEntry, is_executable, make_item
  <2> QED
    BY <2>3, Zenon DEF Seg
<1> QED
  BY <1>1, <1>2, <1>3, <1>4, Zenon DEF Loadable, Sound

LEMMA LoadsFollow ==
  ASSUME IInv
  PROVE  LoadsExactlyTheLoadable
<1>1. /\ phase = "refused" => ~Loadable /\ reason # "TotalSizeExceeded"
      /\ phase = "failed" => faults > 0 \/ reason = "Backend"
  BY Zenon DEF IInv, Progress
<1>2. phase \in Loading => Loadable
  BY LoadingIsLoadable
<1> QED
  BY <1>1, <1>2, Zenon DEF LoadsExactlyTheLoadable, PlansExactlyTheLoadable, NoFalseAlarm, Loading

LEMMA ImageFollows ==
  ASSUME IInv
  PROVE  LoadedImageIsExact
<1> DEFINE n == Len(items)
<1> SUFFICES ASSUME phase = "loaded", NEW a \in Addresses
             PROVE  LET owners == {i \in 1..Len(image.segments) :
                                     a \div PageSize \in PagesOf(image.segments[i])}
                        source == a - image.source.page_start
                        offset(i) == a - image.segments[i].target
                    IN /\ \A i \in owners :
                            memory[a] = IF offset(i) < image.segments[i].file_size
                                          THEN FileByte(image.segments[i].file_offset + offset(i))
                                          ELSE 0
                       /\ owners = {} =>
                            memory[a] = IF source >= 0 /\ source < image.source.file_length
                                          THEN FileByte(source) ELSE Stale
  BY Zenon DEF LoadedImageIsExact
<1>1. phase \in Loading /\ phase \in {"recording", "recorded", "loaded"}
  BY DEF Loading
<1>2. /\ image \in Images /\ Planned /\ Placed /\ n \in Nat /\ n > 0
      /\ n = Len(image.segments)
  BY <1>1, LoadingFacts DEF Complete
<1>3. a \in Nat
  BY WindowTypes DEF Addresses
<1>4. \A i \in 1..n : InItem(i, a) <=> a \div PageSize \in PagesOf(Seg(i))
  BY <1>2, <1>3, InItemIs, Zenon
<1>5. ASSUME NEW i \in 1..n, a \div PageSize \in PagesOf(Seg(i))
      PROVE  memory[a] = IF a - Seg(i).target < Seg(i).file_size
                           THEN FileByte(Seg(i).file_offset + (a - Seg(i).target)) ELSE 0
  <2>1. Copied(i) /\ InItem(i, a)
    BY <1>1, <1>2, <1>4, <1>5, Zenon DEF Placed
  <2>2. items[i] = make_item(Seg(i))
    BY <1>2, PlannedItems, ZenonT(30)
  <2>3. /\ items[i].target_start = Seg(i).target /\ items[i].file_size = Seg(i).file_size
        /\ items[i].source_offset = Seg(i).file_offset
    BY <2>2 DEF make_item
  <2> QED
    BY <2>1, <2>3, Zenon DEF Copied, FromFile, OffsetOf
<1>6. ASSUME \A i \in 1..n : a \div PageSize \notin PagesOf(Seg(i))
      PROVE  memory[a] = IF InFile(a) THEN FileByte(a - image.source.page_start) ELSE Stale
  BY <1>1, <1>2, <1>4, <1>6, Zenon DEF Placed
<1>7. InFile(a) <=> /\ a - image.source.page_start >= 0
                    /\ a - image.source.page_start < image.source.file_length
  BY <1>2, <1>3, FileFits DEF InFile
<1> QED
  BY <1>2, <1>5, <1>6, <1>7, Zenon DEF Seg

LEMMA MetadataFollows ==
  ASSUME Counting, IInv
  PROVE  MetadataDescribesTheImage
<1> DEFINE n == Len(items)
           pages == UNION {PagesOf(image.segments[i]) : i \in 1..Len(image.segments)}
           entry == image.segments[loaded.entry_segment_index]
<1> SUFFICES ASSUME phase = "loaded"
             PROVE  /\ Cardinality(pages) = loaded.total_pages
                    /\ \A page \in pages : /\ page * PageSize >= loaded.start
                                           /\ (page + 1) * PageSize <= loaded.end
                    /\ loaded.start \div PageSize \in pages
                    /\ (loaded.end - 1) \div PageSize \in pages
                    /\ entry.flags % 2 = 1
                    /\ image.entry \in entry.target..(entry.target + entry.memory_size - 1)
  BY Zenon DEF MetadataDescribesTheImage
<1>1. phase \in Loading
  BY DEF Loading
<1>2. /\ image \in Images /\ Planned /\ Complete /\ n \in Nat /\ n > 0
      /\ n = Len(image.segments) /\ Recorded(n)
  BY <1>1, LoadingFacts DEF Complete, IInv, Recording
<1>3. pages = PagesUpTo(n)
  BY <1>2, Zenon DEF PagesUpTo, Seg
<1> HIDE DEF pages
<1>4. /\ loaded.total_pages = Cardinality(PagesUpTo(n))
      /\ \E i \in 1..n : loaded.start = items[i].page_start
      /\ \E i \in 1..n : loaded.end = page_end(items[i])
      /\ \A i \in 1..n : loaded.start <= items[i].page_start
                         /\ loaded.end >= page_end(items[i])
      /\ loaded.entry_segment_index \in 1..n
      /\ HoldsEntry(items[loaded.entry_segment_index])
  BY <1>2, Zenon DEF Recorded, Complete
<1>5. ASSUME NEW i \in 1..n
      PROVE  /\ Low(Seg(i)) \in Nat /\ High(Seg(i)) \in Nat /\ High(Seg(i)) + 1 \in Nat
             /\ PagesOf(Seg(i)) = Low(Seg(i))..High(Seg(i))
             /\ Low(Seg(i)) \in PagesOf(Seg(i)) /\ High(Seg(i)) \in PagesOf(Seg(i))
             /\ items[i].page_start = PageSize * Low(Seg(i))
             /\ page_end(items[i]) = PageSize * (High(Seg(i)) + 1)
             /\ items[i].page_start \in Nat /\ page_end(items[i]) \in Nat
  <2> DEFINE s == Seg(i)
  <2>1. /\ s \in Segments /\ items[i] = make_item(s)
        /\ s.memory_size > 0 /\ s.target % PageSize = 0
    BY <1>2, PlannedItems, Zenon
  <2>2. /\ Low(s) \in Nat /\ High(s) \in Nat /\ Low(s) <= High(s)
        /\ items[i].page_start = PageSize * Low(s)
        /\ page_end(items[i]) = PageSize * (High(s) + 1)
    BY <2>1, ItemOf, Zenon
  <2>3. PagesOf(s) = Low(s)..High(s)
    BY PagesAre
  <2> HIDE DEF s
  <2>4. High(s) + 1 \in Nat /\ Low(s) \in Low(s)..High(s) /\ High(s) \in Low(s)..High(s)
    BY <2>2, SMTT(30)
  <2>5. PageSize * Low(s) \in Nat /\ PageSize * (High(s) + 1) \in Nat
    BY <2>2, <2>4, Scaling
  <2> QED
    BY <2>2, <2>3, <2>4, <2>5, Zenon DEF s
<1>6. loaded.start \in Nat /\ loaded.end \in Nat
  BY <1>4, <1>5, Zenon
<1>7. ASSUME NEW page \in pages
      PROVE  page * PageSize >= loaded.start /\ (page + 1) * PageSize <= loaded.end
  <2>1. PICK i \in 1..n : page \in PagesOf(Seg(i))
    BY <1>3, Zenon DEF PagesUpTo
  <2> DEFINE l == Low(Seg(i))
             h == High(Seg(i))
  <2>2. /\ l \in Nat /\ h \in Nat /\ h + 1 \in Nat /\ page \in l..h
        /\ loaded.start <= PageSize * l /\ loaded.end >= PageSize * (h + 1)
    BY <1>4, <1>5, <2>1, Zenon
  <2> HIDE DEF l, h
  <2>3. page \in Nat /\ page + 1 \in Nat /\ l <= page /\ page + 1 <= h + 1
    BY <2>2
  <2>4. /\ PageSize * l \in Nat /\ PageSize * page \in Nat /\ page * PageSize = PageSize * page
        /\ PageSize * l <= PageSize * page
    BY <2>2, <2>3, Scaling
  <2>5. /\ PageSize * (page + 1) \in Nat /\ PageSize * (h + 1) \in Nat
        /\ (page + 1) * PageSize = PageSize * (page + 1)
        /\ PageSize * (page + 1) <= PageSize * (h + 1)
    BY <2>2, <2>3, Scaling
  <2>6. page * PageSize >= loaded.start
    BY <1>6, <2>2, <2>4
  <2>7. (page + 1) * PageSize <= loaded.end
    BY <1>6, <2>2, <2>5
  <2> QED
    BY <2>6, <2>7
<1>8. loaded.start \div PageSize \in pages
  <2>1. PICK i \in 1..n : loaded.start = items[i].page_start
    BY <1>4
  <2>2. loaded.start \div PageSize = Low(Seg(i))
    BY <1>5, <2>1, PageStart
  <2> QED
    BY <1>3, <1>5, <2>2, Zenon DEF PagesUpTo
<1>9. (loaded.end - 1) \div PageSize \in pages
  <2>1. PICK i \in 1..n : loaded.end = page_end(items[i])
    BY <1>4
  <2> DEFINE h == High(Seg(i))
             e == loaded.end
  <2>2. h \in Nat /\ e = PageSize * (h + 1)
    BY <1>5, <2>1, Zenon
  <2> HIDE DEF h, e
  <2>3. PageSize * h \in Nat /\ PageSize * (h + 1) = PageSize * h + PageSize
    BY <2>2, Scaling, ZenonT(30)
  <2>4. e - 1 \in Nat /\ e - 1 >= PageSize * h /\ e - 1 < PageSize * (h + 1)
    BY <2>2, <2>3, SizeIs
  <2>5. (e - 1) \div PageSize \in h..h
    BY <2>2, <2>4, OnPages, Zenon
  <2>6. (e - 1) \div PageSize = h
    BY <2>2, <2>5
  <2> QED
    BY <1>3, <1>5, <2>6, ZenonT(30) DEF PagesUpTo, h, e
<1>10. /\ entry.flags % 2 = 1
       /\ image.entry \in entry.target..(entry.target + entry.memory_size - 1)
  <2> DEFINE i == loaded.entry_segment_index
  <2>1. i \in 1..n /\ HoldsEntry(items[i])
    BY <1>4, Zenon
  <2> HIDE DEF i
  <2>2. Seg(i) \in Segments /\ items[i] = make_item(Seg(i))
    BY <1>2, <2>1, PlannedItems, ZenonT(30)
  <2>3. /\ Seg(i).flags % 2 = 1
        /\ image.entry \in Seg(i).target..(Seg(i).target + Seg(i).memory_size - 1)
    BY <1>2, <2>1, <2>2, SegmentTypes, ImageTypes DEF HoldsEntry, is_executable, make_item
  <2> QED
    BY <2>3, Zenon DEF Seg, i
<1> QED
  BY <1>3, <1>4, <1>7, <1>8, <1>9, <1>10, Zenon

-----------------------------------------------------------------------------
(* The theorems.                                                            *)

INSTANCE FiniteSetTheorems

LEMMA CountingHolds == Counting
<1>1. \A a, b \in Int : /\ IsFiniteSet(a..b)
                        /\ Cardinality(a..b) = IF a > b THEN 0 ELSE b - a + 1
  BY FS_Interval
<1>2. ASSUME NEW S, NEW T, IsFiniteSet(S), IsFiniteSet(T), S \cap T = {}
      PROVE  Cardinality(S \cup T) = Cardinality(S) + Cardinality(T)
  <2>1. Cardinality(S \cup T) = Cardinality(S) + Cardinality(T) - Cardinality(S \cap T)
    BY <1>2, FS_Union, Zenon
  <2>2. Cardinality(S) \in Nat /\ Cardinality(T) \in Nat
    BY <1>2, FS_CardinalityType, Zenon
  <2>3. Cardinality(S \cap T) = 0
    BY <1>2, FS_EmptySet, Zenon
  <2> QED
    BY <2>1, <2>2, <2>3
<1>3. \A S, T : IsFiniteSet(T) /\ S \subseteq T =>
                  /\ IsFiniteSet(S) /\ Cardinality(S) \in Nat /\ Cardinality(T) \in Nat
                  /\ Cardinality(S) <= Cardinality(T)
  BY FS_Subset, FS_CardinalityType
<1>4. Cardinality({}) = 0
  BY FS_EmptySet
<1> QED
  BY <1>1, <1>2, <1>3, <1>4, Zenon DEF Counting

\* However far the loading has got, IInv says what has been achieved.
THEOREM Invariance == Spec => []IInv
<1>1. Init => IInv
  BY CountingHolds, InitInv
<1>2. IInv /\ [Next]_vars => IInv'
  BY CountingHolds, NextInv
<1> QED
  BY <1>1, <1>2, PTL DEF Spec

\* LoadPlan::build accepts exactly the loadable images, its test of the total
\* size never decides, and what is planned is loaded unless the backend fails
\* or a byte has changed.
THEOREM LoadsTheorem == Spec => []LoadsExactlyTheLoadable
<1>1. IInv => LoadsExactlyTheLoadable
  BY LoadsFollow
<1> QED
  BY <1>1, Invariance, PTL

\* When LoadedKernel exists, memory holds what the program headers ask for, and
\* nothing else was written; its range, page count and entry segment are those
\* of the segments placed.
THEOREM ExactTheorem == Spec => []LoadedKernelIsExact
<1>1. IInv => LoadedKernelIsExact
  BY CountingHolds, ImageFollows, MetadataFollows DEF LoadedKernelIsExact
<1> QED
  BY <1>1, Invariance, PTL

=============================================================================
