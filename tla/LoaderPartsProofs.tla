-------------------------- MODULE LoaderPartsProofs --------------------------
(***************************************************************************)
(* Proofs about five parts of the loader that keep no state in common: the *)
(* ownership of page-table frames (FrameOwner), the chunked read of the    *)
(* kernel image (KernelRead), the CPU readiness (CpuReadiness), the checks *)
(* one BootInfo passes (BootInfoChain) and the walk over the extensions of *)
(* the boot info (Extensions).                                             *)
(***************************************************************************)
EXTENDS FrameOwner, KernelRead, CpuReadiness, Extensions, BootInfoChain, TLAPS

-----------------------------------------------------------------------------
(* Extensions, for every size of header, page and area.  WalkInv says how   *)
(* far the walk has got: the records read so far tile the area up to        *)
(* `offset', and the ownership found is the one among them.                 *)

Records == [at: Nat, header: Headers, payload: Ownerships \cup {None}]

RecordEnd(i) == IF i = 0 THEN 0 ELSE records[i].at + records[i].header.total_size

Holders == {i \in 1..Len(records) : IsOwnership(records[i].header)}

WalkTypes ==
  /\ area \in Areas /\ offset \in Nat
  /\ records \in Seq(Records) /\ extension_count = Len(records)
  /\ walkPhase \in {"start", "walk", "summary", "owned", "refused"}

Tiles ==
  /\ RecordEnd(Len(records)) = offset
  /\ \A i \in 1..Len(records) : records[i].at = RecordEnd(i - 1)
  /\ walkPhase = "start" => offset = 0
  /\ walkPhase = "walk" => offset <= area.length
  /\ walkPhase \in {"summary", "owned"} => offset = area.length

Found ==
  /\ IF Holders = {} THEN page_table_ownership = None
     ELSE \E i \in Holders : Holders = {i} /\ page_table_ownership = records[i].payload
  /\ \A i \in Holders : records[i].payload # None
  /\ page_table_ownership # None =>
       page_table_ownership \in Ownerships /\ ValidOwnership(page_table_ownership)
  /\ \A i \in 1..Len(records) : i \notin Holders => ~records[i].header.required

Listed ==
  walkPhase = "owned" =>
    /\ page_table_ownership # None
    /\ frame_list \in FrameLists /\ memory_map \in MemoryMaps
    /\ AcceptsFrames(frame_list, memory_map)

WalkInv == WalkTypes /\ Tiles /\ Found /\ Listed

\* An unread area has no records, no ownership and no frame list.
LEMMA WalkInitInv == WalkInit => WalkInv
<1> SUFFICES ASSUME WalkInit PROVE WalkInv
  OBVIOUS
<1>1. records = <<>> /\ Len(records) = 0
  BY Zenon DEF WalkInit
<1>2. Holders = {}
  BY <1>1 DEF Holders
<1> QED
  BY <1>1, <1>2 DEF WalkInit, WalkInv, WalkTypes, Tiles, Found, Listed, RecordEnd

\* The indices of a list that grows by one element.
LEMMA OneMore ==
  ASSUME NEW n \in Nat
  PROVE  /\ n + 1 \notin 1..n
         /\ \A i \in 1..n : i \in 1..(n + 1) /\ i # n + 1
         /\ \A i \in 1..(n + 1) : i \in 1..n \/ i = n + 1
  OBVIOUS

\* The header that a record of the walk keeps.
LEMMA RecordFields ==
  ASSUME NEW a, NEW h, NEW p
  PROVE  [at |-> a, header |-> h, payload |-> p].header = h
  BY Zenon

\* A record that is read joins the ones before it without a gap.
LEMMA ReadsRecordInv ==
  ASSUME WalkInv, NEW header \in Headers,
         NEW payload \in (IF IsOwnership(header) THEN Ownerships ELSE {None}),
         ReadsRecord(header, payload), WellFormed(header), Accepts(header, payload)
  PROVE  WalkInv'
<1>0. PICK n \in Nat : n = Len(records)
  BY DEF WalkInv, WalkTypes
<1> DEFINE r == [at |-> offset, header |-> header,
                 payload |-> IF IsOwnership(header) THEN payload ELSE None]
<1>1. /\ walkPhase = "walk" /\ walkPhase' = walkPhase /\ area' = area
      /\ offset' = offset + header.total_size
      /\ extension_count' = extension_count + 1
      /\ records' = Append(records, r)
      /\ page_table_ownership' = IF IsOwnership(header) THEN payload ELSE page_table_ownership
  BY Zenon DEF ReadsRecord
<1>2. header.total_size \in Nat /\ header.required \in BOOLEAN /\ area.length \in Nat
  BY ExtensionsAssumption, ZenonT(30) DEF WalkInv, WalkTypes
<1>3. r \in Records /\ records \in Seq(Records)
  BY Zenon DEF Records, WalkInv, WalkTypes
<1>4. /\ records' \in Seq(Records) /\ Len(records') = n + 1
      /\ records'[n + 1] = r /\ \A i \in 1..n : records'[i] = records[i]
  BY <1>0, <1>1, <1>3, SMTT(30)
<1>11. records'[n + 1].header = header
  <2>1. r.header = header
    BY RecordFields, Zenon
  <2> HIDE DEF r
  <2> QED
    BY <1>4, <2>1, Zenon
<1>5. WalkTypes'
  BY <1>0, <1>1, <1>2, <1>4, SMTT(30) DEF WalkInv, WalkTypes
<1>6. \A i \in 0..n : RecordEnd(i)' = RecordEnd(i)
  BY <1>0, <1>3, <1>4, SMTT(30) DEF RecordEnd
<1>7. Tiles'
  <2>1. RecordEnd(n + 1)' = offset'
    BY <1>0, <1>1, <1>3, <1>4 DEF RecordEnd
  <2>2. ASSUME NEW i \in 1..n + 1 PROVE records'[i].at = RecordEnd(i - 1)'
    <3>1. CASE i = n + 1
      BY <1>0, <1>3, <1>4, <1>6, <3>1, SMTT(30) DEF WalkInv, Tiles
    <3>2. CASE i \in 1..n
      BY <1>0, <1>3, <1>4, <1>6, <3>2 DEF WalkInv, Tiles
    <3> QED
      BY <1>0, <1>3, <3>1, <3>2, SMTT(30)
  <2>3. offset' <= area.length
    BY <1>1, Zenon DEF WellFormed
  <2> QED
    BY <1>0, <1>1, <1>4, <2>1, <2>2, <2>3, SMTT(30) DEF Tiles
<1>8. ASSUME IsOwnership(header) PROVE Found'
  <2>1. page_table_ownership = None /\ ValidOwnership(payload) /\ payload \in Ownerships
    BY <1>8, Zenon DEF Accepts
  <2>2. Holders = {}
    BY <2>1, Zenon DEF WalkInv, Found
  <2>3. Holders' = {n + 1}
    BY <1>0, <1>4, <1>8, <2>2, SMTT(30) DEF Holders
  <2>4. records'[n + 1].payload = payload /\ payload # None
    BY <1>4, <1>8, <2>1, ExtensionsAssumption
  <2>5. ValidOwnership(payload)'
    BY <2>1, Zenon DEF ValidOwnership, validate_frame_address, ListEnd
  <2>6. \A i \in 1..n : ~records'[i].header.required
    BY <1>0, <1>4, <2>2, ZenonT(30) DEF WalkInv, Found
  <2>7. page_table_ownership' = payload
    BY <1>1, <1>8, Zenon
  <2>8. \A i \in 1..Len(records') : i \notin Holders' => ~records'[i].header.required
    <3>1. \A i \in 1..Len(records') : i \in 1..n \/ i = n + 1
      BY <1>4, OneMore, Zenon
    <3> QED
      BY <2>3, <2>6, <3>1, ZenonT(30)
  <2> QED
    BY <2>1, <2>3, <2>4, <2>5, <2>7, <2>8, ZenonT(30) DEF Found
<1>9. ASSUME ~IsOwnership(header) PROVE Found'
  <2>1. Holders' = Holders /\ n + 1 \notin Holders
    <3>1. /\ \A i \in 1..n : records'[i] = records[i]
          /\ Len(records') = n + 1 /\ ~IsOwnership(records'[n + 1].header)
      BY <1>4, <1>11, <1>9, Zenon
    <3>2. Holders = {i \in 1..n : IsOwnership(records[i].header)}
          /\ Holders' = {i \in 1..(n + 1) : IsOwnership(records'[i].header)}
      BY <1>0, <3>1, Zenon DEF Holders, IsOwnership
    <3>3. /\ n + 1 \notin 1..n
          /\ \A i \in 1..n : i \in 1..(n + 1) /\ i # n + 1
          /\ \A i \in 1..(n + 1) : i \in 1..n \/ i = n + 1
      BY OneMore, Zenon
    <3> QED
      BY <3>1, <3>2, <3>3, ZenonT(30)
  <2>2. \A i \in Holders : records'[i] = records[i]
    BY <1>0, <1>4, Zenon DEF Holders
  <2>3. ~records'[n + 1].header.required
    BY <1>11, <1>9, Zenon DEF Accepts
  <2>4. \A i \in Holders : i \in 1..n
    BY <1>0, Zenon DEF Holders
  <2>5. page_table_ownership' = page_table_ownership
    BY <1>1, <1>9, Zenon
  <2>6. \A i \in 1..Len(records') : i \notin Holders' => ~records'[i].header.required
    <3>1. \A i \in 1..Len(records') : i \in 1..n \/ i = n + 1
      BY <1>4, OneMore, Zenon
    <3>2. \A i \in 1..n : i \notin Holders => ~records[i].header.required
      BY <1>0, Zenon DEF WalkInv, Found
    <3> QED
      BY <1>4, <2>1, <2>3, <3>1, <3>2, ZenonT(30)
  <2>7. page_table_ownership # None => ValidOwnership(page_table_ownership)'
    BY <2>5, ZenonT(30) DEF WalkInv, Found, ValidOwnership, validate_frame_address, ListEnd
  <2> QED
    BY <2>1, <2>2, <2>5, <2>6, <2>7, ZenonT(30) DEF WalkInv, Found
<1>10. Found'
  BY <1>8, <1>9, Zenon
<1> QED
  BY <1>1, <1>5, <1>7, <1>10, Zenon DEF WalkInv, Listed

\* Every turn of the walk and the check of the frame list keep the invariant.
LEMMA WalkNextInv == WalkInv /\ [WalkNext]_walkVars => WalkInv'
<1> SUFFICES ASSUME WalkInv, [WalkNext]_walkVars PROVE WalkInv'
  OBVIOUS
<1> USE DEF WalkInv
<1>1. ASSUME UNCHANGED <<area, offset, extension_count, page_table_ownership, records>>
      PROVE  /\ Holders' = Holders /\ \A i \in Nat : RecordEnd(i)' = RecordEnd(i)
             /\ Found'
  <2>1. Holders' = Holders /\ \A i \in Nat : RecordEnd(i)' = RecordEnd(i)
    BY <1>1, Zenon DEF Holders, RecordEnd
  <2> QED
    BY <1>1, <2>1, Zenon DEF Found, ValidOwnership, validate_frame_address, ListEnd
<1>2. CASE UNCHANGED walkVars \/ WalkRest
  <2>1. UNCHANGED walkVars
    BY <1>2, Zenon DEF WalkRest
  <2> QED
    BY <1>1, <2>1, Zenon DEF walkVars, WalkTypes, Tiles, Listed, AcceptsFrames, RecordEnd
<1>3. ASSUME UNCHANGED <<area, offset, extension_count, page_table_ownership, records>>,
             walkPhase' \in {"walk", "summary", "refused"},
             walkPhase' = "walk" => offset <= area.length,
             walkPhase' = "summary" => offset = area.length
      PROVE  WalkInv'
  <2>1. WalkTypes'
    BY <1>3, Zenon DEF WalkTypes
  <2>2. walkPhase' \notin {"start", "owned"}
    BY <1>3, Zenon
  <2>3. /\ RecordEnd(Len(records))' = offset'
        /\ \A i \in 1..Len(records') : records'[i].at = RecordEnd(i - 1)'
    BY <1>3, Zenon DEF Tiles, RecordEnd
  <2>4. Tiles' /\ Listed'
    BY <1>3, <2>2, <2>3, Zenon DEF Tiles, Listed
  <2> QED
    BY <1>1, <1>3, <2>1, <2>4, Zenon
<1>4. CASE ChecksEnvelope
  <2>1. area.length \in Nat
    BY ExtensionsAssumption, Zenon DEF WalkTypes
  <2>2. /\ UNCHANGED <<area, offset, extension_count, page_table_ownership, records>>
        /\ walkPhase = "start" /\ walkPhase' \in {"walk", "summary", "refused"}
        /\ walkPhase' = "summary" => area.length = 0
    BY <1>4, Zenon DEF ChecksEnvelope
  <2>3. offset = 0
    BY <2>2, Zenon DEF Tiles
  <2> QED
    BY <1>3, <2>1, <2>2, <2>3
<1>5. CASE TruncatedHeader
  <2>1. /\ UNCHANGED <<area, offset, extension_count, page_table_ownership, records>>
        /\ walkPhase' = "refused"
    BY <1>5, Zenon DEF TruncatedHeader
  <2> QED
    BY <1>3, <2>1, Zenon
<1>6. ASSUME NEW header \in Headers,
             NEW payload \in (IF IsOwnership(header) THEN Ownerships ELSE {None}),
             ReadsRecord(header, payload)
      PROVE  WalkInv'
  <2>1. CASE WellFormed(header) /\ Accepts(header, payload)
    BY <1>6, <2>1, ReadsRecordInv, Zenon
  <2>2. CASE ~(WellFormed(header) /\ Accepts(header, payload))
    <3>1. /\ UNCHANGED <<area, offset, extension_count, page_table_ownership, records>>
          /\ walkPhase' = "refused"
      BY <1>6, <2>2, Zenon DEF ReadsRecord
    <3> QED
      BY <1>3, <3>1, Zenon
  <2> QED
    BY <2>1, <2>2, Zenon
<1>7. CASE EndsWalk
  <2>1. area.length \in Nat /\ offset \in Nat
    BY ExtensionsAssumption, Zenon DEF WalkTypes
  <2>2. /\ UNCHANGED <<area, offset, extension_count, page_table_ownership, records>>
        /\ walkPhase = "walk" /\ walkPhase' = "summary" /\ offset >= area.length
    BY <1>7, Zenon DEF EndsWalk
  <2>3. offset <= area.length
    BY <2>2, Zenon DEF Tiles
  <2> QED
    BY <1>3, <2>1, <2>2, <2>3
<1>8. CASE ValidatesFrames
  <2>1. UNCHANGED <<area, offset, extension_count, page_table_ownership, records>>
    BY <1>8, Zenon DEF ValidatesFrames
  <2>2. WalkTypes' /\ Tiles'
    BY <1>1, <1>8, <2>1, Zenon DEF ValidatesFrames, WalkTypes, Tiles, RecordEnd
  <2>3. Listed'
    BY <1>8, <2>1, Zenon DEF ValidatesFrames, Listed, AcceptsFrames
  <2> QED
    BY <1>1, <2>1, <2>2, <2>3, Zenon
<1> QED
  BY <1>2, <1>4, <1>5, <1>6, <1>7, <1>8, ZenonT(30) DEF WalkNext

\* The invariant holds in every reachable state.
LEMMA WalkInvariance == WalkSpec => []WalkInv
  BY WalkInitInv, WalkNextInv, PTL DEF WalkSpec

\* Whatever sizes the records claim, every turn of validate_extension_area's
\* loop moves forward inside the area.
THEOREM WalkTheorem == WalkSpec => WalkAdvances
<1>1. WalkInv /\ [WalkNext]_walkVars =>
        (walkPhase = "walk" /\ walkPhase' = "walk" => offset < offset' /\ offset' <= area.length)
      \/ UNCHANGED walkVars
  <2> SUFFICES ASSUME WalkInv, WalkNext, walkPhase = "walk", walkPhase' = "walk", ~UNCHANGED walkVars
               PROVE  offset < offset' /\ offset' <= area.length
    BY Zenon
  <2>1. PICK header \in Headers :
          \E payload \in (IF IsOwnership(header) THEN Ownerships ELSE {None}) :
            ReadsRecord(header, payload)
    BY Zenon DEF WalkNext, ChecksEnvelope, TruncatedHeader, EndsWalk, ValidatesFrames, WalkRest
  <2>2. WellFormed(header) /\ offset' = offset + header.total_size
    BY <2>1, Zenon DEF ReadsRecord
  <2>3. header.total_size \in Nat /\ EXTENSION_HEADER_SIZE \in Nat \ {0} /\ offset \in Nat
    BY ExtensionsAssumption, Zenon DEF WalkInv, WalkTypes
  <2> QED
    BY <2>2, <2>3 DEF WellFormed
<1> QED
  BY <1>1, WalkInvariance, PTL DEF WalkSpec, WalkAdvances

-----------------------------------------------------------------------------
(* FrameOwner, for every address set, capacity and plan size.  The safety   *)
(* properties are not inductive: they follow from Inv, which says what the  *)
(* recorded frames are at each point of allocate, try_release and drop.     *)

BuildStages == {"start", "allocate", "zero", "rollback", "build_error",
                "drop_error"}

\* The recorded frames are pairwise different pages of the firmware.
FramesLive ==
  /\ \A i \in 1..len : frames[i] \in live
  /\ \A i, j \in 1..len : frames[i] = frames[j] => i = j

\* While allocate runs, every recorded frame but the one being zeroed is
\* valid and zeroed, and the array has room for the planned tables.
AllocationProgress ==
  /\ stage = "start" => len = 0 /\ freed = {} /\ refused = {}
  /\ stage \in {"allocate", "zero"} =>
       /\ planned <= CAPACITY
       /\ len <= planned
       /\ freed = {} /\ refused = {}
       /\ \A i \in 1..len : frames[i] \in ValidAddr
  /\ stage = "allocate" => \A i \in 1..len : frames[i] \in zeroed
  /\ stage = "zero" => /\ len # 0
                       /\ \A i \in 1..(len - 1) : frames[i] \in zeroed

\* The owned flag and the transferred metadata follow the stage.
Flags ==
  /\ stage \in BuildStages => ~owned /\ root = NoFrame
  /\ stage \notin {"drop_owner", "gone"} => handed = {}
  /\ stage = "gone" => ~owned
  /\ owned => handed = {}
  /\ stage \in {"owned", "releasing"} => owned \/ len = 0
  /\ stage \in {"drop_owner", "gone"} /\ ~owned =>
       \A i \in 1..len : frames[i] \in handed

\* What the complete owner has while it is armed.
OwnerFrames ==
  owned => /\ \A i \in 1..len : frames[i] \in ValidAddr \cap zeroed
           /\ root = frames[1]
           /\ stage \in {"owned", "releasing"} /\ freed = {} => len = planned

\* A page still allocated is recorded, handed over, or refused by the
\* firmware.
Accounted ==
  \A a \in live : \/ a \in refused
                  \/ a \in handed
                  \/ \E i \in 1..len : frames[i] = a

Inv ==
  /\ TypeOK
  /\ FramesLive
  /\ AllocationProgress
  /\ Flags
  /\ OwnerFrames
  /\ Accounted
  /\ HandedFramesStayHeld
  /\ FreesOnlyHeldPages

-----------------------------------------------------------------------------
\* The owner starts empty, so every part of the invariant holds.
LEMMA InitInv == Init => Inv
<1> SUFFICES ASSUME Init PROVE Inv
  BY Zenon
<1>1. TypeOK
  <2>1. frames \in [Slots -> Addr \cup {NoFrame}]
    BY Zenon DEF Init
  <2>2. owned \in BOOLEAN
    BY Zenon DEF Init
  <2> QED
    BY <2>1, <2>2, FrameOwnerAssumption DEF Init, TypeOK, Stages
<1>2. FramesLive /\ AllocationProgress /\ Accounted
  BY DEF Init, FramesLive, AllocationProgress, Accounted
<1>3. Flags /\ OwnerFrames
  BY Zenon DEF Init, Flags, BuildStages, OwnerFrames
<1>4. HandedFramesStayHeld /\ FreesOnlyHeldPages
  BY Zenon DEF Init, HandedFramesStayHeld, FreesOnlyHeldPages
<1> QED
  BY <1>1, <1>2, <1>3, <1>4, Zenon DEF Inv

\* A step that only moves the program counter keeps every part of the
\* invariant that does not mention it.
LEMMA OnlyStageMoves ==
  ASSUME Inv, UNCHANGED <<planned, owner, firmware, zeroed>>, stage' \in Stages
  PROVE  /\ TypeOK' /\ FramesLive' /\ Accounted'
         /\ HandedFramesStayHeld' /\ FreesOnlyHeldPages'
<1>1. UNCHANGED <<planned, frames, len, owned, root, handed, zeroed>>
  BY Zenon DEF owner
<1>2. UNCHANGED <<live, freed, refused, faults>>
  BY Zenon DEF firmware
<1> QED
  BY <1>1, <1>2, Zenon DEF Inv, TypeOK, FramesLive, Accounted, HandedFramesStayHeld,
                    FreesOnlyHeldPages

\* Recording a page that was just allocated and was not recorded before
\* keeps the recorded frames live, different and within the array.
LEMMA NewFrameRecorded ==
  ASSUME Inv, NEW a \in Addr, stage = "allocate", len < planned,
         a \notin Held, AllocatePages(a), Push(a),
         stage' \in Stages, UNCHANGED <<planned, zeroed>>
  PROVE  /\ TypeOK' /\ FramesLive' /\ Accounted'
         /\ HandedFramesStayHeld' /\ FreesOnlyHeldPages'
         /\ len' = len + 1 /\ len' <= CAPACITY
         /\ \A i \in 1..len : frames'[i] = frames[i]
         /\ frames'[len + 1] = a
<1>1. len \in Nat /\ len + 1 \in Slots /\ len + 1 <= CAPACITY
  BY FrameOwnerAssumption DEF Inv, TypeOK, AllocationProgress, Slots
<1>2. /\ frames' \in [Slots -> Addr \cup {NoFrame}]
      /\ \A i \in 1..len : frames'[i] = frames[i]
      /\ frames'[len + 1] = a
  BY <1>1 DEF Push, Inv, TypeOK, Slots
<1>3. len' = len + 1 /\ UNCHANGED <<owned, root, handed>>
  BY Zenon DEF Push
<1>4. live' = live \cup {a} /\ UNCHANGED <<freed, refused, faults>>
  BY Zenon DEF AllocatePages
<1>5. TypeOK'
  BY <1>1, <1>2, <1>3, <1>4, FrameOwnerAssumption DEF Inv, TypeOK
<1>6. FramesLive'
  BY <1>1, <1>2, <1>3, <1>4 DEF Inv, FramesLive, Held
<1>7. Accounted'
  BY <1>1, <1>2, <1>3, <1>4 DEF Inv, Accounted
<1>8. HandedFramesStayHeld' /\ FreesOnlyHeldPages'
  BY <1>3, <1>4, Zenon DEF Inv, HandedFramesStayHeld, FreesOnlyHeldPages
<1> QED
  BY <1>1, <1>2, <1>3, <1>5, <1>6, <1>7, <1>8, Zenon

\* Freeing the last recorded frame never frees a page twice.  The frame may
\* leave the record although the firmware refused it; it is then accounted
\* for among the refused pages.
LEMMA LastFrameFreed ==
  ASSUME Inv, handed = {}, len # 0, NEW accepted \in BOOLEAN,
         FreePages(frames[len], accepted),
         len' = len - 1 \/ (~accepted /\ len' = len),
         stage' \in Stages,
         UNCHANGED <<planned, frames, owned, root, handed, zeroed>>
  PROVE  /\ TypeOK' /\ FramesLive' /\ Accounted'
         /\ HandedFramesStayHeld' /\ FreesOnlyHeldPages'
         /\ len' \in 0..len
         /\ freed' = {} => len' = len \/ ~accepted
<1>1. len \in 1..CAPACITY /\ frames[len] \in live /\ frames[len] \in Addr
  BY FrameOwnerAssumption DEF Inv, TypeOK, FramesLive
<1>2. faults' = faults /\ faults = {}
  BY <1>1, Zenon DEF FreePages, Inv, FreesOnlyHeldPages
<1>3. len' \in 0..len /\ len' \in 0..CAPACITY
  BY <1>1, FrameOwnerAssumption
<1>4. /\ live' = IF accepted THEN live \ {frames[len]} ELSE live
      /\ freed' = IF accepted THEN freed \cup {frames[len]} ELSE freed
      /\ refused' = IF accepted THEN refused \ {frames[len]}
                    ELSE refused \cup {frames[len]}
  BY Zenon DEF FreePages
<1>5. TypeOK'
  BY <1>1, <1>2, <1>3, <1>4, Zenon DEF Inv, TypeOK
<1>6. FramesLive'
  BY <1>1, <1>3, <1>4 DEF Inv, FramesLive
<1>7. Accounted'
  BY <1>1, <1>3, <1>4 DEF Inv, Accounted
<1>8. HandedFramesStayHeld' /\ FreesOnlyHeldPages'
  BY <1>2, Zenon DEF HandedFramesStayHeld, FreesOnlyHeldPages
<1> QED
  BY <1>3, <1>4, <1>5, <1>6, <1>7, <1>8, Zenon

-----------------------------------------------------------------------------
\* Every step of the owner, of the firmware's answers and of the callers
\* keeps the invariant.
LEMMA NextInv == Inv /\ [Next]_vars => Inv'
<1> SUFFICES ASSUME Inv, [Next]_vars PROVE Inv'
  BY Zenon
<1> DEFINE Rest == AllocationProgress /\ Flags /\ OwnerFrames
<1>0. /\ len \in Nat /\ CAPACITY \in Nat /\ planned \in Nat
      /\ owned \in BOOLEAN /\ stage \in Stages
  BY FrameOwnerAssumption DEF Inv, TypeOK
<1> USE DEF AllocationProgress, Flags, BuildStages, OwnerFrames
<1>1. CASE CheckCapacity
  <2>1. stage' \in Stages
    BY <1>1, Zenon DEF CheckCapacity, Move, Stages
  <2>2. Rest'
    BY <1>0, <1>1 DEF CheckCapacity, Move, Inv, owner, firmware
  <2> QED
    BY <1>1, <2>1, <2>2, OnlyStageMoves, Zenon DEF CheckCapacity, Move, Inv
<1>2. CASE AllocationFails
  <2>1. stage' \in Stages
    BY <1>2, Zenon DEF AllocationFails, Move, Stages
  <2>2. Rest'
    BY <1>2, Zenon DEF AllocationFails, Move, Inv, owner, firmware
  <2> QED
    BY <1>2, <2>1, <2>2, OnlyStageMoves, Zenon DEF AllocationFails, Move, Inv
<1>3. ASSUME NEW a \in Addr, AllocatesDuplicate(a) PROVE Inv'
  <2>1. live' = live
    <3>1. \E i \in 1..len : a = frames[i]
      BY <1>3, Zenon DEF AllocatesDuplicate, Obtain, Held
    <3> QED
      BY <1>3, <3>1, Zenon DEF AllocatesDuplicate, Obtain, AllocatePages, Inv, FramesLive
  <2>2. UNCHANGED <<planned, owner, firmware, zeroed>> /\ stage' \in Stages
    BY <1>3, <2>1, Zenon DEF AllocatesDuplicate, Obtain, AllocatePages, firmware, Stages
  <2>3. Rest'
    BY <1>3, <2>2 DEF AllocatesDuplicate, Obtain, Inv, owner, firmware
  <2> QED
    BY <2>2, <2>3, OnlyStageMoves, Zenon DEF Inv
<1>4. ASSUME NEW a \in Addr, AllocatesInvalid(a) PROVE Inv'
  <2>1. stage' \in Stages
    BY <1>4, Zenon DEF AllocatesInvalid, Obtain, Stages
  <2>2. Rest'
    BY <1>4, Zenon DEF AllocatesInvalid, Obtain, Push, Inv
  <2> QED
    BY <1>4, <2>1, <2>2, NewFrameRecorded, Zenon DEF AllocatesInvalid, Obtain, Inv
<1>5. ASSUME NEW a \in Addr, AllocatesFrame(a) PROVE Inv'
  <2>1. stage' \in Stages
    BY <1>5, Zenon DEF AllocatesFrame, Obtain, Stages
  <2>2. /\ TypeOK' /\ FramesLive' /\ Accounted'
        /\ HandedFramesStayHeld' /\ FreesOnlyHeldPages'
        /\ len' = len + 1 /\ len' <= CAPACITY
        /\ \A i \in 1..len : frames'[i] = frames[i]
        /\ frames'[len + 1] = a
    BY <1>5, <2>1, NewFrameRecorded, Zenon DEF AllocatesFrame, Obtain
  <2>3. Rest'
    BY <1>0, <1>5, <2>2 DEF AllocatesFrame, Obtain, AllocatePages, Push, Inv
  <2> QED
    BY <2>2, <2>3, Zenon DEF Inv
<1>6. ASSUME NEW b \in BOOLEAN, ZeroFrame(b) PROVE Inv'
  <2>1. len \in 1..len /\ frames[len] \in Addr
    BY <1>0, <1>6 DEF ZeroFrame, Zero, Inv, TypeOK, FramesLive
  <2>2. TypeOK'
    BY <1>6, <2>1, Zenon DEF ZeroFrame, Zero, Inv, TypeOK, Stages, owner, firmware
  <2>3. FramesLive' /\ Accounted' /\ HandedFramesStayHeld' /\ FreesOnlyHeldPages'
    BY <1>6, Zenon DEF ZeroFrame, Zero, Inv, FramesLive, Accounted, HandedFramesStayHeld,
                FreesOnlyHeldPages, owner, firmware
  <2>4. Rest'
    BY <1>0, <1>6, <2>1 DEF ZeroFrame, Zero, Inv, owner, firmware
  <2> QED
    BY <2>2, <2>3, <2>4, Zenon DEF Inv
<1>7. CASE Build
  <2>1. 1 \in 1..len /\ frames[1] \in Addr
    BY <1>0, <1>7 DEF Build, Inv, TypeOK, FramesLive
  <2>2. TypeOK'
    BY <1>7, <2>1, Zenon DEF Build, Inv, TypeOK, Stages, firmware
  <2>3. FramesLive' /\ Accounted' /\ HandedFramesStayHeld' /\ FreesOnlyHeldPages'
    BY <1>7 DEF Build, Inv, FramesLive, Accounted, HandedFramesStayHeld,
                FreesOnlyHeldPages, firmware
  <2>4. Rest'
    BY <1>7, Zenon DEF Build, Inv, firmware
  <2> QED
    BY <2>2, <2>3, <2>4, Zenon DEF Inv
<1>8. ASSUME NEW b \in BOOLEAN, RollbackStep(b) PROVE Inv'
  <2>1. stage' \in Stages /\ handed = {}
    BY <1>0, <1>8, Zenon DEF RollbackStep, FreeLast, Inv, Stages
  <2>2. len' = len - 1 \/ (~b /\ len' = len)
    BY <1>8, Zenon DEF RollbackStep, FreeLast
  <2>3. /\ TypeOK' /\ FramesLive' /\ Accounted'
        /\ HandedFramesStayHeld' /\ FreesOnlyHeldPages'
        /\ len' \in 0..len
        /\ freed' = {} => len' = len \/ ~b
    BY <1>8, <2>1, <2>2, LastFrameFreed, Zenon DEF RollbackStep, FreeLast
  <2>4. Rest'
    BY <1>0, <1>8, <2>3, Zenon DEF RollbackStep, FreeLast, FreePages, Inv
  <2> QED
    BY <2>3, <2>4, Zenon DEF Inv
<1>9. CASE RollbackDone
  <2>1. stage' \in Stages
    BY <1>9, Zenon DEF RollbackDone, Move, Stages
  <2>2. Rest'
    BY <1>0, <1>9, Zenon DEF RollbackDone, Move, Inv, owner, firmware
  <2> QED
    BY <1>9, <2>1, <2>2, OnlyStageMoves, Zenon DEF RollbackDone, Move, Inv
<1>10. CASE RetryRollback
  <2>1. stage' \in Stages
    BY <1>10, Zenon DEF RetryRollback, Move, Stages
  <2>2. Rest'
    BY <1>0, <1>10, Zenon DEF RetryRollback, Move, Inv, owner, firmware
  <2> QED
    BY <1>10, <2>1, <2>2, OnlyStageMoves, Zenon DEF RetryRollback, Move, Inv
<1>11. CASE DropBuildError
  <2>1. stage' \in Stages
    BY <1>11, Zenon DEF DropBuildError, Move, Stages
  <2>2. Rest'
    BY <1>0, <1>11, Zenon DEF DropBuildError, Move, Inv, owner, firmware
  <2> QED
    BY <1>11, <2>1, <2>2, OnlyStageMoves, Zenon DEF DropBuildError, Move, Inv
<1>12. ASSUME NEW b \in BOOLEAN, DropErrorStep(b) PROVE Inv'
  <2>1. stage' \in Stages /\ handed = {}
    BY <1>0, <1>12, Zenon DEF DropErrorStep, FreeLast, Inv, Stages
  <2>2. len' = len - 1 \/ (~b /\ len' = len)
    BY <1>12, Zenon DEF DropErrorStep, FreeLast
  <2>3. /\ TypeOK' /\ FramesLive' /\ Accounted'
        /\ HandedFramesStayHeld' /\ FreesOnlyHeldPages'
        /\ len' \in 0..len
        /\ freed' = {} => len' = len \/ ~b
    BY <1>12, <2>1, <2>2, LastFrameFreed, Zenon DEF DropErrorStep, FreeLast
  <2>4. Rest'
    BY <1>0, <1>12, <2>3, Zenon DEF DropErrorStep, FreeLast, FreePages, Inv
  <2> QED
    BY <2>3, <2>4, Zenon DEF Inv
<1>13. CASE DropErrorDone
  <2>1. stage' \in Stages
    BY <1>13, Zenon DEF DropErrorDone, Move, Stages
  <2>2. Rest'
    BY <1>0, <1>13, SMTT(30) DEF DropErrorDone, Move, Inv, owner, firmware
  <2> QED
    BY <1>13, <2>1, <2>2, OnlyStageMoves, Zenon DEF DropErrorDone, Move, Inv
<1>14. CASE TryRelease
  <2>1. stage' \in Stages
    BY <1>14, Zenon DEF TryRelease, Move, Stages
  <2>2. Rest'
    BY <1>0, <1>14, Zenon DEF TryRelease, Move, Inv, owner, firmware
  <2> QED
    BY <1>14, <2>1, <2>2, OnlyStageMoves, Zenon DEF TryRelease, Move, Inv
<1>15. ASSUME NEW b \in BOOLEAN, ReleaseStep(b) PROVE Inv'
  <2>1. stage' \in Stages /\ handed = {}
    BY <1>0, <1>15, Zenon DEF ReleaseStep, FreeLast, Inv, Stages
  <2>2. len' = len - 1 \/ (~b /\ len' = len)
    BY <1>15, Zenon DEF ReleaseStep, FreeLast
  <2>3. /\ TypeOK' /\ FramesLive' /\ Accounted'
        /\ HandedFramesStayHeld' /\ FreesOnlyHeldPages'
        /\ len' \in 0..len
        /\ freed' = {} => len' = len \/ ~b
    BY <1>15, <2>1, <2>2, LastFrameFreed, Zenon DEF ReleaseStep, FreeLast
  <2>4. Rest'
    BY <1>0, <1>15, <2>3, SMTT(30) DEF ReleaseStep, FreeLast, FreePages, Inv
  <2> QED
    BY <2>3, <2>4, Zenon DEF Inv
<1>16. CASE ReleaseDone
  <2>1. TypeOK'
    BY <1>0, <1>16, Zenon DEF ReleaseDone, Inv, TypeOK, Stages, firmware
  <2>2. FramesLive' /\ Accounted' /\ HandedFramesStayHeld' /\ FreesOnlyHeldPages'
    BY <1>16, Zenon DEF ReleaseDone, Inv, FramesLive, Accounted, HandedFramesStayHeld,
       FreesOnlyHeldPages, firmware
  <2>3. Rest'
    BY <1>0, <1>16, Zenon DEF ReleaseDone, Inv, firmware
  <2> QED
    BY <2>1, <2>2, <2>3 DEF Inv
<1>17. CASE Transfer
  <2>1. TypeOK'
    <3>1. handed' \subseteq live
      BY <1>17, Zenon DEF Transfer, HandOver, Inv, FramesLive, Held
    <3>2. owned' \in BOOLEAN
      BY <1>17, Zenon DEF Transfer, HandOver
    <3> QED
      BY <1>17, <3>1, <3>2, Zenon DEF Transfer, HandOver, Inv, TypeOK, Stages, firmware
  <2>2. FramesLive' /\ Accounted' /\ HandedFramesStayHeld' /\ FreesOnlyHeldPages'
    BY <1>17 DEF Transfer, HandOver, Inv, FramesLive, Accounted, HandedFramesStayHeld,
       FreesOnlyHeldPages, firmware, Held
  <2>3. Rest'
    BY <1>0, <1>17, Zenon DEF Transfer, HandOver, Inv, firmware, Held
  <2> QED
    BY <2>1, <2>2, <2>3 DEF Inv
<1>18. CASE DropOwner
  <2>1. stage' \in Stages
    BY <1>18, Zenon DEF DropOwner, Move, Stages
  <2>2. Rest'
    BY <1>0, <1>18 DEF DropOwner, Move, Inv, owner, firmware
  <2> QED
    BY <1>18, <2>1, <2>2, OnlyStageMoves, Zenon DEF DropOwner, Move, Inv
<1>19. ASSUME NEW b \in BOOLEAN, DropOwnerStep(b) PROVE Inv'
  <2>1. stage' \in Stages /\ handed = {}
    BY <1>0, <1>19, Zenon DEF DropOwnerStep, FreeLast, Inv, Stages
  <2>2. len' = len - 1 \/ (~b /\ len' = len)
    BY <1>19, Zenon DEF DropOwnerStep, FreeLast
  <2>3. /\ TypeOK' /\ FramesLive' /\ Accounted'
        /\ HandedFramesStayHeld' /\ FreesOnlyHeldPages'
        /\ len' \in 0..len
        /\ freed' = {} => len' = len \/ ~b
    BY <1>19, <2>1, <2>2, LastFrameFreed, Zenon DEF DropOwnerStep, FreeLast
  <2>4. Rest'
    BY <1>0, <1>19, <2>3 DEF DropOwnerStep, FreeLast, FreePages, Inv
  <2> QED
    BY <2>3, <2>4, Zenon DEF Inv
<1>20. CASE DropOwnerDone
  <2>1. TypeOK'
    BY <1>0, <1>20, Zenon DEF DropOwnerDone, Inv, TypeOK, Stages, firmware
  <2>2. FramesLive' /\ Accounted' /\ HandedFramesStayHeld' /\ FreesOnlyHeldPages'
    BY <1>20, Zenon DEF DropOwnerDone, Inv, FramesLive, Accounted, HandedFramesStayHeld,
       FreesOnlyHeldPages, firmware
  <2>3. Rest'
    BY <1>0, <1>20 DEF DropOwnerDone, Inv, firmware
  <2> QED
    BY <2>1, <2>2, <2>3 DEF Inv
<1>21. CASE UNCHANGED vars
  <2>1. UNCHANGED <<planned, owner, firmware, zeroed>> /\ stage' = stage
    BY <1>21, Zenon DEF vars
  <2>2. Rest'
    BY <2>1, Zenon DEF Inv, owner, firmware
  <2> QED
    BY <1>0, <2>1, <2>2, OnlyStageMoves, Zenon DEF Inv
<1> QED
  BY <1>1, <1>2, <1>3, <1>4, <1>5, <1>6, <1>7, <1>8, <1>9, <1>10, <1>11,
     <1>12, <1>13, <1>14, <1>15, <1>16, <1>17, <1>18, <1>19, <1>20, <1>21, Zenon
     DEF Next, Running, Calls, Terminated

-----------------------------------------------------------------------------
\* The invariant holds in every reachable state.
LEMMA Invariance == Spec => []Inv
BY InitInv, NextInv, PTL DEF Spec

\* Variables keep their types for every capacity and plan: recording a frame
\* never writes outside the frame array.
THEOREM TypeCorrect == Spec => []TypeOK
<1>1. Inv => TypeOK
  BY Zenon DEF Inv
<1> QED
  BY <1>1, Invariance, PTL

\* However allocations, zeroings and frees fail, and however often a release
\* is retried before the owner is dropped, no page is freed twice.
THEOREM NoDoubleFree == Spec => []FreesOnlyHeldPages
<1>1. Inv => FreesOnlyHeldPages
  BY Zenon DEF Inv
<1> QED
  BY <1>1, Invariance, PTL

\* Frames handed to the post-exit state are never freed.
THEOREM TransferIsFinal == Spec => []HandedFramesStayHeld
<1>1. Inv => HandedFramesStayHeld
  BY Zenon DEF Inv
<1> QED
  BY <1>1, Invariance, PTL

\* An armed owner is a complete, zeroed, duplicate-free set of frames.
THEOREM ArmedOwnerComplete == Spec => []OwnerIsComplete
<1>1. Inv => OwnerIsComplete
  BY Zenon DEF Inv, OwnerIsComplete, FramesLive, OwnerFrames
<1> QED
  BY <1>1, Invariance, PTL

\* Only a page the firmware itself refused can outlive the last owner.
THEOREM NothingLeaksSilently == Spec => []NoSilentLeak
<1>1. Inv => NoSilentLeak
  BY Zenon DEF Inv, NoSilentLeak, Accounted, Flags
<1> QED
  BY <1>1, Invariance, PTL

\* The three together, as the model checker checks them on small instances.
THEOREM FramesAccounted == Spec => []FramesAreAccountedFor
<1>1. Inv => FramesAreAccountedFor
  BY Zenon DEF Inv, FramesAreAccountedFor, NoSilentLeak, Accounted, Flags
<1> QED
  BY <1>1, Invariance, PTL

-----------------------------------------------------------------------------
\* A free step that empties the record frees the root last: the root is the
\* first frame, and frames leave from the end.
LEMMA RootStep == Inv /\ [Next]_vars =>
                  ((root \in freed' /\ root \notin freed) => len' = 0)
<1> SUFFICES ASSUME Inv, [Next]_vars, root \in freed', root \notin freed
             PROVE  len' = 0
  BY Zenon
<1>0. len \in Nat
  BY DEF Inv, TypeOK
<1>1. ASSUME NEW b \in BOOLEAN, FreePages(frames[len], b), len # 0,
             len' = len - 1 \/ (~b /\ len' = len), owned
      PROVE  len' = 0
  <2>1. b /\ root = frames[len] /\ root = frames[1]
    BY <1>1, Zenon DEF FreePages, Inv, OwnerFrames
  <2>2. 1 \in 1..len /\ len \in 1..len
    BY <1>0, <1>1
  <2>3. len = 1
    BY <2>1, <2>2, Zenon DEF Inv, FramesLive
  <2> QED
    BY <1>1, <2>1, <2>3
<1>2. ASSUME NEW b \in BOOLEAN, RollbackStep(b) \/ DropErrorStep(b)
      PROVE  FALSE
  <2>1. stage \in {"rollback", "drop_error"} /\ len # 0 /\ FreePages(frames[len], b)
    BY <1>2, Zenon DEF RollbackStep, DropErrorStep, FreeLast
  <2>2. root = NoFrame
    BY <2>1, Zenon DEF Inv, Flags, BuildStages
  <2>3. len \in 1..len
    BY <1>0, <2>1
  <2>4. frames[len] \in Addr
    BY <2>3, Zenon DEF Inv, TypeOK, FramesLive
  <2>5. root = frames[len]
    BY <2>1, Zenon DEF FreePages
  <2> QED
    BY <2>2, <2>4, <2>5, FrameOwnerAssumption, Zenon
<1>3. ASSUME NEW b \in BOOLEAN, ReleaseStep(b) \/ DropOwnerStep(b)
      PROVE  len' = 0
  BY <1>1, <1>3, Zenon DEF ReleaseStep, FreeLast, DropOwnerStep
<1>4. ASSUME UNCHANGED freed PROVE FALSE
  BY <1>4, Zenon
<1> QED
  BY <1>2, <1>3, <1>4, Zenon
     DEF Next, Running, Calls, Terminated, vars, firmware, Move, Zero, Obtain,
         HandOver, CheckCapacity,
         AllocationFails, AllocatesDuplicate, AllocatesInvalid, AllocatesFrame,
         AllocatePages, ZeroFrame, Build, RollbackDone, RetryRollback,
         DropBuildError, DropErrorDone, TryRelease, ReleaseDone, Transfer,
         DropOwner, DropOwnerDone

\* No release leaves children of a root the firmware may reuse.
THEOREM ReleaseOrder == Spec => RootFreedLast
BY RootStep, Invariance, PTL DEF Spec, RootFreedLast

-----------------------------------------------------------------------------
(* FrameOwner implements PageOwnership under pageStatus.                   *)

\* Nothing is owned at first.
LEMMA InitOwnership == Init => Ownership!Init
BY DEF Init, Ownership!Init, pageStatus, Held

\* Steps that touch neither the record, the transferred metadata nor the
\* firmware are invisible.
LEMMA InvisibleStep ==
  ASSUME UNCHANGED <<frames, len, handed, live, freed>>
  PROVE  UNCHANGED pageStatus
BY Zenon DEF pageStatus, Held

\* Recording a new frame acquires it.
LEMMA AcquireStep ==
  ASSUME Inv, NEW a \in Addr, stage = "allocate", len < planned,
         a \notin Held, AllocatePages(a), Push(a),
         stage' \in Stages, UNCHANGED <<planned, zeroed>>
  PROVE  Ownership!Acquire(a)
<1>1. /\ len' = len + 1
      /\ \A i \in 1..len : frames'[i] = frames[i]
      /\ frames'[len + 1] = a
  BY NewFrameRecorded, Zenon
<1>2. len \in Nat /\ handed = {} /\ freed = {} /\ refused = {}
  BY DEF Inv, TypeOK, Flags, AllocationProgress
<1>3. Held' = Held \cup {a}
  <2>1. PICK m : m = len + 1
    BY Zenon
  <2>2. \A i \in 1..len : frames'[i] = frames[i]
    BY <1>1
  <2>3. frames'[m] = a
    BY <1>1, <2>1
  <2>4. \A i : i \in 1..len' <=> i \in 1..len \/ i = m
    BY <1>1, <1>2, <2>1
  <2> QED
    BY <2>2, <2>3, <2>4, Zenon DEF Held
<1>4. a \notin live
  BY <1>2, Zenon DEF Inv, Accounted, Held
<1>5. handed' = {} /\ freed' = {} /\ live' = live \cup {a}
  BY <1>2, Zenon DEF Push, AllocatePages
<1>6. pageStatus[a] = "unowned"
  BY <1>2, <1>4, Zenon DEF pageStatus
<1>7. pageStatus' = [pageStatus EXCEPT ![a] = "owned"]
  BY <1>2, <1>3, <1>5, Zenon DEF pageStatus
<1> QED
  BY <1>6, <1>7, Zenon DEF Ownership!Acquire

\* Freeing the last frame releases it, abandons it, or changes nothing.
LEMMA FreeStep ==
  ASSUME Inv, handed = {}, len # 0, NEW accepted \in BOOLEAN,
         FreePages(frames[len], accepted),
         len' = len - 1 \/ (~accepted /\ len' = len),
         UNCHANGED <<frames, handed>>
  PROVE  \/ frames[len] \in Addr /\ Ownership!Release(frames[len])
         \/ frames[len] \in Addr /\ Ownership!Abandon(frames[len])
         \/ UNCHANGED pageStatus
<1>1. len \in Nat /\ frames[len] \in live /\ frames[len] \in Addr
  BY DEF Inv, TypeOK, FramesLive
<1>2. pageStatus[frames[len]] = "owned"
  BY <1>1 DEF pageStatus, Held
<1>3. CASE len' = len - 1
  <2>1. Held' = Held \ {frames[len]}
    BY <1>1, <1>3 DEF Held, Inv, FramesLive
  <2>2. CASE accepted
    <3>1. live' = live \ {frames[len]} /\ freed' = freed \cup {frames[len]}
      BY <2>2, Zenon DEF FreePages
    <3>2. pageStatus' = [pageStatus EXCEPT ![frames[len]] = "released"]
      BY <2>1, <3>1, Zenon DEF pageStatus
    <3> QED
      BY <1>1, <1>2, <3>2, Zenon DEF Ownership!Release
  <2>3. CASE ~accepted
    <3>1. live' = live /\ freed' = freed
      BY <2>3, Zenon DEF FreePages
    <3>2. pageStatus' = [pageStatus EXCEPT ![frames[len]] = "abandoned"]
      BY <1>1, <2>1, <3>1, Zenon DEF pageStatus
    <3> QED
      BY <1>1, <1>2, <3>2, Zenon DEF Ownership!Abandon
  <2> QED
    BY <2>2, <2>3, Zenon
<1>4. CASE ~accepted /\ len' = len
  BY <1>4, InvisibleStep, Zenon DEF FreePages
<1> QED
  BY <1>3, <1>4, Zenon

\* transfer hands over every recorded frame at once.
LEMMA TransferStep ==
  ASSUME Inv, Transfer
  PROVE  Ownership!TransferAll \/ UNCHANGED pageStatus
<1>1. handed = {} /\ handed' = Held /\ UNCHANGED <<frames, len, live, freed>>
  BY Zenon DEF Transfer, HandOver, Inv, Flags, firmware
<1>2. Held' = Held /\ Held \subseteq Addr
  BY <1>1 DEF Held, Inv, FramesLive, TypeOK
<1>3. Ownership!Owned = Held
  BY <1>1, <1>2, Zenon DEF Ownership!Owned, pageStatus
<1>4. CASE Held = {}
  BY <1>1, <1>4, InvisibleStep, Zenon
<1>5. CASE Held # {}
  <2>1. pageStatus' = [p \in Addr |-> IF p \in Held THEN "transferred"
                                      ELSE pageStatus[p]]
    BY <1>1, <1>2, Zenon DEF pageStatus
  <2> QED
    BY <1>3, <1>5, <2>1, Zenon DEF Ownership!TransferAll
<1> QED
  BY <1>4, <1>5, Zenon

\* Every step is a step of the abstract owner or invisible to it.
LEMMA NextOwnership == Inv /\ [Next]_vars => [Ownership!Next]_pageStatus
<1> SUFFICES ASSUME Inv, [Next]_vars
             PROVE  Ownership!Next \/ UNCHANGED pageStatus
  BY Zenon
<1>1. ASSUME NEW a \in Addr, AllocatesInvalid(a) \/ AllocatesFrame(a)
      PROVE  Ownership!Next
  <2>1. stage' \in Stages
    BY <1>1, Zenon DEF AllocatesInvalid, Obtain, AllocatesFrame, Stages
  <2>2. Ownership!Acquire(a)
    BY <1>1, <2>1, AcquireStep, Zenon DEF AllocatesInvalid, Obtain, AllocatesFrame
  <2> QED
    BY <2>2, Zenon DEF Ownership!Next
<1>2. ASSUME NEW a \in Addr, AllocatesDuplicate(a) PROVE UNCHANGED pageStatus
  <2>1. PICK i \in 1..len : a = frames[i]
    BY <1>2 DEF AllocatesDuplicate, Obtain, Held
  <2>2. live' = live
    BY <1>2, <2>1, Zenon DEF AllocatesDuplicate, Obtain, AllocatePages, Inv, FramesLive
  <2> QED
    BY <1>2, <2>2, InvisibleStep, Zenon DEF AllocatesDuplicate, Obtain, AllocatePages, owner
<1>3. ASSUME NEW b \in BOOLEAN,
             \/ RollbackStep(b) \/ DropErrorStep(b)
             \/ ReleaseStep(b) \/ DropOwnerStep(b)
      PROVE  Ownership!Next \/ UNCHANGED pageStatus
  <2>1. /\ handed = {} /\ len # 0 /\ UNCHANGED <<frames, handed>>
        /\ FreePages(frames[len], b)
        /\ len' = len - 1 \/ (~b /\ len' = len)
    BY <1>3, Zenon DEF RollbackStep, FreeLast, DropErrorStep, ReleaseStep, DropOwnerStep, Inv,
                Flags
  <2> QED
    BY <2>1, FreeStep, Zenon DEF Ownership!Next
<1>4. CASE Transfer
  BY <1>4, TransferStep, Zenon DEF Ownership!Next
<1>5. ASSUME UNCHANGED <<frames, len, handed, live, freed>>
      PROVE  UNCHANGED pageStatus
  BY <1>5, InvisibleStep, Zenon
<1> QED
  BY <1>1, <1>2, <1>3, <1>4, <1>5, Zenon
     DEF Next, Running, Calls, Terminated, vars, owner, firmware, Move, Zero,
         CheckCapacity,
         AllocationFails, ZeroFrame, Build, RollbackDone, RetryRollback,
         DropBuildError, DropErrorDone, TryRelease, ReleaseDone, DropOwner,
         DropOwnerDone

\* The frame owner implements the abstract page owner: pages are acquired
\* once, leave one by one, or are handed over all together.
THEOREM FrameOwnerImplements == Spec => ImplementsOwnership
BY InitOwnership, NextOwnership, Invariance, PTL
   DEF Spec, ImplementsOwnership, Ownership!Spec

-----------------------------------------------------------------------------
(* KernelRead, for every page size, limit and length of file.  ReadInv adds *)
(* to the property what the loop relies on: the file's position is the      *)
(* number of bytes read, all of which are in place, and the buffer holds    *)
(* byte_len.                                                                *)

ReadTypes ==
  /\ length \in Nat /\ position \in 0..length
  /\ byte_len \in Nat /\ completed \in 0..byte_len
  /\ lease \in BOOLEAN /\ held \in BOOLEAN /\ frees \in Nat
  /\ readPhase \in {"open", "allocate", "read", "validate", "ready", "release",
                "failed", "released"}

ReadPages ==
  /\ readPhase \in {"open", "allocate"} => ~held /\ frees = 0
  /\ readPhase \in {"read", "validate", "ready", "release"} => held /\ frees = 0
  /\ readPhase \in {"failed", "released"} => frees <= 1 /\ (held => error = "Free")

ReadProgress ==
  /\ readPhase \in {"open", "allocate"} => position = 0 /\ completed = 0
  /\ readPhase = "read" => position = completed
  /\ readPhase \in {"validate", "ready"} => completed = length /\ byte_len = length

ReadFilled ==
  readPhase \in {"read", "validate", "ready"} =>
    /\ 1..byte_len \subseteq DOMAIN memory
    /\ \A o \in 1..completed : memory[o] = FileByte(o - 1)

ReadInv == ReadTypes /\ ReadPages /\ ReadProgress /\ ReadFilled

\* Rounding up to pages loses no byte (pages_for_bytes).
LEMMA PagesHold ==
  ASSUME NEW bytes \in Nat
  PROVE  /\ pages_for_bytes(bytes) * UEFI_PAGE_SIZE \in Nat
         /\ bytes <= pages_for_bytes(bytes) * UEFI_PAGE_SIZE
<1> DEFINE q == (bytes + UEFI_PAGE_SIZE - 1) \div UEFI_PAGE_SIZE
           r == (bytes + UEFI_PAGE_SIZE - 1) % UEFI_PAGE_SIZE
<1>0. UEFI_PAGE_SIZE \in Nat /\ UEFI_PAGE_SIZE > 0
  BY KernelReadAssumption
<1>1. bytes + UEFI_PAGE_SIZE - 1 \in Nat
  BY <1>0
<1>2. q \in Nat /\ r \in 0..UEFI_PAGE_SIZE - 1 /\ bytes + UEFI_PAGE_SIZE - 1 = UEFI_PAGE_SIZE * q + r
  BY <1>0, <1>1, Z3
<1>3. bytes <= q * UEFI_PAGE_SIZE /\ q * UEFI_PAGE_SIZE \in Nat
  <2> HIDE DEF q, r
  <2>1. UEFI_PAGE_SIZE * q \in Nat /\ UEFI_PAGE_SIZE * q = q * UEFI_PAGE_SIZE
    BY <1>0, <1>2
  <2> QED
    BY <1>0, <1>2, <2>1
<1> QED
  BY <1>3, Zenon DEF pages_for_bytes

\* Before the file is open nothing is read and no page is held.
LEMMA ReadInitInv == ReadInit => ReadInv
<1> SUFFICES ASSUME ReadInit PROVE ReadInv
  OBVIOUS
<1>1. lease \in BOOLEAN /\ held \in BOOLEAN /\ ~held
  BY Zenon DEF ReadInit
<1>2. /\ length \in Nat /\ position = 0 /\ readPhase = "open" /\ byte_len = 0
      /\ completed = 0 /\ frees = 0
  BY KernelReadAssumption DEF ReadInit
<1> QED
  BY <1>1, <1>2 DEF ReadInv, ReadTypes, ReadPages, ReadProgress, ReadFilled

\* Every call of the loader, whatever the firmware answers, keeps the invariant.
LEMMA ReadNextInv == ReadInv /\ [ReadNext]_readVars => ReadInv'
<1> SUFFICES ASSUME ReadInv, [ReadNext]_readVars PROVE ReadInv'
  OBVIOUS
<1> USE DEF ReadInv
<1>1. CASE UNCHANGED readVars
  BY <1>1, Zenon DEF readVars, ReadTypes, ReadPages, ReadProgress, ReadFilled, remaining
<1>2. ASSUME NEW reported \in 0..MaxLength, measure_and_rewind(reported) PROVE ReadInv'
  BY <1>2, KernelReadAssumption
  DEF measure_and_rewind, Fails, pageVars, ReadTypes, ReadPages, ReadProgress, ReadFilled
<1>3. CASE ScratchAllocate
  <2>1. ReadTypes' /\ ReadPages' /\ ReadProgress'
    BY <1>3, Zenon DEF ScratchAllocate, fileVars, ReadTypes, ReadPages, ReadProgress
  <2>2. 1..byte_len \subseteq DOMAIN memory'
    <3>1. DOMAIN memory' = 1..pages_for_bytes(byte_len) * UEFI_PAGE_SIZE
      BY <1>3, Zenon DEF ScratchAllocate
    <3> QED
      BY <3>1, PagesHold DEF ReadTypes
  <2>3. byte_len' = byte_len /\ completed' = 0
    BY <1>3, Zenon DEF ScratchAllocate, fileVars, ReadProgress
  <2> QED
    BY <2>1, <2>2, <2>3 DEF ReadFilled
<1>4. ASSUME NEW bytes \in Available(remaining), Reads(bytes) PROVE ReadInv'
  <2>1. bytes \in Nat /\ bytes <= remaining /\ bytes <= length - position
    BY <1>4 DEF Available, remaining, Reads, ReadTypes
  <2>2. ReadTypes'
    BY <1>4, <2>1 DEF Reads, Abandons, ReadTypes, remaining
  <2>3. ReadPages' /\ ReadProgress'
    BY <1>4, <2>1, Zenon DEF Reads, Abandons, ReadTypes, ReadPages, ReadProgress, remaining
  <2>4. DOMAIN memory' = DOMAIN memory /\ byte_len' = byte_len
    BY <1>4, Zenon DEF Reads
  <2>5. \A o \in 1..completed' : memory'[o] = FileByte(o - 1)
    <3> SUFFICES ASSUME NEW o \in 1..completed' PROVE memory'[o] = FileByte(o - 1)
      BY Zenon
    <3>1. position = completed /\ completed' = completed + bytes /\ completed \in Nat
      BY <1>4 DEF Reads, ReadProgress, ReadTypes
    <3>2. o \in DOMAIN memory
      BY <1>4, <2>1, <3>1 DEF Reads, ReadFilled, ReadTypes, remaining
    <3>3. memory'[o] = IF o - 1 - completed \in 0..bytes - 1
                       THEN FileByte(position + o - 1 - completed) ELSE memory[o]
      BY <1>4, <3>2, Zenon DEF Reads
    <3>4. CASE o <= completed
      BY <1>4, <2>1, <3>1, <3>3, <3>4 DEF Reads, ReadFilled
    <3>5. CASE o > completed
      BY <2>1, <3>1, <3>3, <3>5 DEF FileByte
    <3> QED
      BY <3>1, <3>4, <3>5
  <2>6. ReadFilled'
    BY <1>4, <2>4, <2>5, Zenon DEF ReadFilled, Reads
  <2> QED
    BY <2>2, <2>3, <2>6, Zenon
<1>5. ASSUME NEW bytes \in Available(1), ChecksEof(bytes) PROVE ReadInv'
  <2>1. bytes \in Nat /\ bytes <= length - position /\ (bytes = 0 => position = length)
    BY <1>5 DEF Available, ReadTypes
  <2>2. completed = byte_len
    BY <1>5 DEF ChecksEof, remaining, ReadTypes
  <2> QED
    BY <1>5, <2>1, <2>2
    DEF ChecksEof, Abandons, pageVars, ReadTypes, ReadPages, ReadProgress, ReadFilled
<1>6. ASSUME NEW ok \in BOOLEAN, Validates(ok) PROVE ReadInv'
  BY <1>6, Zenon
     DEF Validates, Abandons, fileVars, pageVars, ReadTypes, ReadPages, ReadProgress, ReadFilled
<1>7. ASSUME NEW ok \in BOOLEAN, finalize_with_release(ok) \/ ValidatedKernelRelease(ok)
      PROVE  ReadInv'
  <2>1. readPhase \in {"release", "ready"} /\ readPhase' \in {"failed", "released"}
    BY <1>7, Zenon DEF finalize_with_release, ValidatedKernelRelease, Releases
  <2>2. lease' \in BOOLEAN /\ held' \in BOOLEAN /\ (held' => error' = "Free")
    BY <1>7, Zenon DEF finalize_with_release, ValidatedKernelRelease, Releases
  <2>3. frees' = frees + 1 \/ frees' = frees
    BY <1>7 DEF finalize_with_release, ValidatedKernelRelease, Releases, ReadTypes
  <2>4. UNCHANGED <<length, position, byte_len, completed>>
    BY <1>7, Zenon DEF finalize_with_release, ValidatedKernelRelease, Releases, fileVars
  <2> QED
    BY <2>1, <2>2, <2>3, <2>4 DEF ReadTypes, ReadPages, ReadProgress, ReadFilled
<1>8. CASE OpenFails \/ MeasureFails \/ AllocateFails
  BY <1>8 DEF OpenFails, MeasureFails, AllocateFails, Fails, fileVars, pageVars,
              ReadTypes, ReadPages, ReadProgress, ReadFilled
<1>9. CASE ReadFails
  BY <1>9, Zenon
     DEF ReadFails, Abandons, fileVars, pageVars, ReadTypes, ReadPages, ReadProgress, ReadFilled
<1>10. CASE ReadRest
  BY <1>1, <1>10, Zenon DEF ReadRest
<1> QED
  BY <1>1, <1>2, <1>3, <1>4, <1>5, <1>6, <1>7, <1>8, <1>9, <1>10, Zenon
  DEF ReadNext, Proceeds

\* Whatever length the firmware reports and however it splits the reads, an
\* image that load_and_validate hands on is the file byte for byte, and its
\* pages are freed once unless the firmware refused.
THEOREM ReadImageTheorem == ReadSpec => []ReadImageIsTheFile
<1>1. ReadInv => ReadImageIsTheFile
  BY DEF ReadInv, ReadTypes, ReadPages, ReadProgress, ReadFilled, ReadImageIsTheFile
<1> QED
  BY <1>1, ReadInitInv, ReadNextInv, PTL DEF ReadSpec

-----------------------------------------------------------------------------
(* CpuReadiness, for every processor, hierarchy, page size and range of     *)
(* widths.  CpuInv says that the snapshot is what the processor has, with   *)
(* the leaves it lacks left empty, and that each phase was reached by the   *)
(* judgement before it.                                                     *)

\* What the probe may know of a processor.
Probed ==
  /\ snapshot.max_basic = cpu.max_basic /\ snapshot.max_extended = cpu.max_extended
  /\ snapshot.basic = (IF cpu.max_basic >= 1 THEN cpu.basic ELSE {})
  /\ snapshot.structured = (IF cpu.max_basic >= 7 THEN cpu.structured ELSE {})
  /\ snapshot.extended = (IF cpu.max_extended >= 1 THEN cpu.extended ELSE {})
  /\ cpu.max_extended >= 8 => snapshot.widths = cpu.widths
  /\ snapshot.control = cpu.control /\ snapshot.cr3 = cpu.cr3
  /\ snapshot.efer = (IF "Msr" \in snapshot.basic /\ "LongMode" \in snapshot.extended
                      THEN cpu.efer ELSE {})

Judged ==
  /\ cpuPhase \in {"validate", "refused", "classify", "ready"} => Probed
  /\ cpuPhase = "refused" => ~ValidSnapshot(snapshot)
  /\ cpuPhase \in {"classify", "ready"} => ValidSnapshot(snapshot)
  /\ cpuPhase = "ready" =>
       /\ hierarchy \in Hierarchies /\ Compatible(snapshot, hierarchy)
       /\ readiness.token = snapshot.cr3
       /\ readiness.current_root = snapshot.cr3 - (snapshot.cr3 % PAGE_SIZE)
       /\ readiness.nxe = Hardening("Nxe" \in snapshot.efer)

CpuInv ==
  /\ cpu \in Cpus /\ ~faulted
  /\ cpuPhase \in {"capture", "validate", "refused", "classify", "incompatible", "ready"}
  /\ Judged

\* Before capture nothing has been read and nothing judged.
LEMMA CpuInitInv == CpuInit => CpuInv
<1> SUFFICES ASSUME CpuInit PROVE CpuInv
  OBVIOUS
<1>1. ~faulted
  BY Zenon DEF CpuInit
<1> QED
  BY <1>1, Zenon DEF CpuInit, CpuInv, Judged

\* capture, validate and classify_for_hierarchy keep the invariant.
LEMMA CpuNextInv == CpuInv /\ [CpuNext]_cpuVars => CpuInv'
<1> SUFFICES ASSUME CpuInv, [CpuNext]_cpuVars PROVE CpuInv'
  OBVIOUS
<1>1. CASE UNCHANGED cpuVars \/ CpuRest
  <2>1. UNCHANGED cpuVars
    BY <1>1, Zenon DEF CpuRest
  <2>2. /\ cpu' = cpu /\ snapshot' = snapshot /\ cpuPhase' = cpuPhase /\ faulted' = faulted
        /\ hierarchy' = hierarchy /\ readiness' = readiness
    BY <2>1, Zenon DEF cpuVars
  <2>3. Probed' = Probed
    BY <2>2 DEF Probed
  <2>4. ValidSnapshot(snapshot)' = ValidSnapshot(snapshot)
    BY <2>2 DEF ValidSnapshot, ValidCr3, la57_supported
  <2>5. Compatible(snapshot, hierarchy)' = Compatible(snapshot, hierarchy)
    BY <2>2 DEF Compatible
  <2> QED
    BY <2>2, <2>3, <2>4, <2>5 DEF CpuInv, Judged
<1>2. CASE capture
  <2>1. ~faulted'
    BY <1>2, Zenon DEF capture, ReadsEfer, CpuInv
  <2>2. Probed'
    BY <1>2, Zenon DEF capture, ReadsEfer, Probed
  <2> QED
    BY <1>2, <2>1, <2>2, Zenon DEF capture, CpuInv, Judged
<1>3. CASE validate
  <2>1. Probed' /\ ValidSnapshot(snapshot)' = ValidSnapshot(snapshot)
    BY <1>3, Zenon DEF validate, CpuInv, Judged, Probed, ValidSnapshot, ValidCr3, la57_supported
  <2> QED
    BY <1>3, <2>1, Zenon DEF validate, CpuInv, Judged
<1>4. CASE classify_for_hierarchy
  <2>1. Probed' /\ ValidSnapshot(snapshot)' = ValidSnapshot(snapshot)
    BY <1>4, Zenon DEF classify_for_hierarchy, CpuInv, Judged, Probed, ValidSnapshot, ValidCr3,
                la57_supported
  <2> QED
    BY <1>4, <2>1 DEF classify_for_hierarchy, CpuInv, Judged, Compatible
<1> QED
  BY <1>1, <1>2, <1>3, <1>4, ZenonT(30) DEF CpuNext

\* Quotient and remainder by a positive number.
LEMMA Division ==
  ASSUME NEW P \in Nat, P > 0, NEW r \in Nat
  PROVE  r \div P \in Nat /\ r % P \in 0..P - 1 /\ r = P * (r \div P) + (r % P)
  BY Z3

\* A validated CR3 points at a page of physical memory.
LEMMA RootInMemory ==
  ASSUME NEW P \in Nat \ {0}, NEW r \in Nat, NEW end \in Nat, r < end, r \div P # 0
  PROVE  r - (r % P) \in P..end - 1
<1>1. r \div P \in Nat \ {0} /\ r % P \in 0..P - 1 /\ r = P * (r \div P) + (r % P)
  BY Division
<1>2. PICK q \in Nat : r = P * (q + 1) + (r % P)
  <2>1. r \div P - 1 \in Nat /\ r \div P = (r \div P - 1) + 1
    BY <1>1
  <2> QED
    BY <1>1, <2>1, Zenon
<1>3. P * (q + 1) = P * q + P /\ P * q \in Nat
  OBVIOUS
<1> QED
  BY <1>1, <1>2, <1>3

\* A page number below the end gives an aligned address below the end.
LEMMA PageBelowEnd ==
  ASSUME NEW P \in Nat \ {0}, NEW end \in Nat, NEW n \in 1..(end \div P) - 1
  PROVE  P * n < end /\ (P * n) % P = 0 /\ (P * n) \div P = n
<1>1. /\ end \div P \in Nat /\ end % P \in 0..P - 1
      /\ end = P * (end \div P) + (end % P)
  BY Division
<1>2. PICK k \in Nat : end \div P = n + 1 + k
  <2>1. end \div P - n - 1 \in Nat
    BY <1>1
  <2> QED
    BY <1>1, <2>1
<1>3. P * (n + 1 + k) = P * n + P + P * k /\ P * n \in Nat /\ P * k \in Nat
  OBVIOUS
<1>4. P * n < end
  BY <1>1, <1>2, <1>3
<1>5. (P * n) % P = 0 /\ (P * n) \div P = n
  BY Z3
<1> QED
  BY <1>4, <1>5, Zenon

\* capture, validate and classify_for_hierarchy never call a hierarchy ready on
\* a processor that could not run it, never execute an instruction it lacks,
\* and never turn a suitable four-level processor away.
THEOREM ReadinessTheorem == CpuSpec => []ReadinessIsEarned
<1>1. CpuInv => ReadinessIsEarned
  <2> SUFFICES ASSUME CpuInv PROVE ReadinessIsEarned
    BY Zenon
  <2>1. ~faulted
    BY Zenon DEF CpuInv
  <2>2. ASSUME cpuPhase = "ready"
        PROVE  /\ Suitable /\ cpu.max_extended >= 8
               /\ readiness.token = cpu.cr3
               /\ readiness.current_root \in PAGE_SIZE..CpuEnd(cpu.widths.physical) - 1
               /\ \A i \in 1..Len(hierarchy.owned), b \in 0..PAGE_SIZE - 1 :
                    hierarchy.owned[i] + b < CpuEnd(cpu.widths.physical)
               /\ hierarchy.highest - 1 \in 0..CpuEnd(cpu.widths.physical) - 1
               /\ readiness.nxe = "Enabled" <=> "Nxe" \in cpu.efer
    <3> DEFINE end == CpuEnd(cpu.widths.physical)
    <3>1. Probed /\ ValidSnapshot(snapshot) /\ Compatible(snapshot, hierarchy)
          /\ hierarchy \in Hierarchies
      BY <2>2, Zenon DEF CpuInv, Judged
    <3>2. snapshot.widths = cpu.widths /\ cpu.max_extended >= 8 /\ snapshot.efer = cpu.efer
      BY <3>1, Zenon DEF Probed, ValidSnapshot
    <3>3. Suitable
      BY <3>1, <3>2, Zenon DEF Probed, ValidSnapshot, Suitable
    <3>4. end \in Nat /\ cpu.cr3 \in Nat /\ PAGE_SIZE \in Nat \ {0}
      BY <3>1, <3>2, CpuReadinessAssumption, Zenon DEF ValidSnapshot, CpuInv
    <3>5. cpu.cr3 < end /\ cpu.cr3 \div PAGE_SIZE # 0
      BY <3>1, <3>2, Zenon DEF ValidSnapshot, ValidCr3, Probed
    <3>6. readiness.current_root \in PAGE_SIZE..end - 1
      <4>1. readiness.current_root = cpu.cr3 - (cpu.cr3 % PAGE_SIZE)
        BY <2>2, <3>1, Zenon DEF CpuInv, Judged, Probed
      <4> HIDE DEF end
      <4> QED
        BY <3>4, <3>5, <4>1, RootInMemory, Zenon
    <3>7. \A i \in 1..Len(hierarchy.owned), b \in 0..PAGE_SIZE - 1 : hierarchy.owned[i] + b < end
      <4>1. \A i \in 1..Len(hierarchy.owned) :
              hierarchy.owned[i] \in Nat /\ hierarchy.owned[i] + PAGE_SIZE <= end
        BY <3>1, <3>2, CpuReadinessAssumption, SMTT(30) DEF Compatible
      <4> HIDE DEF end
      <4> QED
        BY <3>4, <4>1, SMTT(30)
    <3>8. hierarchy.highest - 1 \in 0..end - 1
      <4>1. hierarchy.highest \in Nat /\ hierarchy.highest # 0 /\ hierarchy.highest <= end
        BY <3>1, <3>2, CpuReadinessAssumption, Zenon DEF Compatible
      <4> HIDE DEF end
      <4> QED
        BY <3>4, <4>1
    <3>9. readiness.nxe = "Enabled" <=> "Nxe" \in cpu.efer
      BY <2>2, <3>2, Zenon DEF CpuInv, Judged, Hardening
    <3>10. readiness.token = cpu.cr3
      BY <2>2, <3>1, Zenon DEF CpuInv, Judged, Probed
    <3> QED
      BY <3>2, <3>3, <3>6, <3>7, <3>8, <3>9, <3>10, Zenon
  <2>3. ASSUME cpuPhase = "refused", Suitable, cpu.max_extended >= 8,
               cpu.widths.linear = 48,
               cpu.widths.physical \in MIN_PHYSICAL_ADDRESS_BITS..MAX_PHYSICAL_ADDRESS_BITS,
               NEW n \in 1..(CpuEnd(cpu.widths.physical) \div PAGE_SIZE) - 1,
               cpu.cr3 = PAGE_SIZE * n
        PROVE  FALSE
    <3> DEFINE end == CpuEnd(cpu.widths.physical)
    <3>1. Probed /\ ~ValidSnapshot(snapshot)
      BY <2>3, Zenon DEF CpuInv, Judged
    <3>2. PAGE_SIZE \in Nat \ {0} /\ end \in Nat
      BY <2>3, CpuReadinessAssumption, Zenon
    <3>3. cpu.cr3 < end /\ cpu.cr3 % PAGE_SIZE = 0 /\ cpu.cr3 \div PAGE_SIZE # 0
      <4>1. cpu.cr3 = PAGE_SIZE * n /\ n \in 1..(end \div PAGE_SIZE) - 1
        BY <2>3, Zenon
      <4> HIDE DEF end
      <4>2. /\ PAGE_SIZE * n < end /\ (PAGE_SIZE * n) % PAGE_SIZE = 0
            /\ (PAGE_SIZE * n) \div PAGE_SIZE = n
        BY <3>2, <4>1, PageBelowEnd, Zenon
      <4>3. n # 0
        OBVIOUS
      <4> QED
        BY <4>1, <4>2, <4>3, Zenon
    <3>4. snapshot.widths = cpu.widths /\ ValidCr3(snapshot)
      BY <2>3, <3>1, <3>3, Zenon DEF Probed, ValidCr3
    <3> QED
      BY <2>3, <3>1, <3>4 DEF Probed, ValidSnapshot, Suitable
  <2> QED
    BY <2>1, <2>2, <2>3, Zenon DEF ReadinessIsEarned
<1> QED
  BY <1>1, CpuInitInv, CpuNextInv, PTL DEF CpuSpec

-----------------------------------------------------------------------------
(* BootInfoChain, for every page size, capacity and mode of the graphics    *)
(* output.  ChainInv adds to the property what the later checks rely on:    *)
(* where the buffers lie, that the framebuffer was accepted, that the       *)
(* descriptors fit their buffer, and that info is what is written there.    *)

ChainPlaced ==
  chainStage # "allocate" =>
    /\ converted \in Nat \ {0} /\ Aligned(converted)
    /\ converted + CONVERTED_MAP_PAGES * PAGE <= PhysicalEnd
    /\ page \in Nat \ {0} /\ Aligned(page) /\ page + PAGE <= PhysicalEnd
    /\ stack \in Nat /\ Aligned(stack)
    /\ stack + BOOTSTRAP_STACK_PAGES * PAGE <= BOOTSTRAP_IDENTITY_LIMIT

AcceptedModes == {convert_framebuffer(gop) : gop \in {g \in Gops : Accepted(g)}}

ChainFramebuffer ==
  /\ chainStage \in {"allocate", "framebuffer"} => framebuffer = Nothing
  /\ chainStage \notin {"allocate", "framebuffer", "refused"} => framebuffer \in AcceptedModes
  /\ chainStage \notin {"allocate", "framebuffer", "reserve", "refused"} => Reservable(framebuffer)

Uncounted == {"allocate", "framebuffer", "reserve", "map", "apply", "refused"}

ChainCounted ==
  /\ chainStage \notin Uncounted => count \in 1..Capacity
  /\ chainStage \notin Uncounted \cup {"build", "final build"} =>
       info = BootInfo(converted, count, framebuffer)

ChainOwned ==
  /\ buffer_owner = "nobody" => chainStage = "prepare"
  /\ failed \in {"none", "framebuffer", "reserve", "map", "apply", "final map", "final apply"}

ChainInv == ChainPlaced /\ ChainFramebuffer /\ ChainCounted /\ ChainOwned

LEMMA ChainNumbers ==
  /\ U64_END \in Nat /\ U64_END > 0 /\ PAGE \in Nat /\ PAGE > 0
  /\ PhysicalEnd \in Nat /\ PhysicalEnd < U64_END
  /\ BytesPerPixel \in Nat /\ BytesPerPixel > 0
  /\ MEMORY_DESCRIPTOR_SIZE \in Nat /\ MEMORY_DESCRIPTOR_SIZE > 0
  /\ CONVERTED_MAP_PAGES \in Nat /\ CONVERTED_MAP_PAGES > 0
  /\ BOOTSTRAP_STACK_PAGES \in Nat /\ BOOTSTRAP_STACK_PAGES > 0
  /\ BOOTSTRAP_IDENTITY_LIMIT \in Nat /\ BOOTSTRAP_IDENTITY_LIMIT < U64_END
  /\ SIZE_OF_BOOT_INFO \in Nat /\ SIZE_OF_BOOT_INFO <= PAGE
  /\ STACK_BYTES = BOOTSTRAP_STACK_PAGES * PAGE
  /\ CONVERTED_MAP_PAGES * PAGE \in Nat /\ BOOTSTRAP_STACK_PAGES * PAGE \in Nat
<1>1. U64_END \in Nat /\ U64_END > 0 /\ PAGE \in Nat /\ PAGE > 0
      /\ PhysicalEnd \in Nat /\ BytesPerPixel \in Nat /\ BytesPerPixel > 0
      /\ MEMORY_DESCRIPTOR_SIZE \in Nat /\ MEMORY_DESCRIPTOR_SIZE > 0
      /\ CONVERTED_MAP_PAGES \in Nat /\ CONVERTED_MAP_PAGES > 0
      /\ BOOTSTRAP_STACK_PAGES \in Nat /\ BOOTSTRAP_STACK_PAGES > 0
      /\ BOOTSTRAP_IDENTITY_LIMIT \in Nat /\ SIZE_OF_BOOT_INFO \in Nat
  BY BootInfoChainAssumption
<1>2. CONVERTED_MAP_PAGES * PAGE \in Nat /\ BOOTSTRAP_STACK_PAGES * PAGE \in Nat
  BY <1>1
<1> QED
  BY <1>1, <1>2, BootInfoChainAssumption, Zenon

LEMMA CapacityIsNatural == Capacity \in Nat
<1> DEFINE bytes == CONVERTED_MAP_PAGES * PAGE
           d == MEMORY_DESCRIPTOR_SIZE
<1>1. bytes \in Nat /\ d \in Nat /\ d > 0
  BY ChainNumbers, Zenon
<1>2. Capacity = bytes \div d
  BY Zenon DEF Capacity
<1> HIDE DEF bytes, d
<1>3. bytes \div d \in Nat
  BY <1>1, Z3
<1> QED
  BY <1>2, <1>3, Zenon

LEMMA WithinCapacity ==
  ASSUME NEW n \in 1..Capacity + 1, n <= Capacity
  PROVE  n \in 1..Capacity
BY CapacityIsNatural

\* The descriptors the converted-map buffer has room for end inside of it.
LEMMA DescriptorsFit ==
  ASSUME NEW n \in 1..Capacity
  PROVE  /\ n \in Nat /\ n # 0 /\ n * MEMORY_DESCRIPTOR_SIZE \in Nat
         /\ n * MEMORY_DESCRIPTOR_SIZE <= CONVERTED_MAP_PAGES * PAGE
<1> DEFINE bytes == CONVERTED_MAP_PAGES * PAGE
           d == MEMORY_DESCRIPTOR_SIZE
           c == bytes \div d
<1>0. bytes \in Nat /\ d \in Nat /\ d > 0
  BY ChainNumbers, Zenon
<1>1. Capacity = c
  BY Zenon DEF Capacity
<1> HIDE DEF bytes, d
<1>2. c \in Nat /\ d * c <= bytes
  BY <1>0, Z3
<1> HIDE DEF c
<1>3. n \in Nat /\ n # 0 /\ n <= c
  BY <1>1, <1>2
<1>4. n * d \in Nat /\ n * d <= d * c
  BY <1>0, <1>2, <1>3, Z3
<1>5. d * c \in Nat
  BY <1>0, <1>2
<1> QED
  BY <1>0, <1>2, <1>3, <1>4, <1>5 DEF bytes, d

LEMMA ModeFields ==
  ASSUME NEW fb \in AcceptedModes
  PROVE  /\ fb.physical_address \in Nat \ {0} /\ fb.byte_length \in Nat \ {0}
         /\ fb.width \in Nat \ {0} /\ fb.height \in Nat \ {0}
         /\ fb.pixels_per_scanline \in Nat /\ fb.pixels_per_scanline >= fb.width
         /\ fb.pixel_format \in {"RGBX8888", "BGRX8888"}
         /\ Fits(RequiredBytes(fb)) /\ fb.byte_length >= RequiredBytes(fb)
         /\ Fits(fb.physical_address + fb.byte_length)
<1>1. PICK gop \in Gops : Accepted(gop) /\ fb = convert_framebuffer(gop)
  BY Zenon DEF AcceptedModes
<1>2. gop \in [physical_address: 0..U64_END - 1, byte_length: 0..U64_END - 1,
               width: Nat, height: Nat, pixels_per_scanline: Nat, pixel_format: Formats]
  BY BootInfoChainAssumption, Zenon
<1>3. /\ fb.physical_address = gop.physical_address /\ fb.byte_length = gop.byte_length
      /\ fb.width = gop.width /\ fb.height = gop.height
      /\ fb.pixels_per_scanline = gop.pixels_per_scanline
      /\ fb.pixel_format = PixelFormat(gop.pixel_format)
  BY <1>1, <1>2, Zenon DEF convert_framebuffer
<1>4. /\ gop.physical_address \in Nat /\ gop.byte_length \in Nat
      /\ gop.width \in Nat /\ gop.height \in Nat /\ gop.pixels_per_scanline \in Nat
  BY <1>2, ChainNumbers
<1>5. RequiredBytes(fb) = RequiredBytes(gop)
  BY <1>3, Zenon DEF RequiredBytes
<1>6. fb.pixel_format \in {"RGBX8888", "BGRX8888"}
  BY <1>3, Zenon DEF PixelFormat
<1>7. /\ gop.physical_address # 0 /\ gop.byte_length # 0 /\ gop.width # 0 /\ gop.height # 0
      /\ gop.pixels_per_scanline >= gop.width
      /\ Fits(RequiredBytes(gop)) /\ gop.byte_length >= RequiredBytes(gop)
      /\ Fits(gop.physical_address + gop.byte_length)
  BY <1>1, Zenon DEF Accepted
<1> QED
  BY <1>3, <1>4, <1>5, <1>6, <1>7, Zenon

\* What build_boot_info writes passes BootInfo::validate wherever the map lies.
LEMMA BuiltIsValid ==
  ASSUME NEW address \in Nat \ {0}, address + CONVERTED_MAP_PAGES * PAGE <= PhysicalEnd,
         NEW n \in 1..Capacity, NEW fb \in AcceptedModes
  PROVE  validate_boot_info(BootInfo(address, n, fb))
<1> DEFINE map == BootInfo(address, n, fb).memory_map
<1>1. /\ map.physical_address = address /\ map.descriptor_count = n
      /\ map.descriptor_stride = MEMORY_DESCRIPTOR_SIZE
      /\ map.byte_length = n * MEMORY_DESCRIPTOR_SIZE
  BY Zenon DEF BootInfo
<1>2. validate_memory_map(map)
  <2> HIDE DEF map
  <2>1. Fits(n * MEMORY_DESCRIPTOR_SIZE) /\ Fits(address + n * MEMORY_DESCRIPTOR_SIZE)
    BY DescriptorsFit, ChainNumbers DEF Fits
  <2>2. MEMORY_DESCRIPTOR_SIZE >= MEMORY_DESCRIPTOR_SIZE /\ n # 0 /\ address # 0
    BY DescriptorsFit, ChainNumbers
  <2> QED
    BY <1>1, <2>1, <2>2, Zenon DEF validate_memory_map
<1>3. validate_framebuffer(fb)
  BY ModeFields, Zenon DEF validate_framebuffer
<1>4. /\ BootInfo(address, n, fb).total_size = SIZE_OF_BOOT_INFO
      /\ BootInfo(address, n, fb).framebuffer = fb
  BY Zenon DEF BootInfo
<1>5. SIZE_OF_BOOT_INFO >= SIZE_OF_BOOT_INFO
  BY ChainNumbers
<1> QED
  BY <1>2, <1>3, <1>4, <1>5, Zenon DEF validate_boot_info

\* from_validated and the checks up to the kernel's last agree with build_boot_info.
LEMMA ChainChecksHold ==
  ASSUME ChainInv
  PROVE  /\ chainStage \in {"build", "final build"} =>
              validate_boot_info(BootInfo(converted, count, framebuffer))
         /\ chainStage = "prepare" => from_validated(info)
         /\ chainStage = "final check" => from_final_map(info)
         /\ chainStage \in {"jump", "kernel inputs"} =>
              validate_handoff_arguments /\ validate_handoff_inputs
         /\ chainStage \in {"kernel boot info", "kernel map"} => validate_boot_info(info)
<1>1. chainStage \in {"build", "final build", "prepare", "final check", "kernel boot info",
                 "kernel map"} =>
        validate_boot_info(BootInfo(converted, count, framebuffer))
  BY BuiltIsValid, Zenon DEF ChainInv, ChainPlaced, ChainFramebuffer, ChainCounted, Uncounted
<1>2. chainStage \in {"prepare", "final check", "kernel boot info", "kernel map"} =>
        info = BootInfo(converted, count, framebuffer)
  BY Zenon DEF ChainInv, ChainCounted, Uncounted
<1>3. /\ BootInfo(converted, count, framebuffer).memory_map.physical_address = converted
      /\ BootInfo(converted, count, framebuffer).memory_map.descriptor_count = count
      /\ BootInfo(converted, count, framebuffer).memory_map.descriptor_stride
           = MEMORY_DESCRIPTOR_SIZE
      /\ BootInfo(converted, count, framebuffer).memory_map.byte_length
           = count * MEMORY_DESCRIPTOR_SIZE
  BY Zenon DEF BootInfo
<1>4. ASSUME chainStage = "prepare"
      PROVE  from_validated(info)
  <2>1. count \in 1..Capacity
    BY <1>4, Zenon DEF ChainInv, ChainCounted, Uncounted
  <2>2. /\ converted \in Nat \ {0} /\ Aligned(converted)
        /\ converted + CONVERTED_MAP_PAGES * PAGE <= PhysicalEnd
        /\ page \in Nat /\ Aligned(page) /\ page + PAGE <= PhysicalEnd
    BY <1>4, Zenon DEF ChainInv, ChainPlaced
  <2>3. validate_range(converted, CONVERTED_MAP_PAGES)
    BY <2>2, ChainNumbers DEF validate_range, Fits
  <2>4. validate_range(page, 1)
    <3>1. 1 * PAGE = PAGE
      BY ChainNumbers
    <3> QED
      BY <2>2, <3>1, ChainNumbers DEF validate_range, Fits
  <2>5. /\ converted >= converted
        /\ converted + count * MEMORY_DESCRIPTOR_SIZE
             <= converted + CONVERTED_MAP_PAGES * PAGE
    BY <2>1, <2>2, DescriptorsFit, ChainNumbers
  <2> QED
    BY <1>1, <1>2, <1>3, <1>4, <2>3, <2>4, <2>5, Zenon DEF from_validated
<1>5. chainStage = "final check" => from_final_map(info)
  BY <1>1, <1>2, <1>3, Zenon DEF from_final_map
<1>6. ASSUME chainStage \in {"jump", "kernel inputs"}
      PROVE  validate_handoff_arguments /\ validate_handoff_inputs
  <2>1. /\ page # 0 /\ Aligned(page) /\ stack \in Nat /\ Aligned(stack)
        /\ stack + BOOTSTRAP_STACK_PAGES * PAGE <= BOOTSTRAP_IDENTITY_LIMIT
    BY <1>6, Zenon DEF ChainInv, ChainPlaced
  <2>2. validate_bootstrap_stack(stack)
    BY <2>1, ChainNumbers DEF validate_bootstrap_stack, Fits
  <2>3. Top - stack = STACK_BYTES
    BY <2>1, ChainNumbers DEF Top
  <2> QED
    BY <2>1, <2>2, <2>3, Zenon DEF validate_handoff_arguments, validate_handoff_inputs
<1> QED
  BY <1>1, <1>2, <1>4, <1>5, <1>6, Zenon

\* A buffer that starts on a page starts on a multiple of the descriptors' size.
LEMMA PagesAlignDescriptors ==
  ASSUME NEW n \in Nat, Aligned(n)
  PROVE  n % MEMORY_DESCRIPTOR_SIZE = 0
<1> DEFINE d == MEMORY_DESCRIPTOR_SIZE
           p == PAGE
<1>1. d \in Nat /\ d > 0 /\ p \in Nat /\ p > 0 /\ p % d = 0 /\ n % p = 0
  BY ChainNumbers, BootInfoChainAssumption, Zenon DEF Aligned
<1> HIDE DEF d, p
<1>2. PICK j \in Nat : p = d * j
  <2>1. p \div d \in Nat /\ p = d * (p \div d)
    BY <1>1, Z3
  <2> QED
    BY <2>1, Zenon
<1>3. PICK k \in Nat : n = p * k
  <2>1. n \div p \in Nat /\ n = p * (n \div p)
    BY <1>1, Z3
  <2> QED
    BY <2>1, Zenon
<1>4. j * k \in Nat /\ n = d * (j * k)
  BY <1>1, <1>2, <1>3, Z3
<1>5. \A m \in Nat : (d * m) % d = 0
  BY <1>1, Z3
<1> QED
  BY <1>4, <1>5, Zenon DEF d

LEMMA ChainBegins ==
  ASSUME ChainInv, PendingBuffersAllocate
  PROVE  ChainInv'
<1>1. chainStage = "allocate" /\ chainStage' = "framebuffer" /\ failed' = failed
  BY Zenon DEF PendingBuffersAllocate, Step
<1>2. PICK c, p, s \in {n \in 1..PhysicalEnd - 1 : Aligned(n)} :
        /\ c + CONVERTED_MAP_PAGES * PAGE <= PhysicalEnd
        /\ p + PAGE <= PhysicalEnd
        /\ s + BOOTSTRAP_STACK_PAGES * PAGE <= BOOTSTRAP_IDENTITY_LIMIT
        /\ converted' = c /\ page' = p /\ stack' = s
  BY Zenon DEF PendingBuffersAllocate
<1>3. c \in Nat \ {0} /\ p \in Nat \ {0} /\ s \in Nat /\ Aligned(c) /\ Aligned(p) /\ Aligned(s)
  BY ChainNumbers
<1>4. ChainPlaced'
  BY <1>2, <1>3, Zenon DEF ChainPlaced, Aligned
<1>5. ChainFramebuffer'
  BY <1>1, Zenon DEF PendingBuffersAllocate, ChainInv, ChainFramebuffer
<1>6. ChainCounted'
  BY <1>1, Zenon DEF ChainCounted, Uncounted
<1>7. ChainOwned'
  BY <1>1, Zenon DEF PendingBuffersAllocate, ChainInv, ChainOwned
<1> QED
  BY <1>4, <1>5, <1>6, <1>7, Zenon DEF ChainInv

LEMMA ChainConverts ==
  ASSUME ChainInv, ConvertFramebuffer
  PROVE  ChainInv'
<1>1. PICK gop \in Gops :
        /\ Step("framebuffer", Accepted(gop), "reserve")
        /\ framebuffer' = IF Accepted(gop) THEN convert_framebuffer(gop) ELSE Nothing
        /\ UNCHANGED <<buffers, count, info>>
  BY Zenon DEF ConvertFramebuffer
<1>2. ChainPlaced'
  BY <1>1, Zenon DEF ChainInv, ChainPlaced, buffers, Aligned, Step
<1>3. ChainFramebuffer'
  BY <1>1, Zenon DEF ChainFramebuffer, AcceptedModes, Step, Refuse
<1>4. ChainCounted'
  BY <1>1, Zenon DEF ChainCounted, Uncounted, Step, Refuse
<1>5. ChainOwned'
  BY <1>1, Zenon DEF ChainInv, ChainOwned, Step, Refuse, buffers
<1> QED
  BY <1>2, <1>3, <1>4, <1>5, Zenon DEF ChainInv

\* A step that changes neither the buffers' places nor the framebuffer, from a stage
\* after the reservation.
LEMMA ChainKeeps ==
  ASSUME ChainInv, UNCHANGED <<converted, page, stack, framebuffer>>,
         chainStage \notin {"allocate", "framebuffer", "reserve", "refused"},
         chainStage' \notin {"allocate", "framebuffer", "reserve"}
  PROVE  ChainPlaced' /\ ChainFramebuffer'
BY Zenon DEF ChainInv, ChainPlaced, ChainFramebuffer, Aligned, Reservable, Fits

LEMMA ChainReserves ==
  ASSUME ChainInv, reservations_for
  PROVE  ChainInv'
<1>1. chainStage = "reserve" /\ UNCHANGED <<buffer_owner, converted, page, stack, framebuffer, count, info>>
  BY Zenon DEF reservations_for, Step, buffers
<1>2. \/ Reservable(framebuffer) /\ chainStage' = "map" /\ failed' = failed
      \/ chainStage' = "refused" /\ failed' = "reserve"
  BY <1>1, Zenon DEF reservations_for, Step, Refuse
<1>3. ChainPlaced'
  BY <1>1, Zenon DEF ChainInv, ChainPlaced, Aligned
<1>4. ChainFramebuffer'
  BY <1>1, <1>2, Zenon DEF ChainInv, ChainFramebuffer, Reservable, Fits
<1>5. ChainCounted' /\ ChainOwned'
  BY <1>1, <1>2, Zenon DEF ChainInv, ChainCounted, ChainOwned, Uncounted
<1> QED
  BY <1>3, <1>4, <1>5, Zenon DEF ChainInv

\* Both times the raw map is counted.
LEMMA ChainCounts ==
  ASSUME ChainInv, NEW raw,
         CountRaw("map", "apply", raw) \/ CountRaw("final map", "final reserve", raw)
  PROVE  ChainInv'
<1>1. UNCHANGED <<buffer_owner, converted, page, stack, framebuffer, count, info>>
  BY Zenon DEF CountRaw, buffers
<1>2. \/ chainStage = "map" /\ chainStage' = "apply" /\ failed' = failed
      \/ chainStage = "final map" /\ chainStage' = "final reserve" /\ failed' = failed
      \/ chainStage \in {"map", "final map"} /\ chainStage' = "refused" /\ failed' = chainStage
  BY Zenon DEF CountRaw, Step, Refuse
<1>3. ChainPlaced' /\ ChainFramebuffer'
  BY <1>1, <1>2, ChainKeeps, Zenon
<1>4. ChainCounted'
  BY <1>1, <1>2, Zenon DEF ChainInv, ChainCounted, Uncounted
<1>5. ChainOwned'
  BY <1>1, <1>2, Zenon DEF ChainInv, ChainOwned
<1> QED
  BY <1>3, <1>4, <1>5, Zenon DEF ChainInv

\* Both times the reservations are applied.
LEMMA ChainApplies ==
  ASSUME ChainInv, NEW n \in 1..Capacity + 1,
         \/ apply_reservations("apply", "build", n)
         \/ apply_reservations("final apply", "final build", n)
  PROVE  ChainInv'
<1>1. UNCHANGED <<buffer_owner, converted, page, stack, framebuffer, info>> /\ count' = n
  BY Zenon DEF apply_reservations, buffers
<1>2. \/ chainStage = "apply" /\ chainStage' = "build" /\ failed' = failed /\ n <= Capacity
      \/ chainStage = "final apply" /\ chainStage' = "final build" /\ failed' = failed /\ n <= Capacity
      \/ chainStage \in {"apply", "final apply"} /\ chainStage' = "refused" /\ failed' = chainStage
  BY Zenon DEF apply_reservations, Step, Refuse
<1>3. ChainPlaced' /\ ChainFramebuffer'
  BY <1>1, <1>2, ChainKeeps, Zenon
<1>4. n <= Capacity => n \in 1..Capacity
  BY WithinCapacity, Zenon
<1>5. ChainCounted'
  BY <1>1, <1>2, <1>4, Zenon DEF ChainCounted, Uncounted
<1>6. ChainOwned'
  BY <1>1, <1>2, Zenon DEF ChainInv, ChainOwned
<1> QED
  BY <1>3, <1>5, <1>6, Zenon DEF ChainInv

\* Both times the value is built, validated and written.
LEMMA ChainBuilds ==
  ASSUME ChainInv,
         build_boot_info("build", "take") \/ build_boot_info("final build", "final check")
  PROVE  ChainInv'
<1>1. /\ UNCHANGED <<buffer_owner, converted, page, stack, framebuffer, count>>
      /\ info' = BootInfo(converted, count, framebuffer)
  BY Zenon DEF build_boot_info, buffers
<1>2. chainStage \in {"build", "final build"}
  BY Zenon DEF build_boot_info, Step
<1>3. validate_boot_info(BootInfo(converted, count, framebuffer))
  BY <1>2, ChainChecksHold, Zenon
<1>4. /\ failed' = failed
      /\ \/ chainStage = "build" /\ chainStage' = "take"
         \/ chainStage = "final build" /\ chainStage' = "final check"
  BY <1>3, Zenon DEF build_boot_info, Step
<1>5. ChainPlaced' /\ ChainFramebuffer'
  BY <1>1, <1>4, ChainKeeps, Zenon
<1>6. info' = BootInfo(converted', count', framebuffer')
  BY <1>1, Zenon
<1>7. ChainCounted'
  BY <1>1, <1>4, <1>6, Zenon DEF ChainInv, ChainCounted, Uncounted
<1>8. ChainOwned'
  BY <1>1, <1>4, Zenon DEF ChainInv, ChainOwned
<1> QED
  BY <1>5, <1>7, <1>8, Zenon DEF ChainInv

Passed ==
  {"take", "prepare", "shape", "cross", "final map", "final reserve", "final apply",
   "final check", "final shape", "jump", "kernel inputs", "kernel boot info", "kernel map",
   "running"}

\* A step between two stages that hold the value last built, which is not refused.
LEMMA ChainPasses ==
  ASSUME ChainInv, chainStage \in Passed, chainStage' \in Passed, failed' = failed,
         buffer_owner' = "nobody" => chainStage' = "prepare",
         UNCHANGED <<converted, page, stack, framebuffer, count, info>>
  PROVE  ChainInv'
<1>1. ChainPlaced' /\ ChainFramebuffer'
  BY ChainKeeps, Zenon DEF Passed
<1>2. count' \in 1..Capacity /\ info' = BootInfo(converted', count', framebuffer')
  BY Zenon DEF ChainInv, ChainCounted, Uncounted, Passed
<1>3. ChainCounted'
  BY <1>2, Zenon DEF ChainCounted
<1>4. ChainOwned'
  BY Zenon DEF ChainInv, ChainOwned
<1> QED
  BY <1>1, <1>3, <1>4, Zenon DEF ChainInv

LEMMA ChainPrepares ==
  ASSUME ChainInv,
         into_owned_parts \/ PreparedBootInfoFromValidated \/ with_boot_information
           \/ cross_exit_boundary
  PROVE  ChainInv'
<1>1. CASE into_owned_parts
  BY <1>1, ChainPasses, Zenon DEF into_owned_parts, Step, Passed
<1>2. CASE PreparedBootInfoFromValidated
  <2>1. from_validated(info)
    BY <1>2, ChainChecksHold, Zenon DEF PreparedBootInfoFromValidated, Step
  <2> QED
    BY <1>2, <2>1, ChainPasses, Zenon DEF PreparedBootInfoFromValidated, Step, Passed
<1>3. CASE with_boot_information
  <2>1. chainStage = "shape"
    BY <1>3, Zenon DEF with_boot_information, Step
  <2>2. info = BootInfo(converted, count, framebuffer) /\ count \in 1..Capacity
    BY <2>1, Zenon DEF ChainInv, ChainCounted, Uncounted
  <2>3. /\ info.memory_map.descriptor_count # 0
        /\ info.memory_map.descriptor_stride = MEMORY_DESCRIPTOR_SIZE
    BY <2>2 DEF BootInfo
  <2>4. buffer_owner # "nobody"
    BY <2>1, Zenon DEF ChainInv, ChainOwned
  <2> QED
    BY <1>3, <2>3, <2>4, ChainPasses, Zenon DEF with_boot_information, Step, Passed, buffers
<1>4. CASE cross_exit_boundary
  BY <1>4, ChainPasses, Zenon DEF cross_exit_boundary, Step, Passed
<1> QED
  BY <1>1, <1>2, <1>3, <1>4, Zenon

LEMMA ChainCrosses ==
  ASSUME ChainInv,
         reservations_for_transferred \/ PostExitStateFromFinalMap \/ FinalShape
           \/ jump_to_kernel
  PROVE  ChainInv'
<1>0. chainStage # "prepare" /\ UNCHANGED <<buffer_owner, converted, page, stack, framebuffer, count, info>>
  BY Zenon
     DEF reservations_for_transferred, PostExitStateFromFinalMap, FinalShape, jump_to_kernel,
         Step, buffers
<1>5. buffer_owner' # "nobody"
  BY <1>0, Zenon DEF ChainInv, ChainOwned
<1>1. CASE reservations_for_transferred
  <2>1. chainStage = "final reserve"
    BY <1>1, Zenon DEF reservations_for_transferred, Step
  <2>2. Reservable(framebuffer)
    BY <2>1, Zenon DEF ChainInv, ChainFramebuffer
  <2> QED
    BY <1>0, <1>1, <1>5, <2>2, ChainPasses, Zenon DEF reservations_for_transferred, Step, Passed
<1>2. CASE PostExitStateFromFinalMap
  <2>1. from_final_map(info)
    BY <1>2, ChainChecksHold, Zenon DEF PostExitStateFromFinalMap, Step
  <2> QED
    BY <1>0, <1>2, <1>5, <2>1, ChainPasses, Zenon DEF PostExitStateFromFinalMap, Step, Passed
<1>3. CASE FinalShape
  <2>1. chainStage = "final shape"
    BY <1>3, Zenon DEF FinalShape, Step
  <2>2. /\ info = BootInfo(converted, count, framebuffer) /\ count \in 1..Capacity
        /\ page # 0
    BY <2>1, Zenon DEF ChainInv, ChainCounted, ChainPlaced, Uncounted
  <2>3. info.memory_map.descriptor_count # 0
    BY <2>2 DEF BootInfo
  <2> QED
    BY <1>0, <1>3, <1>5, <2>2, <2>3, ChainPasses, Zenon DEF FinalShape, Step, Passed
<1>4. CASE jump_to_kernel
  <2>1. validate_handoff_arguments
    BY <1>4, ChainChecksHold, Zenon DEF jump_to_kernel, Step
  <2> QED
    BY <1>0, <1>4, <1>5, <2>1, ChainPasses, Zenon DEF jump_to_kernel, Step, Passed
<1> QED
  BY <1>1, <1>2, <1>3, <1>4

LEMMA ChainArrives ==
  ASSUME ChainInv, KernelChecksInputs \/ KernelChecksBootInfo \/ KernelChecksMap
  PROVE  ChainInv'
<1>0. chainStage # "prepare" /\ UNCHANGED <<buffer_owner, converted, page, stack, framebuffer, count, info>>
  BY Zenon DEF KernelChecksInputs, KernelChecksBootInfo, KernelChecksMap, Step, buffers
<1>5. buffer_owner' # "nobody"
  BY <1>0, Zenon DEF ChainInv, ChainOwned
<1>1. CASE KernelChecksInputs
  <2>1. validate_handoff_inputs
    BY <1>1, ChainChecksHold, Zenon DEF KernelChecksInputs, Step
  <2> QED
    BY <1>0, <1>1, <1>5, <2>1, ChainPasses, Zenon DEF KernelChecksInputs, Step, Passed
<1>2. CASE KernelChecksBootInfo
  <2>1. validate_boot_info(info)
    BY <1>2, ChainChecksHold, Zenon DEF KernelChecksBootInfo, Step
  <2> QED
    BY <1>0, <1>2, <1>5, <2>1, ChainPasses, Zenon DEF KernelChecksBootInfo, Step, Passed
<1>3. CASE KernelChecksMap
  <2>1. chainStage = "kernel map"
    BY <1>3, Zenon DEF KernelChecksMap, Step
  <2>2. validate_boot_info(info)
    BY <2>1, ChainChecksHold, Zenon
  <2>3. /\ info = BootInfo(converted, count, framebuffer) /\ count \in 1..Capacity
        /\ converted \in Nat /\ Aligned(converted)
        /\ converted + CONVERTED_MAP_PAGES * PAGE <= PhysicalEnd
        /\ page \in Nat /\ page + PAGE <= PhysicalEnd
    BY <2>1, Zenon DEF ChainInv, ChainCounted, ChainPlaced, Uncounted
  <2>4. /\ info.memory_map.physical_address = converted
        /\ info.memory_map.descriptor_count = count
        /\ info.memory_map.descriptor_stride = MEMORY_DESCRIPTOR_SIZE
        /\ info.memory_map.byte_length = count * MEMORY_DESCRIPTOR_SIZE
    BY <2>3, Zenon DEF BootInfo
  <2>5. converted % MEMORY_DESCRIPTOR_SIZE = 0
    BY <2>3, PagesAlignDescriptors, Zenon
  <2>6. Fits(page + SIZE_OF_BOOT_INFO)
    BY <2>3, ChainNumbers DEF Fits
  <2>7. Fits(converted + count * MEMORY_DESCRIPTOR_SIZE)
    BY <2>3, DescriptorsFit, ChainNumbers DEF Fits
  <2>8. chainStage' = "running" /\ failed' = failed
    BY <1>3, <2>2, <2>4, <2>5, <2>6, <2>7, Zenon DEF KernelChecksMap, Step
  <2> QED
    BY <1>0, <1>5, <2>1, <2>8, ChainPasses, Zenon DEF Passed
<1> QED
  BY <1>1, <1>2, <1>3, Zenon

LEMMA ChainNextInv ==
  ASSUME ChainInv, [ChainNext]_chainVars
  PROVE  ChainInv'
<1>1. CASE PendingBuffersAllocate
  BY <1>1, ChainBegins, Zenon
<1>2. CASE ConvertFramebuffer
  BY <1>2, ChainConverts, Zenon
<1>3. CASE reservations_for
  BY <1>3, ChainReserves
<1>4. CASE \E raw \in 0..Capacity + 1 :
             CountRaw("map", "apply", raw) \/ CountRaw("final map", "final reserve", raw)
  BY <1>4, ChainCounts, Zenon
<1>5. CASE \E n \in 1..Capacity + 1 :
             \/ apply_reservations("apply", "build", n)
             \/ apply_reservations("final apply", "final build", n)
  BY <1>5, ChainApplies, Zenon
<1>6. CASE build_boot_info("build", "take") \/ build_boot_info("final build", "final check")
  BY <1>6, ChainBuilds, Zenon
<1>7. CASE into_owned_parts \/ PreparedBootInfoFromValidated \/ with_boot_information
             \/ cross_exit_boundary
  BY <1>7, ChainPrepares, Zenon
<1>8. CASE reservations_for_transferred \/ PostExitStateFromFinalMap \/ FinalShape
             \/ jump_to_kernel
  BY <1>8, ChainCrosses, Zenon
<1>9. CASE KernelChecksInputs \/ KernelChecksBootInfo \/ KernelChecksMap
  BY <1>9, ChainArrives, Zenon
<1>10. CASE UNCHANGED chainVars
  BY <1>10, Zenon
     DEF chainVars, ChainInv, ChainPlaced, ChainFramebuffer, ChainCounted, ChainOwned,
               Aligned, Reservable, Fits
<1> QED
  BY <1>1, <1>2, <1>3, <1>4, <1>5, <1>6, <1>7, <1>8, <1>9, <1>10, Zenon DEF ChainNext, Over

\* ChainInv holds at every stage between the buffers and the running kernel.
THEOREM ChainInvariance == ChainSpec => []ChainInv
<1>1. ChainInit => ChainInv
  BY Zenon
     DEF ChainInit, ChainInv, ChainPlaced, ChainFramebuffer, ChainCounted, ChainOwned, Uncounted
<1> QED
  BY <1>1, ChainNextInv, PTL DEF ChainSpec

\* From the moment prepare has taken the buffers out of their guard until the kernel
\* runs, no check refuses what build_boot_info let through, for every page size,
\* capacity, placement of the buffers and graphics mode.
THEOREM LaterChecksTheorem == ChainSpec => []LaterChecksAgree
<1>1. ChainInv => LaterChecksAgree
  BY Zenon DEF ChainInv, ChainOwned, LaterChecksAgree
<1> QED
  BY <1>1, ChainInvariance, PTL

\* A byte of a visible pixel lies inside the bytes the mode needs.
LEMMA PixelInBuffer ==
  ASSUME NEW p \in Nat, NEW h \in Nat, NEW d \in Nat, NEW w \in Nat, p >= w,
         NEW x \in 0..w - 1, NEW y \in 0..h - 1, NEW b \in 0..d - 1
  PROVE  (y * p + x) * d + b \in Nat /\ (y * p + x) * d + b < p * h * d
<1>1. x \in Nat /\ y \in Nat /\ b \in Nat /\ x < p /\ y + 1 <= h /\ b < d
  OBVIOUS
<1>2. (y + 1) * p \in Nat /\ p * h \in Nat /\ (y + 1) * p <= p * h
  BY <1>1, Z3
<1>3. y * p \in Nat /\ (y + 1) * p = y * p + p
  BY <1>1, Z3
<1> DEFINE i == y * p + x
           n == p * h
<1>4. i \in Nat /\ n \in Nat /\ i + 1 <= n
  BY <1>1, <1>2, <1>3
<1> HIDE DEF i, n
<1>5. i * d \in Nat /\ n * d \in Nat /\ (i + 1) * d <= n * d
  BY <1>4, Z3
<1>6. (i + 1) * d = i * d + d
  BY <1>4, Z3
<1>7. i * d + b \in Nat /\ i * d + b < n * d
  BY <1>1, <1>5, <1>6
<1> QED
  BY <1>7, Zenon DEF i, n

\* Rounding outwards to pages keeps every byte between the ends.
LEMMA RoundedPagesHold ==
  ASSUME NEW fb, fb.physical_address \in Nat, fb.byte_length \in Nat,
         NEW o \in Nat, o < fb.byte_length
  PROVE  fb.physical_address + o
           \in PageRange(ReservedPages(fb).start, ReservedPages(fb).pages)
<1> DEFINE a == fb.physical_address
           e == fb.physical_address + fb.byte_length + PAGE - 1
<1>0. PAGE \in Nat /\ PAGE > 0 /\ a \in Nat /\ e \in Nat /\ a + o + PAGE <= e
  BY ChainNumbers
<1>1. /\ ReservedPages(fb).start = RoundDown(a)
      /\ ReservedPages(fb).pages = (RoundDown(e) - RoundDown(a)) \div PAGE
  BY Zenon DEF ReservedPages
<1> HIDE DEF a, e
<1>2. PICK i \in Nat : RoundDown(a) = PAGE * i /\ PAGE * i <= a
  <2>1. a \div PAGE \in Nat /\ a - (a % PAGE) = PAGE * (a \div PAGE)
        /\ PAGE * (a \div PAGE) <= a
    BY <1>0, Z3
  <2> QED
    BY <2>1, Zenon DEF RoundDown
<1>3. PICK j \in Nat : RoundDown(e) = PAGE * j /\ e < PAGE * j + PAGE
  <2>1. e \div PAGE \in Nat /\ e - (e % PAGE) = PAGE * (e \div PAGE)
        /\ e < PAGE * (e \div PAGE) + PAGE
    BY <1>0, Z3
  <2> QED
    BY <2>1, Zenon DEF RoundDown
<1>4. PAGE * i \in Nat /\ PAGE * j \in Nat /\ a + o < PAGE * j
  BY <1>0, <1>2, <1>3
<1>5. (PAGE * j - PAGE * i) \div PAGE = j - i
  <2>1. PAGE * j - PAGE * i = PAGE * (j - i)
    BY <1>0, <1>2, <1>3, Z3
  <2>2. \A k \in Int : (PAGE * k) \div PAGE = k
    BY <1>0, Z3
  <2> QED
    BY <2>1, <2>2
<1>6. (j - i) * PAGE = PAGE * j - PAGE * i
  BY <1>0, <1>2, <1>3, Z3
<1>7. a + o = RoundDown(a) + (a + o - PAGE * i)
  BY <1>0, <1>2, <1>4
<1>8. a + o - PAGE * i \in 0..(ReservedPages(fb).pages * PAGE - 1)
  BY <1>0, <1>1, <1>2, <1>3, <1>4, <1>5, <1>6
<1>9. a + o \in PageRange(ReservedPages(fb).start, ReservedPages(fb).pages)
  BY <1>1, <1>7, <1>8, Zenon DEF PageRange
<1> QED
  BY <1>9, Zenon DEF a

\* Every byte of every visible pixel lies in the pages reservations_for sets aside,
\* below 2^64, for every graphics mode convert_framebuffer accepts.
THEOREM PixelsTheorem == ChainSpec => []EveryPixelIsReserved
<1>1. ASSUME ChainInv
      PROVE  EveryPixelIsReserved
  <2> SUFFICES ASSUME framebuffer # Nothing, chainStage \notin {"reserve", "refused"},
                      NEW x \in 0..framebuffer.width - 1,
                      NEW y \in 0..framebuffer.height - 1,
                      NEW b \in 0..BytesPerPixel - 1
               PROVE  LET byte == framebuffer.physical_address
                            + (y * framebuffer.pixels_per_scanline + x) * BytesPerPixel + b
                      IN  /\ byte < U64_END
                          /\ byte \in PageRange(ReservedPages(framebuffer).start,
                                                ReservedPages(framebuffer).pages)
    BY Zenon DEF EveryPixelIsReserved
  <2>1. framebuffer \in AcceptedModes
    BY <1>1, Zenon DEF ChainInv, ChainFramebuffer
  <2> DEFINE a == framebuffer.physical_address
             n == framebuffer.byte_length
             o == (y * framebuffer.pixels_per_scanline + x) * BytesPerPixel + b
  <2>2. /\ a \in Nat /\ n \in Nat /\ n >= RequiredBytes(framebuffer) /\ a + n < U64_END
        /\ framebuffer.pixels_per_scanline \in Nat /\ framebuffer.height \in Nat
        /\ framebuffer.width \in Nat
        /\ framebuffer.pixels_per_scanline >= framebuffer.width
    BY <2>1, ModeFields, Zenon DEF Fits
  <2>3. o \in Nat /\ o < RequiredBytes(framebuffer)
    BY <2>2, ChainNumbers, PixelInBuffer, Zenon DEF RequiredBytes
  <2>4. RequiredBytes(framebuffer) \in Nat
    <3>1. framebuffer.pixels_per_scanline * framebuffer.height \in Nat
      BY <2>2
    <3> QED
      BY <3>1, ChainNumbers DEF RequiredBytes
  <2>5. o < n
    <3> HIDE DEF o
    <3> QED
      BY <2>2, <2>3, <2>4
  <2>6. a + o \in PageRange(ReservedPages(framebuffer).start, ReservedPages(framebuffer).pages)
    BY <2>2, <2>3, <2>5, RoundedPagesHold, Zenon
  <2>7. a + o < U64_END
    <3> HIDE DEF o
    <3> QED
      BY <2>2, <2>3, <2>5, ChainNumbers
  <2>8. a + (y * framebuffer.pixels_per_scanline + x) * BytesPerPixel + b = a + o
    <3>1. PICK i \in Int : i = (y * framebuffer.pixels_per_scanline + x) * BytesPerPixel
      <4>1. y * framebuffer.pixels_per_scanline + x \in Int
        BY <2>2
      <4> QED
        BY <4>1, ChainNumbers
    <3>2. b \in Int
      BY ChainNumbers
    <3> QED
      BY <2>2, <3>1, <3>2
  <2> QED
    BY <2>6, <2>7, <2>8, Zenon
<1> QED
  BY <1>1, ChainInvariance, PTL

-----------------------------------------------------------------------------
(* Extensions again: the frames of an accepted ownership list, which are as  *)
(* many as it claims.                                                       *)

INSTANCE FiniteSetTheorems

\* An aligned page that begins in an aligned range of pages ends in it.
LEMMA PageInRange ==
  ASSUME NEW P \in Nat \ {0}, NEW f \in Nat, NEW s \in Nat, NEW c \in Nat,
         f % P = 0, s % P = 0, s <= f, f < s + c * P, NEW n \in 0..P - 1
  PROVE  f + n < s + c * P
<1>1. PICK a \in Nat : f = P * a
  BY Z3
<1>2. PICK b \in Nat : s = P * b
  BY Z3
<1>3. P * a < P * (b + c) /\ b + c \in Nat
  BY <1>1, <1>2
<1>4. a < b + c
  <2> SUFFICES ASSUME b + c <= a PROVE FALSE
    BY <1>3
  <2>1. P * (b + c) <= P * a
    BY <1>3
  <2> QED
    BY <1>3, <2>1
<1>5. P * (a + 1) <= P * (b + c)
  BY <1>3, <1>4
<1> QED
  BY <1>1, <1>2, <1>5

\* A list without repetition has as many members as entries.
LEMMA DistinctCount ==
  ASSUME NEW list \in Seq(Nat), \A i \in 1..Len(list) : \A j \in 1..i - 1 : list[j] # list[i]
  PROVE  Cardinality({list[i] : i \in 1..Len(list)}) = Len(list)
<1> DEFINE S == 1..Len(list)
           T == {list[i] : i \in S}
           f == [i \in S |-> list[i]]
<1>1. Len(list) \in Nat
  OBVIOUS
<1>2. IsFiniteSet(S) /\ Cardinality(S) = Len(list)
  <2>0. 1 \in Int /\ Len(list) \in Int
    BY <1>1
  <2>1. /\ IsFiniteSet(1..Len(list))
        /\ Cardinality(1..Len(list)) = IF 1 > Len(list) THEN 0 ELSE Len(list) - 1 + 1
    BY <2>0, FS_Interval, Zenon
  <2> QED
    BY <1>1, <2>1
<1>3. \A i, j \in S : list[i] = list[j] => i = j
  BY <1>1
<1>4. f \in Bijection(S, T)
  BY <1>3, Zenon DEF Bijection, Injection, Surjection, IsInjective
<1>5. ExistsBijection(S, T)
  BY <1>4, Zenon DEF ExistsBijection
<1> QED
  BY <1>2, <1>5, FS_Bijection, Zenon

\* What AcceptsFrames tests, page by page, holds of every byte.
LEMMA FramesOwned == WalkInv => AcceptedFramesAreOwned
<1> SUFFICES ASSUME WalkInv, walkPhase = "owned" PROVE AcceptedFramesAreOwned
  BY Zenon DEF AcceptedFramesAreOwned
<1> DEFINE o == page_table_ownership
           listed == {frame_list[i] : i \in 1..Len(frame_list)}
           Labelled(d) == {d.physical_start + n : n \in 0..d.page_count * MEMORY_PAGE_SIZE - 1}
           reserved == {m \in memory_map : m.kind = "page_table" /\ ValidDescriptor(m)}
           tables == UNION {Labelled(d) : d \in reserved}
<1>1. /\ frame_list \in Seq(Nat) /\ memory_map \in MemoryMaps
      /\ AcceptsFrames(frame_list, memory_map) /\ ValidOwnership(o)
  BY ExtensionsAssumption, Zenon DEF WalkInv, Listed, Found
<1>2. Cardinality(listed) = o.owned_frame_count
  BY <1>1, DistinctCount, Zenon DEF AcceptsFrames
<1>3. o.root_physical_frame \in listed
  <2> DEFINE places == {i \in 1..Len(frame_list) : frame_list[i] = o.root_physical_frame}
  <2>1. IsFiniteSet(1..Len(frame_list))
    BY <1>1, FS_Interval
  <2>2. IsFiniteSet(places)
    BY <2>1, FS_Subset, ZenonT(30)
  <2>3. Cardinality(places) = 1
    BY <1>1, Zenon DEF AcceptsFrames
  <2>4. PICK x : places = {x}
    <3> HIDE DEF places
    <3> QED
      BY <2>2, <2>3, FS_Singleton, Zenon
  <2> QED
    BY <2>4
<1>4. ASSUME NEW f \in listed, NEW n \in 0..MEMORY_PAGE_SIZE - 1
      PROVE  f + n \in tables /\ f + n < PAGE_TABLE_PHYSICAL_CAP
  <2>1. MEMORY_PAGE_SIZE \in Nat \ {0} /\ f \in Nat
    BY <1>1, ExtensionsAssumption, SMTT(30)
  <2>2. validate_frame_address(f, PAGE_TABLE_PHYSICAL_CAP) /\ ReservedFrame(f, memory_map)
    BY <1>1, Zenon DEF AcceptsFrames, ValidOwnership
  <2>3. PICK d \in memory_map :
          /\ d.kind = "page_table" /\ ValidDescriptor(d)
          /\ d.physical_start <= f
          /\ f < d.physical_start + d.page_count * MEMORY_PAGE_SIZE
    BY <2>2, Zenon DEF ReservedFrame
  <2>4. d.physical_start \in Nat /\ d.page_count \in Nat
    BY <1>1, ExtensionsAssumption, Zenon
  <2>5. f % MEMORY_PAGE_SIZE = 0 /\ d.physical_start % MEMORY_PAGE_SIZE = 0
    BY <2>2, <2>3, Zenon DEF validate_frame_address, ValidDescriptor
  <2>6. f + n < d.physical_start + d.page_count * MEMORY_PAGE_SIZE
    BY <2>1, <2>3, <2>4, <2>5, PageInRange, Zenon
  <2>7. d.page_count * MEMORY_PAGE_SIZE \in Nat
    BY <2>1, <2>4
  <2>8. (f + n) - d.physical_start \in 0..d.page_count * MEMORY_PAGE_SIZE - 1
    <3>1. PICK p \in Nat : p = d.page_count * MEMORY_PAGE_SIZE
      BY <2>7, Zenon
    <3>2. /\ f + n < d.physical_start + p /\ d.physical_start <= f
          /\ f \in Nat /\ n \in Nat /\ d.physical_start \in Nat
      BY <2>1, <2>3, <2>4, <2>6, <3>1, SMTT(30)
    <3>3. (f + n) - d.physical_start \in 0..p - 1
      BY <3>2, SMTT(30)
    <3> QED
      BY <3>1, <3>3, Zenon
  <2>9. f + n = d.physical_start + ((f + n) - d.physical_start)
    BY <2>1, <2>4
  <2>10. f + n \in Labelled(d)
    BY <2>8, <2>9, Zenon
  <2>11. d \in reserved
    BY <2>3, Zenon
  <2>12. f + n \in tables
    <3> HIDE DEF Labelled, reserved
    <3> QED
      BY <2>10, <2>11, Zenon
  <2>13. f + n < PAGE_TABLE_PHYSICAL_CAP
    BY <2>1, <2>2, ExtensionsAssumption DEF validate_frame_address
  <2> QED
    BY <2>12, <2>13, Zenon
<1> QED
  BY <1>2, <1>3, <1>4, Zenon DEF AcceptedFramesAreOwned

\* Whatever validate_extension_area and validate_page_table_frames accept is
\* true of the whole area and of every byte of every listed frame.
THEOREM ClaimsTheorem == WalkSpec => []AcceptedClaimsAreTrue
<1>1. WalkInv => SummaryDescribesTheArea
  BY Zenon DEF WalkInv, WalkTypes, Tiles, Found, RecordEnd, Holders, SummaryDescribesTheArea
<1> QED
  BY <1>1, FramesOwned, WalkInvariance, PTL DEF AcceptedClaimsAreTrue

=============================================================================
