-------------------------- MODULE BootPipelineProofs --------------------------
(***************************************************************************)
(* The theorems about BootPipeline.  BootPipelineSteps treats the steps     *)
(* before the boundary; here are those behind it, those of the error paths  *)
(* and those that count allocations, then the induction.                    *)
(***************************************************************************)
EXTENDS BootPipelineSteps

-----------------------------------------------------------------------------
(* Behind the boundary.                                                     *)

LEMMA HeldPagesAre ==
  ASSUME NEW p
  PROVE  p \in HeldPages <=> \E o \in OwnerNames : \E i \in held[o] : p = <<o, i>>
<1>1. p \in HeldPages <=> \E o \in OwnerNames : p \in {o} \X held[o]
  BY OwnersAre DEF HeldPages
<1>2. \A o : p \in {o} \X held[o] <=> \E i \in held[o] : p = <<o, i>>
  OBVIOUS
<1> QED
  BY <1>1, <1>2

\* When every owner but the source is complete, what is handed over is all of
\* the pages the kernel is promised.
LEMMA CompleteHandover ==
  ASSUME held["source"] = {}, held["kernel"] = 1..Segments, held["stack"] = {1},
         held["tables"] = 1..Frames, held["buffers"] = 1..4
  PROVE  HeldPages = {p \in Pages : p[1] # "source" /\ p[2] # 0}
<1>1. \A o \in OwnerNames \ {"source"} : held[o] = 1..Pieces[o] /\ Pieces[o] \in Nat
  <2>1. {1} = 1..1 /\ Segments \in Nat /\ Frames \in Nat
    BY BootPipelineAssumption
  <2>2. /\ Pieces["kernel"] = Segments /\ Pieces["stack"] = 1
        /\ Pieces["tables"] = Frames /\ Pieces["buffers"] = 4
    BY DEF Pieces
  <2> TAKE o \in OwnerNames \ {"source"}
  <2>3. CASE o = "kernel"
    BY <2>1, <2>2, <2>3
  <2>4. CASE o = "stack"
    <3>1. Pieces[o] = 1
      BY <2>2, <2>4
    <3>2. held[o] = 1..1
      BY <2>1, <2>4
    <3> QED
      BY <3>1, <3>2
  <2>5. CASE o = "tables"
    BY <2>1, <2>2, <2>5
  <2>6. CASE o = "buffers"
    <3>1. Pieces[o] = 4
      BY <2>2, <2>6
    <3>2. held[o] = 1..4
      BY <2>1, <2>6
    <3> QED
      BY <3>1, <3>2
  <2> QED
    BY <2>3, <2>4, <2>5, <2>6 DEF OwnerNames
<1>2. ASSUME NEW p \in HeldPages
      PROVE  p \in Pages /\ p[1] # "source" /\ p[2] # 0
  <2>1. PICK o \in OwnerNames : \E i \in held[o] : p = <<o, i>>
    BY HeldPagesAre
  <2>2. PICK i \in held[o] : p = <<o, i>>
    BY <2>1
  <2>3. o # "source"
    BY <2>2
  <2>4. i \in 0..Pieces[o] /\ i # 0
    BY <1>1, <2>2, <2>3
  <2>5. p \in {o} \X (0..Pieces[o])
    BY <2>2, <2>4
  <2>6. p \in Pages
    BY <2>5, OwnersAre DEF Pages
  <2> QED
    BY <2>2, <2>3, <2>4, <2>6
<1>3. ASSUME NEW p \in Pages, p[1] # "source", p[2] # 0
      PROVE  p \in HeldPages
  <2>1. PICK o \in OwnerNames : p \in {o} \X (0..Pieces[o])
    BY OwnersAre DEF Pages
  <2>2. p = <<o, p[2]>> /\ p[1] = o /\ p[2] \in 0..Pieces[o]
    BY <2>1
  <2>3. p[2] \in held[o]
    BY <1>1, <1>3, <2>2
  <2> QED
    BY <2>2, <2>3, HeldPagesAre
<1> QED
  BY <1>2, <1>3

\* cross_exit_boundary: every owner is disarmed, nothing is freed.
LEMMA CrossStep ==
  ASSUME IInv, CrossExitBoundary
  PROVE  IInv'
<1>0. Types /\ Ledger /\ Stock /\ InStep
  BY DEF IInv
<1>1. /\ pc = "cross" /\ handed' = HeldPages /\ held' = [o \in Owners |-> {}]
      /\ Goto("exit") /\ UNCHANGED <<refused, faults, live, phase>>
  BY DEF CrossExitBoundary, Disarm, boundary
<1>2. pc' = "exit" /\ UNCHANGED <<build, todo, clean, result, markers>>
  BY <1>1 DEF Goto, control
<1>3. /\ refused = {} /\ handed = {} /\ markers = {}
  BY <1>1 DEF IInv, Stock, Crossed, Unwinding, Working, Leaving, Left, Over
<1>4. /\ held["source"] = {} /\ held["kernel"] = 1..Segments /\ held["buffers"] = 1..4
      /\ Handoff => held["stack"] = {1} /\ held["tables"] = 1..Frames
  BY <1>0, <1>1 DEF Stock, Working, Placing, Building, Describing, Returning, Leaving
<1>5. held' \in [OwnerNames -> SUBSET Nat] /\ \A o \in OwnerNames : held'[o] = {}
  BY <1>1, OwnersAre
<1>6. \A p : p \in live <=> p \in HeldPages
  BY <1>0, <1>3, HeldPagesAre DEF Ledger
<1>7. Ledger'
  BY <1>0, <1>1, <1>5, <1>6 DEF Ledger
<1>8. Types'
  BY <1>0, <1>2, <1>5 DEF Types, Left
<1>9. Stock'
  BY <1>2 DEF Stock, Working, Placing, Building, Describing, Returning, Leaving
<1>10. Crossed'
  <2>1. Handoff' => handed' = {p \in Pages : p[1] # "source" /\ p[2] # 0}
    BY <1>1, <1>2, <1>4, CompleteHandover DEF Handoff
  <2> QED
    BY <1>1, <1>2, <1>3, <1>5, <1>6, <2>1 DEF Crossed, Left
<1>11. InStep'
  BY <1>0, <1>1, <1>2 DEF InStep, Placing, Building, Returning, Over
<1>12. Unwinding'
  BY <1>2, <1>3 DEF Unwinding, Over
<1>13. RollbackMarkersTruthful'
  BY <1>2, <1>3 DEF RollbackMarkersTruthful
<1> QED
  BY <1>7, <1>8, <1>9, <1>10, <1>11, <1>12, <1>13 DEF IInv

\* Behind the boundary nothing but the operation, CR3 and the protocol changes.
LEMMA Beyond ==
  ASSUME IInv, pc \in Left, pc' \in Left, UNCHANGED pages,
         UNCHANGED <<build, todo, clean, markers>>,
         pc' \in {"cr3_third", "jump", "kernel"} => Handoff,
         pc' \in {"jump", "kernel"} => cr3' = token',
         InStep'
  PROVE  IInv'
<1>1. pc \notin Over /\ pc' \notin Over /\ pc' \notin Working
  BY DEF Left, Over, Working, Placing, Building, Describing, Returning, Leaving
<1>2. /\ Ledger' /\ held' \in [OwnerNames -> SUBSET Nat]
      /\ held' = held /\ refused' = refused /\ handed' = handed /\ live' = live
  BY PagesStay DEF IInv
<1>3. markers = {}
  BY <1>1 DEF IInv, Unwinding
<1>4. Types'
  BY <1>2 DEF IInv, Types
<1>5. Stock'
  BY <1>1 DEF Stock, Left, Building, Returning, Handoff
<1>6. Crossed'
  BY <1>2 DEF IInv, Crossed, Handoff
<1>7. Unwinding'
  BY <1>1, <1>3 DEF Unwinding, Over
<1>8. RollbackMarkersTruthful'
  BY <1>3 DEF RollbackMarkersTruthful
<1> QED
  BY <1>2, <1>4, <1>5, <1>6, <1>7, <1>8 DEF IInv

\* The exit attempts, and what follows them.
LEMMA BeyondSteps ==
  ASSUME IInv,
         \/ \E status : AttemptExit(status) \/ CaptureAgain(status)
         \/ \E ok \in BOOLEAN : Finalize(ok) \/ JumpToKernel(ok)
         \/ CheckCr3Third
  PROVE  IInv'
<1> USE DEF Left, Over, Placing, Building, Returning
<1>0. Types /\ Stock /\ InStep /\ Crossed
  BY DEF IInv
<1>1. ASSUME NEW status, AttemptExit(status) PROVE IInv'
  <2>1. /\ pc = "exit" /\ UNCHANGED pages
        /\ CASE phase' = "exited" -> Goto("finalize")
             [] phase' = "exit_failed" -> Halt("Exit")
             [] OTHER -> Goto("exit")
    BY <1>1 DEF AttemptExit
  <2>2. phase' \in {"exited", "exit_failed", "retry"}
    BY <1>1 DEF AttemptExit, Exit!ExitBootServices, Exit!ExitBootServicesAgain,
                Exit!Attempt, Exit!OnInvalidKey
  <2>3. UNCHANGED <<build, todo, clean, markers>>
    BY <2>1, <2>2 DEF Goto, Halt, control
  <2>4. pc' = IF phase' = "exited" THEN "finalize"
              ELSE IF phase' = "exit_failed" THEN "halted" ELSE "exit"
    BY <2>1, <2>2 DEF Goto, Halt
  <2>5. InStep'
    BY <2>2, <2>4 DEF InStep
  <2> QED
    BY <2>1, <2>3, <2>4, <2>5, Beyond
<1>2. ASSUME NEW status, CaptureAgain(status) PROVE IInv'
  <2>1. /\ pc = "exit" /\ UNCHANGED pages
        /\ IF phase' = "map_failed" THEN Halt("FinalMap") ELSE Goto("exit")
    BY <1>2 DEF CaptureAgain
  <2>2. phase' \in {"map_failed", "exit_again", "retry"}
    BY <1>2 DEF CaptureAgain, Exit!CaptureAgain, Exit!Capture, Exit!MapCall
  <2>3. UNCHANGED <<build, todo, clean, markers>>
    BY <2>1 DEF Goto, Halt, control
  <2>4. pc' = IF phase' = "map_failed" THEN "halted" ELSE "exit"
    BY <2>1 DEF Goto, Halt
  <2>5. InStep'
    BY <2>2, <2>4 DEF InStep
  <2> QED
    BY <2>1, <2>3, <2>4, <2>5, Beyond
<1>3. ASSUME NEW ok \in BOOLEAN, Finalize(ok) PROVE IInv'
  <2>1. /\ pc = "finalize" /\ UNCHANGED <<pages, phase, build, todo, clean, markers>>
        /\ pc' = IF ok THEN IF Handoff THEN "cr3_third" ELSE "passed" ELSE "halted"
    BY <1>3 DEF Finalize, Goto, Halt, control, boundary
  <2>2. InStep'
    BY <1>0, <2>1 DEF InStep
  <2> QED
    BY <2>1, <2>2, Beyond
<1>4. ASSUME NEW ok \in BOOLEAN, JumpToKernel(ok) PROVE IInv'
  <2>1. /\ pc = "jump" /\ UNCHANGED <<pages, phase, build, todo, clean, markers, cr3, token>>
        /\ pc' = IF ok THEN "kernel" ELSE "halted"
    BY <1>4 DEF JumpToKernel, Goto, Halt, control, boundary, cpu
  <2>2. Handoff /\ cr3 = token
    BY <1>0, <2>1 DEF Stock, Crossed
  <2>3. InStep'
    BY <1>0, <2>1 DEF InStep
  <2> QED
    BY <2>1, <2>2, <2>3, Beyond
<1>5. ASSUME CheckCr3Third PROVE IInv'
  <2>1. /\ pc = "cr3_third" /\ UNCHANGED <<pages, phase, build, todo, clean, markers, cr3, token>>
        /\ pc' = IF cr3 = token THEN "jump" ELSE "halted"
    BY <1>5 DEF CheckCr3Third, Goto, Halt, control, boundary, cpu
  <2>2. Handoff
    BY <1>0, <2>1 DEF Stock
  <2>3. InStep'
    BY <1>0, <2>1 DEF InStep
  <2> QED
    BY <2>1, <2>2, <2>3, Beyond
<1> QED
  BY <1>1, <1>2, <1>3, <1>4, <1>5

\* The firmware changes its map, or CR3 while boot services are active.
LEMMA FirmwareSteps ==
  ASSUME IInv, FirmwareChangesMap \/ FirmwareChangesCr3 \/ UNCHANGED vars
  PROVE  IInv'
<1>1. /\ UNCHANGED <<build, pc, pages, todo, clean, result, markers, phase>>
      /\ UNCHANGED <<cr3, token>> \/ phase # "exited"
  BY DEF FirmwareChangesMap, FirmwareChangesCr3, Exit!FirmwareChangesMap, Watching,
         Exit!Active, vars, control, cpu, boundary
<1>2. /\ Ledger' /\ held' \in [OwnerNames -> SUBSET Nat]
      /\ held' = held /\ refused' = refused /\ handed' = handed /\ live' = live
  BY <1>1, PagesStay DEF IInv
<1>3. Types'
  BY <1>1, <1>2, ZenonT(30) DEF IInv, Types
<1>4. Stock'
  BY <1>1, <1>2, SMTT(30) DEF IInv, Stock, Handoff
<1>5. Crossed'
  <2>1. pc' \in {"jump", "kernel"} => cr3' = token'
    BY <1>1 DEF IInv, Crossed, InStep
  <2> QED
    BY <1>1, <1>2, <2>1, Zenon DEF IInv, Crossed, Handoff
<1>6. InStep'
  BY <1>1 DEF IInv, InStep
<1>7. Unwinding'
  BY <1>1, <1>2, ZenonT(30) DEF IInv, Unwinding
<1>8. RollbackMarkersTruthful'
  BY <1>1, <1>2 DEF IInv, RollbackMarkersTruthful
<1> QED
  BY <1>2, <1>3, <1>4, <1>5, <1>6, <1>7, <1>8, ZenonT(30) DEF IInv

-----------------------------------------------------------------------------
(* Error paths, step by step.                                               *)

\* The rest of a path.
LEMMA RestOf ==
  ASSUME NEW s \in Seq(Tasks), s # <<>>
  PROVE  /\ Tail(s) \in Seq(Tasks)
         /\ 1 \in 1..Len(s) /\ s[1] = Head(s)
         /\ \A j \in 1..Len(Tail(s)) : j + 1 \in 2..Len(s) /\ Tail(s)[j] = s[j + 1]
         /\ \A i \in 2..Len(s) : i - 1 \in 1..Len(Tail(s)) /\ Tail(s)[i - 1] = s[i]
<1>1. /\ Tail(s) \in Seq(Tasks) /\ Len(Tail(s)) = Len(s) - 1
      /\ Len(s) \in Nat /\ Len(s) # 0 /\ s[1] = Head(s)
  OBVIOUS
<1>2. \A j \in 1..Len(Tail(s)) : Tail(s)[j] = s[j + 1]
  BY <1>1
<1>3. \A j \in 1..Len(Tail(s)) : j + 1 \in 2..Len(s)
  BY <1>1
<1>4. \A i \in 2..Len(s) : i - 1 \in 1..Len(Tail(s)) /\ (i - 1) + 1 = i
  BY <1>1
<1> QED
  BY <1>1, <1>2, <1>3, <1>4

\* What a path still has to do when its first step is done.
LEMMA RestDoes ==
  ASSUME NEW s \in Seq(Tasks), s # <<>>
  PROVE  /\ Orderly(s) => Orderly(Tail(s))
         /\ Orderly(s) /\ Head(s)[1] \notin {"try", "once"} =>
              \A j \in 1..Len(Tail(s)) : ~Announces(Tail(s), j)
         /\ \A o : Discards(s, o) /\ Head(s) \notin {<<"drop", o>>, <<"once", o>>} =>
              Discards(Tail(s), o)
         /\ \A o : \A j \in 1..Len(Tail(s)) :
              /\ ReleasesBefore(s, j + 1, o)
              /\ Head(s) \notin {<<"try", o>>, <<"once", o>>}
              => ReleasesBefore(Tail(s), j, o)
         /\ Reporting(s) /\ Head(s) # <<"report", "Free">> => Reporting(Tail(s))
         /\ Reporting(Tail(s)) => Reporting(s)
<1> DEFINE t == Tail(s)
<1>1. /\ t \in Seq(Tasks) /\ 1 \in 1..Len(s) /\ s[1] = Head(s)
      /\ \A j \in 1..Len(t) : j + 1 \in 2..Len(s) /\ t[j] = s[j + 1]
      /\ \A i \in 2..Len(s) : i - 1 \in 1..Len(t) /\ t[i - 1] = s[i]
  BY RestOf
<1> HIDE DEF t
<1>2. Len(s) \in Nat /\ Len(t) \in Nat /\ \A i \in 1..Len(s) : i = 1 \/ i \in 2..Len(s)
  BY <1>1
<1>3. \A j \in 1..Len(t) : j + 1 \in 1..Len(s) /\ (Announces(t, j) => Announces(s, j + 1))
  BY <1>1, <1>2 DEF Announces
<1>4. ASSUME Orderly(s) PROVE Orderly(t)
  <2> SUFFICES ASSUME NEW j \in 1..Len(t), Announces(t, j), NEW i \in 1..(j - 1)
               PROVE  t[i][1] \in {"try", "once"}
    BY DEF Orderly
  <2>1. i + 1 \in 1..((j + 1) - 1) /\ i \in 1..Len(t)
    BY <1>2
  <2>2. s[i + 1][1] \in {"try", "once"}
    BY <1>3, <1>4, <2>1 DEF Orderly
  <2> QED
    BY <1>1, <2>1, <2>2
<1>5. ASSUME Orderly(s), Head(s)[1] \notin {"try", "once"}, NEW j \in 1..Len(t),
             Announces(t, j)
      PROVE  FALSE
  <2>1. 1 \in 1..((j + 1) - 1)
    BY <1>2
  <2> QED
    BY <1>1, <1>3, <1>5, <2>1 DEF Orderly
<1>6. ASSUME NEW o, Discards(s, o), Head(s) \notin {<<"drop", o>>, <<"once", o>>}
      PROVE  Discards(t, o)
  <2>1. PICK i \in 1..Len(s) : s[i] \in {<<"drop", o>>, <<"once", o>>}
    BY <1>6 DEF Discards
  <2>2. i \in 2..Len(s)
    BY <1>1, <1>2, <1>6, <2>1
  <2> QED
    BY <1>1, <2>1, <2>2, ZenonT(30) DEF Discards
<1>7. ASSUME NEW o, NEW j \in 1..Len(t), ReleasesBefore(s, j + 1, o),
             Head(s) \notin {<<"try", o>>, <<"once", o>>}
      PROVE  ReleasesBefore(t, j, o)
  <2>1. PICK i \in 1..((j + 1) - 1) : s[i] \in {<<"try", o>>, <<"once", o>>}
    BY <1>7 DEF ReleasesBefore
  <2>2. i \in 2..Len(s) /\ i - 1 \in 1..(j - 1)
    BY <1>1, <1>2, <1>7, <2>1
  <2> QED
    BY <1>1, <2>1, <2>2, ZenonT(30) DEF ReleasesBefore
<1>8. ASSUME Reporting(s), Head(s) # <<"report", "Free">> PROVE Reporting(t)
  <2>1. PICK i \in 1..Len(s) : s[i] = <<"report", "Free">>
    BY <1>8 DEF Reporting
  <2>2. i \in 2..Len(s)
    BY <1>1, <1>2, <1>8, <2>1, ZenonT(30)
  <2> QED
    BY <1>1, <2>1, <2>2, Zenon DEF Reporting
<1>9. Reporting(t) => Reporting(s)
  BY <1>1, <1>3 DEF Reporting
<1> QED
  BY <1>4, <1>5, <1>6, <1>7, <1>8, <1>9 DEF t

\* A step of an error path.
LEMMA Popping ==
  ASSUME IInv, pc = "unwind", Pop, todo' \in Seq(Tasks), phase' = phase,
         Ledger', held' \in [OwnerNames -> SUBSET Nat], handed' = handed,
         clean' \in BOOLEAN, markers' \subseteq Markers,
         Unwinding', RollbackMarkersTruthful'
  PROVE  IInv'
<1>1. pc' = "unwind" /\ build' = build
  BY DEF Pop
<1>2. Types'
  BY <1>1 DEF IInv, Types, Over
<1>3. Stock'
  BY <1>1, Zenon DEF Stock, Working, Placing, Building, Describing, Returning, Leaving
<1>4. Crossed'
  BY <1>1 DEF IInv, Crossed, Left
<1>5. InStep'
  BY <1>1 DEF IInv, InStep, Placing, Building, Returning, Over
<1> QED
  BY <1>2, <1>3, <1>4, <1>5, ZenonT(30) DEF IInv

\* An explicit release: a refusal clears clean, and what is announced later
\* still counts on this owner only if all of it went.
LEMMA ReleasingStep ==
  ASSUME IInv, NEW mode \in {"try", "once"}, NEW o \in OwnerNames, Doing(mode, o), Pop,
         NEW freed \in SUBSET held[o],
         Ledger', held' \in [OwnerNames -> SUBSET Nat],
         held'[o] \subseteq held[o],
         mode = "once" \/ freed = held[o] => held'[o] = {},
         \A q \in OwnerNames \ {o} : held'[q] = held[q],
         live' \subseteq live, freed = held[o] => refused' \subseteq refused,
         handed' = handed, clean' = (clean /\ freed = held[o]),
         UNCHANGED <<result, markers>>, phase' = phase
  PROVE  IInv'
<1>1. /\ pc = "unwind" /\ todo \in Seq(Tasks) /\ todo # <<>> /\ Head(todo) = <<mode, o>>
      /\ todo' = Tail(todo) /\ pc' = "unwind"
  BY ZenonT(30) DEF Doing, Pop, IInv, Types
<1>2. /\ Orderly(todo)
      /\ \A q \in OwnerNames : held[q] # {} => Discards(todo, q)
      /\ \A j \in 1..Len(todo) :
            /\ clean
            /\ todo[j][1] = "marker" \/ (todo[j][1] = "report" /\ result \in Truthful)
            => /\ refused = {}
               /\ \A q \in Announced(todo[j]) :
                    held[q] # {} => ReleasesBefore(todo, j, q)
      /\ result \in Truthful =>
            /\ ~clean => Reporting(todo)
            /\ clean /\ ~Reporting(todo) =>
                 refused = {} /\ \A q \in OwnerNames : held[q] = {}
  BY <1>1, ZenonT(30) DEF IInv, Unwinding, Over
<1>3. \A q \in OwnerNames : held'[q] \subseteq held[q]
  OBVIOUS
<1>4. Orderly(todo')
  BY <1>1, <1>2, RestDoes, ZenonT(30)
<1>5. \A q \in OwnerNames : held'[q] # {} => Discards(todo', q)
  <2> SUFFICES ASSUME NEW q \in OwnerNames, held'[q] # {} PROVE Discards(todo', q)
    BY Zenon
  <2>1. Discards(todo, q)
    BY <1>2, <1>3, ZenonT(30)
  <2>2. Head(todo) \notin {<<"drop", q>>, <<"once", q>>}
    BY <1>1
  <2> QED
    BY <1>1, <2>1, <2>2, RestDoes, ZenonT(30)
<1>6. ASSUME NEW j \in 1..Len(todo'), clean',
             todo'[j][1] = "marker" \/ (todo'[j][1] = "report" /\ result' \in Truthful)
      PROVE  /\ refused' = {}
             /\ \A q \in Announced(todo'[j]) : held'[q] # {} => ReleasesBefore(todo', j, q)
  <2>1. clean /\ freed = held[o] /\ held'[o] = {} /\ refused' \subseteq refused
    BY <1>6, Zenon
  <2>2. j + 1 \in 2..Len(todo) /\ j + 1 \in 1..Len(todo) /\ todo'[j] = todo[j + 1]
    BY <1>1, RestOf, SMTT(30)
  <2>3. /\ refused = {}
        /\ \A q \in Announced(todo'[j]) : held[q] # {} => ReleasesBefore(todo, j + 1, q)
    BY <1>2, <1>6, <2>1, <2>2, Zenon
  <2>4. ASSUME NEW q \in Announced(todo'[j]), held'[q] # {}
        PROVE  ReleasesBefore(todo', j, q)
    <3>1. q \in OwnerNames /\ q # o
      BY <2>1, <2>4 DEF Announced, OwnerNames
    <3>2. ReleasesBefore(todo, j + 1, q)
      BY <1>3, <2>3, <2>4, <3>1, Zenon
    <3>3. Head(todo) \notin {<<"try", q>>, <<"once", q>>}
      BY <1>1, <3>1
    <3> QED
      BY <1>1, <3>2, <3>3, RestDoes, ZenonT(30)
  <2> QED
    BY <2>1, <2>3, <2>4
<1>7. Reporting(todo) <=> Reporting(todo')
  <2>1. Head(todo) # <<"report", "Free">>
    BY <1>1
  <2> QED
    BY <1>1, <2>1, RestDoes
<1>8. result' \in Truthful =>
        /\ ~clean' => Reporting(todo')
        /\ clean' /\ ~Reporting(todo') =>
             refused' = {} /\ \A q \in OwnerNames : held'[q] = {}
  BY <1>2, <1>3, <1>7, Zenon
<1>9. Unwinding'
  BY <1>1, <1>4, <1>5, <1>6, <1>8, Zenon DEF Unwinding, Over
<1>10. RollbackMarkersTruthful'
  BY DEF IInv, RollbackMarkersTruthful
<1>11. todo' \in Seq(Tasks) /\ markers' \subseteq Markers /\ clean' \in BOOLEAN
  BY <1>1, RestOf DEF IInv, Types
<1> QED
  BY <1>1, <1>9, <1>10, <1>11, Popping, ZenonT(30)

LEMMA UnwindReleaseStep ==
  ASSUME IInv, NEW o \in OwnerNames, NEW freed \in SUBSET held[o],
         UnwindTry(o, freed) \/ UnwindOnce(o, freed)
  PROVE  IInv'
<1>0. Types /\ Ledger
  BY DEF IInv
<1>1. CASE UnwindTry(o, freed)
  <2>1. /\ Doing("try", o) /\ TryRelease(o, freed) /\ Pop
        /\ clean' = (clean /\ freed = held[o]) /\ UNCHANGED <<result, markers>>
    BY <1>1 DEF UnwindTry
  <2>2. phase' = phase
    BY <2>1, OtherCallStays, ZenonT(30) DEF TryRelease, GiveBack
  <2>3. /\ Ledger' /\ held' \in [OwnerNames -> SUBSET Nat]
        /\ held'[o] = held[o] \ freed /\ handed' = handed
        /\ \A q \in OwnerNames \ {o} : held'[q] = held[q]
        /\ live' \subseteq live /\ (freed = held[o] => refused' \subseteq refused)
    BY <1>0, <2>1, TryEffect, ZenonT(30)
  <2>4. held'[o] \subseteq held[o] /\ ("try" = "once" \/ freed = held[o] => held'[o] = {})
    BY <2>3
  <2> QED
    BY <2>1, <2>2, <2>3, <2>4, ReleasingStep, ZenonT(30)
<1>2. CASE UnwindOnce(o, freed)
  <2>1. /\ Doing("once", o) /\ DropOwner(o, freed) /\ Pop
        /\ clean' = (clean /\ freed = held[o]) /\ UNCHANGED <<result, markers>>
    BY <1>2 DEF UnwindOnce
  <2>2. phase' = phase
    BY <2>1, OtherCallStays, ZenonT(30) DEF DropOwner, GiveBack
  <2>3. /\ Ledger' /\ held' \in [OwnerNames -> SUBSET Nat]
        /\ held'[o] = {} /\ handed' = handed
        /\ \A q \in OwnerNames \ {o} : held'[q] = held[q]
        /\ live' \subseteq live /\ (freed = held[o] => refused' \subseteq refused)
    BY <1>0, <2>1, DropEffect
  <2>4. held'[o] \subseteq held[o] /\ ("once" = "once" \/ freed = held[o] => held'[o] = {})
    BY <2>3, Zenon
  <2> QED
    BY <2>1, <2>2, <2>3, <2>4, ReleasingStep, Zenon
<1> QED
  BY <1>1, <1>2

\* A destructor: nothing is announced any more, so a refusal is only recorded.
LEMMA UnwindDropStep ==
  ASSUME IInv, NEW o \in OwnerNames, NEW freed \in SUBSET held[o], UnwindDrop(o, freed)
  PROVE  IInv'
<1>0. Types /\ Ledger
  BY DEF IInv
<1>1. /\ pc = "unwind" /\ todo \in Seq(Tasks) /\ todo # <<>> /\ Head(todo) = <<"drop", o>>
      /\ todo' = Tail(todo) /\ pc' = "unwind" /\ Pop /\ DropOwner(o, freed)
      /\ UNCHANGED <<clean, result, markers>>
  BY <1>0 DEF UnwindDrop, Doing, Pop, Types
<1>2. /\ Orderly(todo)
      /\ \A q \in OwnerNames : held[q] # {} => Discards(todo, q)
      /\ \A j \in 1..Len(todo) :
            /\ clean
            /\ todo[j][1] = "marker" \/ (todo[j][1] = "report" /\ result \in Truthful)
            => /\ refused = {}
               /\ \A q \in Announced(todo[j]) :
                    held[q] # {} => ReleasesBefore(todo, j, q)
      /\ result \in Truthful =>
            /\ ~clean => Reporting(todo)
            /\ clean /\ ~Reporting(todo) =>
                 refused = {} /\ \A q \in OwnerNames : held[q] = {}
  BY <1>1, Zenon DEF IInv, Unwinding, Over
<1>3. /\ Ledger' /\ held' \in [OwnerNames -> SUBSET Nat]
      /\ held'[o] = {} /\ handed' = handed /\ live' \subseteq live
      /\ \A q \in OwnerNames \ {o} : held'[q] = held[q]
      /\ held[o] = {} => refused' \subseteq refused
  BY <1>0, <1>1, DropEffect, Zenon
<1>4. phase' = phase
  BY <1>1, OtherCallStays, ZenonT(30) DEF DropOwner, GiveBack
<1>5. Orderly(todo') /\ \A j \in 1..Len(todo') : ~Announces(todo', j)
  <2>1. Head(todo)[1] \notin {"try", "once"}
    BY <1>1
  <2>2. Orderly(todo)
    BY <1>2, Zenon
  <2> QED
    BY <1>1, <2>1, <2>2, RestDoes, ZenonT(30)
<1>6. \A j \in 1..Len(todo') : todo'[j][1] # "marker" /\ todo'[j][1] # "report"
  BY <1>5, Zenon DEF Announces
<1>7. \A q \in OwnerNames : held'[q] # {} => Discards(todo', q)
  <2> SUFFICES ASSUME NEW q \in OwnerNames, held'[q] # {} PROVE Discards(todo', q)
    BY Zenon
  <2>1. q # o /\ Discards(todo, q)
    BY <1>2, <1>3, Zenon
  <2>2. Head(todo) \notin {<<"drop", q>>, <<"once", q>>}
    BY <1>1, <2>1
  <2> QED
    BY <1>1, <2>1, <2>2, RestDoes, ZenonT(30)
<1>8. ~Reporting(todo') /\ ~Reporting(todo)
  <2>1. ~Reporting(todo')
    BY <1>6 DEF Reporting
  <2>2. Head(todo) # <<"report", "Free">>
    BY <1>1, SMTT(30)
  <2> QED
    BY <1>1, <2>1, <2>2, RestDoes, Zenon
<1>9. Unwinding'
  <2>1. result' \in Truthful => clean' /\ refused' = {} /\ \A q \in OwnerNames : held'[q] = {}
    BY <1>1, <1>2, <1>3, <1>8, ZenonT(30)
  <2> QED
    BY <1>1, <1>5, <1>6, <1>7, <2>1, Zenon DEF Unwinding, Over
<1>10. RollbackMarkersTruthful'
  BY <1>1, <1>3 DEF IInv, RollbackMarkersTruthful
<1>11. todo' \in Seq(Tasks) /\ markers' \subseteq Markers /\ clean' \in BOOLEAN
  BY <1>0, <1>1, RestOf, Zenon DEF Types
<1> QED
  BY <1>1, <1>3, <1>4, <1>9, <1>10, <1>11, Popping, ZenonT(30)

\* A clean report or marker comes when what it announces is gone.
LEMMA NothingLeft ==
  ASSUME IInv, pc = "unwind", todo # <<>>, clean,
         Head(todo)[1] = "marker" \/ (Head(todo)[1] = "report" /\ result \in Truthful)
  PROVE  refused = {} /\ \A o \in Announced(Head(todo)) : held[o] = {}
<1>1. todo \in Seq(Tasks) /\ 1 \in 1..Len(todo) /\ todo[1] = Head(todo)
  BY RestOf, ZenonT(30) DEF IInv, Types
<1>2. refused = {} /\ \A o \in Announced(todo[1]) : held[o] # {} => ReleasesBefore(todo, 1, o)
  BY <1>1, Zenon DEF IInv, Unwinding, Over
<1>3. \A o : ~ReleasesBefore(todo, 1, o)
  BY DEF ReleasesBefore
<1> QED
  BY <1>1, <1>2, <1>3

\* The answer of an explicit release is looked at.
LEMMA ReportStep ==
  ASSUME IInv, Report("Free")
  PROVE  IInv'
<1>0. Types /\ Ledger
  BY DEF IInv
<1>1. /\ pc = "unwind" /\ todo \in Seq(Tasks) /\ todo # <<>>
      /\ Head(todo) = <<"report", "Free">>
      /\ todo' = Tail(todo) /\ pc' = "unwind" /\ Pop /\ UNCHANGED pages
      /\ result' = (IF clean THEN result ELSE "Free")
      /\ UNCHANGED <<clean, markers>> /\ phase' = phase
  BY <1>0, ZenonT(30) DEF Report, Doing, Pop, Types, boundary
<1>2. /\ Orderly(todo)
      /\ \A q \in OwnerNames : held[q] # {} => Discards(todo, q)
      /\ \A j \in 1..Len(todo) :
            /\ clean
            /\ todo[j][1] = "marker" \/ (todo[j][1] = "report" /\ result \in Truthful)
            => /\ refused = {}
               /\ \A q \in Announced(todo[j]) :
                    held[q] # {} => ReleasesBefore(todo, j, q)
      /\ result \in Truthful =>
            /\ ~clean => Reporting(todo)
            /\ clean /\ ~Reporting(todo) =>
                 refused = {} /\ \A q \in OwnerNames : held[q] = {}
  BY <1>1, Zenon DEF IInv, Unwinding, Over
<1>3. /\ Ledger' /\ held' \in [OwnerNames -> SUBSET Nat]
      /\ held' = held /\ refused' = refused /\ handed' = handed /\ live' = live
  BY <1>0, <1>1, PagesStay, SMTT(30)
<1>4. Orderly(todo') /\ \A j \in 1..Len(todo') : ~Announces(todo', j)
  <2>1. Head(todo)[1] \notin {"try", "once"}
    BY <1>1
  <2>2. Orderly(todo)
    BY <1>2, Zenon
  <2> QED
    BY <1>1, <2>1, <2>2, RestDoes, ZenonT(30)
<1>5. \A j \in 1..Len(todo') : todo'[j][1] # "marker" /\ todo'[j][1] # "report"
  BY <1>4 DEF Announces
<1>6. \A q \in OwnerNames : held'[q] # {} => Discards(todo', q)
  <2> SUFFICES ASSUME NEW q \in OwnerNames, held'[q] # {} PROVE Discards(todo', q)
    BY Zenon
  <2>1. Discards(todo, q)
    BY <1>2, <1>3
  <2>2. Head(todo) \notin {<<"drop", q>>, <<"once", q>>}
    BY <1>1
  <2> QED
    BY <1>1, <2>1, <2>2, RestDoes, Zenon
<1>7. result' \in Truthful => clean' /\ refused' = {} /\ \A q \in OwnerNames : held'[q] = {}
  <2>1. "Free" \notin Truthful /\ Announced(Head(todo)) = OwnerNames
    BY <1>1 DEF Truthful, Announced
  <2> QED
    BY <1>1, <1>3, <2>1, NothingLeft
<1>8. Unwinding'
  BY <1>1, <1>4, <1>5, <1>6, <1>7, ZenonT(30) DEF Unwinding, Over
<1>9. RollbackMarkersTruthful'
  BY <1>1, <1>3 DEF IInv, RollbackMarkersTruthful
<1>10. todo' \in Seq(Tasks) /\ markers' \subseteq Markers /\ clean' \in BOOLEAN
  BY <1>0, <1>1, RestOf DEF Types
<1> QED
  BY <1>1, <1>3, <1>8, <1>9, <1>10, Popping, ZenonT(30)

\* A rollback marker is written after the releases it announces.
LEMMA MarkerStep ==
  ASSUME IInv, NEW marker \in Markers, WriteRollbackMarker(marker)
  PROVE  IInv'
<1>0. Types /\ Ledger
  BY DEF IInv
<1>1. /\ pc = "unwind" /\ todo \in Seq(Tasks) /\ todo # <<>>
      /\ Head(todo) = <<"marker", marker>>
      /\ todo' = Tail(todo) /\ pc' = "unwind" /\ Pop /\ UNCHANGED pages
      /\ markers' = (IF clean THEN markers \cup {marker} ELSE markers)
      /\ UNCHANGED <<clean, result>> /\ phase' = phase
  BY <1>0, ZenonT(30) DEF WriteRollbackMarker, Doing, Pop, Types, boundary
<1>2. /\ Orderly(todo)
      /\ \A q \in OwnerNames : held[q] # {} => Discards(todo, q)
      /\ \A j \in 1..Len(todo) :
            /\ clean
            /\ todo[j][1] = "marker" \/ (todo[j][1] = "report" /\ result \in Truthful)
            => /\ refused = {}
               /\ \A q \in Announced(todo[j]) :
                    held[q] # {} => ReleasesBefore(todo, j, q)
      /\ result \in Truthful =>
            /\ ~clean => Reporting(todo)
            /\ clean /\ ~Reporting(todo) =>
                 refused = {} /\ \A q \in OwnerNames : held[q] = {}
  BY <1>1 DEF IInv, Unwinding, Over
<1>3. /\ Ledger' /\ held' \in [OwnerNames -> SUBSET Nat]
      /\ held' = held /\ refused' = refused /\ handed' = handed /\ live' = live
  BY <1>0, <1>1, PagesStay, SMTT(30)
<1>4. Orderly(todo') /\ \A j \in 1..Len(todo') : ~Announces(todo', j)
  <2>1. Head(todo)[1] \notin {"try", "once"}
    BY <1>1
  <2>2. Orderly(todo)
    BY <1>2, Zenon
  <2> QED
    BY <1>1, <2>1, <2>2, RestDoes, ZenonT(30)
<1>5. \A j \in 1..Len(todo') : todo'[j][1] # "marker" /\ todo'[j][1] # "report"
  BY <1>4, Zenon DEF Announces
<1>6. \A q \in OwnerNames : held'[q] # {} => Discards(todo', q)
  <2> SUFFICES ASSUME NEW q \in OwnerNames, held'[q] # {} PROVE Discards(todo', q)
    BY SMTT(30)
  <2>1. Discards(todo, q)
    BY <1>2, <1>3
  <2>2. Head(todo) \notin {<<"drop", q>>, <<"once", q>>}
    BY <1>1
  <2> QED
    BY <1>1, <2>1, <2>2, RestDoes, Zenon
<1>7. ~Reporting(todo)
  <2>1. ~Reporting(todo')
    BY <1>5 DEF Reporting
  <2>2. Head(todo) # <<"report", "Free">>
    BY <1>1, SMTT(30)
  <2> QED
    BY <1>1, <2>1, <2>2, RestDoes
<1>8. Unwinding'
  <2>1. result' \in Truthful => clean' /\ refused' = {} /\ \A q \in OwnerNames : held'[q] = {}
    BY <1>1, <1>2, <1>3, <1>7
  <2> QED
    BY <1>1, <1>4, <1>5, <1>6, <2>1, SMTT(30) DEF Unwinding, Over
<1>9. RollbackMarkersTruthful'
  <2>1. CASE ~clean
    BY <1>1, <1>3, <2>1, ZenonT(30) DEF IInv, RollbackMarkersTruthful
  <2>2. CASE clean
    <3>1. refused = {} /\ \A q \in Announced(<<"marker", marker>>) : held[q] = {}
      BY <1>1, <2>2, NothingLeft
    <3>2. handed = {}
      BY <1>1 DEF IInv, Crossed, Left
    <3>3. \A p \in live : \E q \in OwnerNames : \E i \in held[q] : p = <<q, i>>
      BY <1>0, <3>1, <3>2 DEF Ledger
    <3>4. marker = "cpu_rollback" => live = {}
      BY <3>1, <3>3, Zenon DEF Announced
    <3>5. marker = "table_rollback" => live \cap ({"tables"} \X Nat) = {}
      BY <3>1, <3>3 DEF Announced
    <3> QED
      BY <1>1, <1>3, <2>2, <3>4, <3>5, ZenonT(30) DEF IInv, RollbackMarkersTruthful
  <2> QED
    BY <2>1, <2>2, ZenonT(30)
<1>10. todo' \in Seq(Tasks) /\ markers' \subseteq Markers /\ clean' \in BOOLEAN
  BY <1>0, <1>1, RestOf DEF Types
<1> QED
  BY <1>1, <1>3, <1>8, <1>9, <1>10, Popping

\* load_verify_and_release returns.
LEMMA ReturnStep ==
  ASSUME IInv, Return
  PROVE  IInv'
<1>0. Types /\ Ledger
  BY DEF IInv
<1>1. /\ pc = "unwind" /\ todo = <<>> /\ pc' = "returned" /\ UNCHANGED pages
      /\ UNCHANGED <<build, todo, clean, result, markers, phase>>
  BY DEF Return, Goto, control, boundary
<1>2. /\ Ledger' /\ held' \in [OwnerNames -> SUBSET Nat]
      /\ held' = held /\ refused' = refused /\ handed' = handed /\ live' = live
  BY <1>0, <1>1, PagesStay
<1>3. Types'
  BY <1>0, <1>1, <1>2, Zenon DEF Types, Over
<1>4. Stock'
  BY <1>1, Zenon DEF Stock, Working, Placing, Building, Describing, Returning, Leaving
<1>5. Crossed'
  BY <1>1, <1>2, ZenonT(30) DEF IInv, Crossed, Left
<1>6. InStep'
  BY <1>1, Zenon DEF IInv, InStep, Placing, Building, Returning, Over
<1>7. Unwinding'
  BY <1>1, <1>2, ZenonT(30) DEF IInv, Unwinding, Over
<1>8. RollbackMarkersTruthful'
  BY <1>1, <1>2 DEF IInv, RollbackMarkersTruthful
<1> QED
  BY <1>2, <1>3, <1>4, <1>5, <1>6, <1>7, <1>8 DEF IInv

-----------------------------------------------------------------------------
(* The exit protocol.                                                       *)

\* Boot services are only called outside the protocol before its final map and
\* on an error path.
LEMMA CallsAreAllowed ==
  ASSUME IInv, OtherCall, pc \in (Working \ {"final_map", "cross"}) \cup Over
  PROVE  Exit!CallOtherService
<1>1. phase \in {"provisional", "prepared", "rolled_back"}
  BY DEF IInv, InStep, Working, Placing, Building, Describing, Returning, Leaving, Over
<1> QED
  BY <1>1 DEF Exit!CallOtherService, OtherCall

\* Every step of the loader and of the firmware is a step of ExitBoundary or
\* leaves its variables alone.
LEMMA BoundaryStep ==
  ASSUME IInv, [Next]_vars
  PROVE  [Exit!Next]_(Exit!vars)
<1> DEFINE Quietly == OtherCall \/ UNCHANGED boundary
<1>0. ASSUME Quietly, OtherCall => pc \in (Working \ {"final_map", "cross"}) \cup Over
      PROVE  [Exit!Next]_(Exit!vars)
  BY <1>0, CallsAreAllowed DEF Exit!Next, Exit!vars, boundary
<1>1. ASSUME NEW ok \in BOOLEAN, Checks(ok) PROVE [Exit!Next]_(Exit!vars)
  <2>1. CASE DisableWatchdog(ok)
    BY <2>1 DEF DisableWatchdog, Exit!Next, Exit!Loader
  <2>2. CASE OpenKernel(ok) \/ ReadKernel(ok) \/ ProbeOwnership(ok) \/ DescribeMemory(ok)
    <3>1. Quietly /\ pc \in {"load", "read", "probe", "describe"}
      BY <2>2 DEF OpenKernel, ReadKernel, ProbeOwnership, DescribeMemory, Check, Acquire,
         Allocate
    <3> QED
      BY <1>0, <3>1 DEF Working, Describing
  <2>3. CASE UNCHANGED boundary
    BY <2>3 DEF boundary, Exit!vars
  <2> QED
    BY <1>1, <2>1, <2>2, <2>3 DEF Checks, PlanTargets, ZeroTargets, CopyTargets,
       VerifyTargets, RecheckSource, MatchMetadata, PlanTables, MaterializeTables,
       VerifyTables, ValidateCpu, ClassifyHierarchy, ConvertMap, ConfirmReservation,
       Finalize, JumpToKernel
<1>2. ASSUME \/ AllocateTarget \/ AllocateStack \/ AllocateFrame \/ AllocateBuffer
             \/ AllocateTargetFails \/ AllocateStackFails \/ AllocateFrameFails
             \/ AllocateBufferFails
      PROVE  [Exit!Next]_(Exit!vars)
  <2>1. Quietly /\ pc \in {"allocate", "stack", "tables", "buffers"}
    BY <1>2 DEF AllocateTarget, AllocateStack, AllocateFrame, AllocateBuffer,
       AllocateTargetFails, AllocateStackFails, AllocateFrameFails, AllocateBufferFails,
       Acquire, Allocate
  <2> QED
    BY <1>0, <2>1, ZenonT(30) DEF Working, Placing, Building, Describing
<1>3. ASSUME CheckCr3First \/ CheckCr3Second \/ CheckCr3Third \/ BuildExitReady
               \/ CrossExitBoundary \/ FirmwareChangesCr3 \/ UNCHANGED vars
      PROVE  [Exit!Next]_(Exit!vars)
  BY <1>3, Zenon DEF CheckCr3First, CheckCr3Second, CheckCr3Third, BuildExitReady,
     CrossExitBoundary, FirmwareChangesCr3, vars, boundary, Exit!vars
<1>4. ASSUME NEW status \in Exit!MapStatus,
             CaptureMap(status) \/ CaptureFinalMap(status) \/ CaptureAgain(status)
      PROVE  [Exit!Next]_(Exit!vars)
  BY <1>4 DEF CaptureMap, CaptureFinalMap, CaptureAgain, Exit!Next, Exit!Loader
<1>5. ASSUME NEW status \in Exit!ExitAnswers, AttemptExit(status)
      PROVE  [Exit!Next]_(Exit!vars)
  BY <1>5 DEF AttemptExit, Exit!Next, Exit!Loader
<1>6. ASSUME Releases PROVE [Exit!Next]_(Exit!vars)
  <2>1. Quietly /\ pc \in {"allocate", "release_source", "stack"} \cup Returning
    BY <1>6, Zenon DEF Releases, AllocateTargetMismatch, ReleaseSource, RejectStack,
       ReleaseInfo, ReleaseKernel, ProbeRelease, TakeAndReturn, TryRelease, DropOwner,
       GiveBack, Returning
  <2> QED
    BY <1>0, <2>1 DEF Working, Placing, Returning
<1>7. ASSUME Unwind PROVE [Exit!Next]_(Exit!vars)
  <2>1. ASSUME NEW o, NEW freed, UnwindTry(o, freed) \/ UnwindOnce(o, freed)
                                   \/ UnwindDrop(o, freed)
        PROVE  Quietly /\ pc = "unwind"
    BY <2>1 DEF UnwindTry, UnwindOnce, UnwindDrop, Doing, TryRelease, DropOwner, GiveBack
  <2>2. ASSUME Report("Free") \/ Return \/ \E marker \in Markers : WriteRollbackMarker(marker)
        PROVE  Quietly /\ pc = "unwind"
    BY <2>2, ZenonT(30) DEF Report, WriteRollbackMarker, Return, Doing
  <2>3. Quietly /\ pc = "unwind"
    BY <1>7, <2>1, <2>2 DEF Unwind
  <2> QED
    BY <1>0, <2>3, ZenonT(30) DEF Over
<1>8. ASSUME FirmwareChangesMap PROVE [Exit!Next]_(Exit!vars)
  BY <1>8, Zenon DEF FirmwareChangesMap, Exit!Next
<1> QED
  BY <1>1, <1>2, <1>3, <1>4, <1>5, <1>6, <1>7, <1>8, ZenonT(30) DEF Next, Loader, Terminated

-----------------------------------------------------------------------------
(* Allocations, counted by what their owner has.                            *)

\* How many pages an owner has that allocates them in order.
Counting == \A n \in Nat : Cardinality(1..n) = n

\* Segments are allocated one after the other.
LEMMA AllocateTargetStep ==
  ASSUME Counting, IInv, AllocateTarget
  PROVE  IInv'
<1> USE DEF Working, Placing, Building, Describing, Returning, Leaving
<1>0. Types /\ Ledger /\ Stock /\ InStep /\ (pc \in Working => refused = {})
  BY Zenon DEF IInv, Stock
<1>1. /\ pc = "allocate" /\ Acquire("kernel", NextSegment) /\ phase' = phase
      /\ Goto(IF NextSegment = Segments THEN "zero" ELSE "allocate")
  BY ZenonT(30) DEF AllocateTarget, Acquire, Allocate, OtherCall
<1>2. PICK n \in 0..(Segments - 1) : held["kernel"] = 1..n
  BY <1>0, <1>1 DEF Stock
<1>3. n \in Nat /\ Segments \in Nat /\ NextSegment = n + 1 /\ n + 1 \in Nat
  BY <1>2, BootPipelineAssumption DEF Counting, NextSegment
<1>4. /\ Ledger' /\ held' \in [OwnerNames -> SUBSET Nat]
      /\ held' = [held EXCEPT !["kernel"] = held["kernel"] \cup {n + 1}]
      /\ UNCHANGED <<handed, refused>>
  BY <1>0, <1>1, <1>3, AcquireEffect, ZenonT(30) DEF OwnerNames
<1>5. held'["kernel"] = 1..(n + 1) /\ \A o \in OwnerNames \ {"kernel"} : held'[o] = held[o]
  <2>1. (1..n) \cup {n + 1} = 1..(n + 1)
    BY <1>3
  <2> QED
    BY <1>0, <1>2, <1>4, <2>1 DEF Types, OwnerNames
<1>6. refused' = {} /\ build' = build
      /\ pc' = IF n + 1 = Segments THEN "zero" ELSE "allocate"
  BY <1>0, <1>1, <1>3, <1>4 DEF Goto
<1>7. Stock'
  <2>1. CASE n + 1 = Segments
    BY <1>0, <1>1, <1>5, <1>6, <2>1, Zenon DEF Stock, OwnerNames, Handoff
  <2>2. CASE n + 1 # Segments
    <3>1. n + 1 \in 0..(Segments - 1)
      BY <1>2, <1>3, <2>2, SMTT(30)
    <3> QED
      BY <1>0, <1>1, <1>5, <1>6, <2>2, <3>1, Zenon DEF Stock, OwnerNames, Handoff
  <2> QED
    BY <2>1, <2>2, Zenon
<1>8. InStep'
  BY <1>0, <1>1, <1>6, Zenon DEF InStep, Over
<1>9. Goto(pc') /\ pc' \in Working
  BY <1>1, <1>6, Zenon DEF Goto
<1> QED
  BY <1>1, <1>4, <1>7, <1>8, <1>9, Moving, ZenonT(30)

\* Page-table frames are allocated one after the other.
LEMMA AllocateFrameStep ==
  ASSUME Counting, IInv, AllocateFrame
  PROVE  IInv'
<1> USE DEF Working, Placing, Building, Describing, Returning, Leaving
<1>0. Types /\ Ledger /\ Stock /\ InStep /\ (pc \in Working => refused = {})
  BY Zenon DEF IInv, Stock
<1>1. /\ pc = "tables" /\ Acquire("tables", NextFrame) /\ phase' = phase
      /\ Goto(IF NextFrame = Frames THEN "materialize" ELSE "tables")
  BY ZenonT(30) DEF AllocateFrame, Acquire, Allocate, OtherCall
<1>2. PICK n \in 0..(Frames - 1) : held["tables"] = 1..n
  BY <1>0, <1>1 DEF Stock
<1>3. n \in Nat /\ Frames \in Nat /\ NextFrame = n + 1 /\ n + 1 \in Nat
  BY <1>2, BootPipelineAssumption DEF Counting, NextFrame
<1>4. /\ Ledger' /\ held' \in [OwnerNames -> SUBSET Nat]
      /\ held' = [held EXCEPT !["tables"] = held["tables"] \cup {n + 1}]
      /\ UNCHANGED <<handed, refused>>
  BY <1>0, <1>1, <1>3, AcquireEffect, Zenon DEF OwnerNames
<1>5. held'["tables"] = 1..(n + 1) /\ \A o \in OwnerNames \ {"tables"} : held'[o] = held[o]
  <2>1. (1..n) \cup {n + 1} = 1..(n + 1)
    BY <1>3
  <2> QED
    BY <1>0, <1>2, <1>4, <2>1, Zenon DEF Types, OwnerNames
<1>6. refused' = {} /\ build' = build
      /\ pc' = IF n + 1 = Frames THEN "materialize" ELSE "tables"
  BY <1>0, <1>1, <1>3, <1>4, Zenon DEF Goto
<1>7. Stock'
  <2>1. CASE n + 1 = Frames
    BY <1>0, <1>1, <1>5, <1>6, <2>1, ZenonT(30) DEF Stock, OwnerNames, Handoff
  <2>2. CASE n + 1 # Frames
    <3>1. n + 1 \in 0..(Frames - 1)
      BY <1>2, <1>3, <2>2
    <3> QED
      BY <1>0, <1>1, <1>5, <1>6, <2>2, <3>1, Zenon DEF Stock, OwnerNames, Handoff
  <2> QED
    BY <2>1, <2>2
<1>8. InStep'
  BY <1>0, <1>1, <1>6 DEF InStep, Over
<1>9. Goto(pc') /\ pc' \in Working
  BY <1>1, <1>6, Zenon DEF Goto
<1> QED
  BY <1>1, <1>4, <1>7, <1>8, <1>9, Moving, ZenonT(30)

\* The four buffers of PendingBuffers are allocated one after the other.
LEMMA AllocateBufferStep ==
  ASSUME Counting, IInv, AllocateBuffer
  PROVE  IInv'
<1> USE DEF Working, Placing, Building, Describing, Returning, Leaving
<1>0. Types /\ Ledger /\ Stock /\ InStep /\ (pc \in Working => refused = {})
  BY DEF IInv, Stock
<1>1. /\ pc = "buffers" /\ Acquire("buffers", NextBuffer) /\ phase' = phase
      /\ Goto(IF NextBuffer = Pieces.buffers THEN "describe" ELSE "buffers")
  BY Zenon DEF AllocateBuffer, Acquire, Allocate, OtherCall
<1>2. PICK n \in 0..3 : held["buffers"] = 1..n
  BY <1>0, <1>1, Zenon DEF Stock
<1>3. n \in Nat /\ Pieces.buffers \in Nat /\ NextBuffer = n + 1 /\ n + 1 \in Nat
  BY <1>2, BootPipelineAssumption DEF Counting, NextBuffer, Pieces
<1>4. /\ Ledger' /\ held' \in [OwnerNames -> SUBSET Nat]
      /\ held' = [held EXCEPT !["buffers"] = held["buffers"] \cup {n + 1}]
      /\ UNCHANGED <<handed, refused>>
  BY <1>0, <1>1, <1>3, AcquireEffect, Zenon DEF OwnerNames
<1>5. held'["buffers"] = 1..(n + 1) /\ \A o \in OwnerNames \ {"buffers"} : held'[o] = held[o]
  <2>1. (1..n) \cup {n + 1} = 1..(n + 1)
    BY <1>3
  <2> QED
    BY <1>0, <1>2, <1>4, <2>1 DEF Types, OwnerNames
<1>6. refused' = {} /\ build' = build
      /\ pc' = IF n + 1 = Pieces.buffers THEN "describe" ELSE "buffers"
  BY <1>0, <1>1, <1>3, <1>4 DEF Goto
<1>7. Stock'
  <2>1. CASE n + 1 = Pieces.buffers
    BY <1>0, <1>1, <1>5, <1>6, <2>1, Zenon DEF Stock, OwnerNames, Handoff, Pieces
  <2>2. CASE n + 1 # Pieces.buffers
    <3>1. n + 1 \in 0..3
      BY <1>2, <1>3, <2>2, SMTT(30) DEF Pieces
    <3> QED
      BY <1>0, <1>1, <1>5, <1>6, <2>2, <3>1, ZenonT(30) DEF Stock, OwnerNames, Handoff
  <2> QED
    BY <2>1, <2>2
<1>8. InStep'
  BY <1>0, <1>1, <1>6, Zenon DEF InStep, Over
<1>9. Goto(pc') /\ pc' \in Working
  BY <1>1, <1>6, Zenon DEF Goto
<1> QED
  BY <1>1, <1>4, <1>7, <1>8, <1>9, Moving, ZenonT(30)

-----------------------------------------------------------------------------
(* The invariant.                                                           *)

LEMMA InitInv == Init => IInv
<1> SUFFICES ASSUME Init PROVE IInv
  OBVIOUS
<1> USE DEF Init
<1>1. pc = "load" /\ phase = "provisional" /\ \A o \in OwnerNames : held[o] = {}
  BY OwnersAre, Zenon DEF Exit!Init
<1>2. Types
  BY <1>1, OwnersAre, BootPipelineAssumption DEF Types, Working
<1>3. Ledger
  BY <1>1, Zenon DEF Ledger
<1>4. Stock
  BY <1>1, Zenon DEF Stock, Placing, Building, Describing, Returning, Leaving, OwnerNames
<1>5. Crossed
  BY <1>1, Zenon DEF Crossed, Left
<1>6. InStep
  BY <1>1, Zenon DEF InStep, Placing, Building, Returning, Over
<1>7. Unwinding
  BY <1>1, Zenon DEF Unwinding, Over
<1>8. RollbackMarkersTruthful
  BY Zenon DEF RollbackMarkersTruthful
<1> QED
  BY <1>2, <1>3, <1>4, <1>5, <1>6, <1>7, <1>8, Zenon DEF IInv

LEMMA NextInv ==
  ASSUME Counting, IInv, [Next]_vars
  PROVE  IInv'
<1>1. ASSUME NEW ok \in BOOLEAN, Checks(ok) PROVE IInv'
  BY <1>1, OpenStep, ReadChecks, TargetChecks, MetadataCheck, ProbeCheck, PlanTablesCheck,
     HierarchyChecks, CpuCheck, DescribeCheck, ConvertCheck, LeavingChecks,
     WatchdogStep, BeyondSteps, ZenonT(30)
  DEF Checks
<1>2. ASSUME AllocateTarget \/ AllocateStack \/ AllocateFrame \/ AllocateBuffer
      PROVE  IInv'
  BY <1>2, AllocateTargetStep, StackStep, AllocateFrameStep, AllocateBufferStep, ZenonT(30)
<1>3. ASSUME AllocateTargetFails \/ AllocateStackFails \/ AllocateFrameFails
               \/ AllocateBufferFails
      PROVE  IInv'
  BY <1>3, AllocationFails
<1>4. ASSUME CheckCr3First \/ CheckCr3Second \/ CheckCr3Third \/ BuildExitReady
               \/ CrossExitBoundary
      PROVE  IInv'
  <2>1. TRUE \in BOOLEAN
    BY Zenon
  <2> QED
    BY <1>4, <2>1, HierarchyChecks, LeavingChecks, BeyondSteps, CrossStep, Zenon
<1>5. ASSUME NEW status,
             CaptureMap(status) \/ CaptureFinalMap(status) \/ CaptureAgain(status)
               \/ AttemptExit(status)
      PROVE  IInv'
  BY <1>5, CaptureMapStep, FinalMapStep, BeyondSteps, ZenonT(30)
<1>6. ASSUME Releases PROVE IInv'
  BY <1>6, MisplacedStep, ReleaseSourceStep, ReleaseInfoStep, ReleaseKernelStep,
     ProbeReleaseStep, ZenonT(30)
  DEF Releases
<1>7. ASSUME Unwind PROVE IInv'
  BY <1>7, OwnersAre, UnwindReleaseStep, UnwindDropStep, ReportStep, MarkerStep, ReturnStep, ZenonT(30)
  DEF Unwind
<1>8. ASSUME FirmwareChangesMap \/ FirmwareChangesCr3 \/ UNCHANGED vars PROVE IInv'
  BY <1>8, FirmwareSteps, ZenonT(30)
<1> QED
  BY <1>1, <1>2, <1>3, <1>4, <1>5, <1>6, <1>7, <1>8, ZenonT(30) DEF Next, Loader, Terminated

\* A finished error path has given up every owner.
LEMMA NothingHeldAtReturn ==
  ASSUME IInv, pc = "returned"
  PROVE  /\ handed = {} /\ (\A o \in OwnerNames : held[o] = {}) /\ ~Reporting(todo)
         /\ live \subseteq refused
<1>1. todo = <<>> /\ pc \in Over /\ pc \notin Left
  BY DEF IInv, Unwinding, Over, Left
<1>2. Len(<<>>) = 0 /\ 1..0 = {}
  OBVIOUS
<1>3. (\A o : ~Discards(todo, o)) /\ ~Reporting(todo)
  BY <1>1, <1>2 DEF Discards, Reporting
<1>4. handed = {} /\ \A o \in OwnerNames : held[o] = {}
  BY <1>1, <1>3, ZenonT(30) DEF IInv, Unwinding, Crossed
<1> QED
  BY <1>3, <1>4, ZenonT(30) DEF IInv, Ledger

\* What the invariant says of the pages.
LEMMA PagesFollow == IInv => PagesAreAccountedFor
BY NothingHeldAtReturn DEF IInv, Ledger, PagesAreAccountedFor, FreesOnlyHeldPages,
   NoSilentLeak

\* What the invariant says of the results and of the rollback markers.
LEMMA ReportsFollow == IInv => ReportsAreTruthful
<1>1. ASSUME IInv PROVE ResultIsTruthful
  <2> SUFFICES ASSUME pc = "returned", result \in Truthful PROVE live = {}
    BY Zenon DEF ResultIsTruthful, Truthful
  <2>1. clean
    BY <1>1, NothingHeldAtReturn, Zenon DEF IInv, Unwinding, Over, Types
  <2>2. refused = {}
    BY <1>1, <2>1, NothingHeldAtReturn, ZenonT(30) DEF IInv, Unwinding, Over
  <2> QED
    BY <1>1, <2>2, NothingHeldAtReturn
<1> QED
  BY <1>1 DEF IInv, ReportsAreTruthful

\* What the invariant says of the pages the kernel gets.
LEMMA HandoffFollows == IInv => HandoffIsComplete
<1>1. ASSUME IInv, pc = "kernel"
      PROVE  /\ handed = {p \in Pages : p[1] # "source" /\ p[2] # 0}
             /\ live = handed /\ cr3 = token
  <2>1. /\ Handoff /\ cr3 = token /\ refused = {} /\ handed \subseteq live
        /\ \A o \in OwnerNames : held[o] = {}
        /\ handed = {p \in Pages : p[1] # "source" /\ p[2] # 0}
    BY <1>1, ZenonT(30) DEF IInv, Stock, Crossed, Left
  <2>2. live \subseteq handed
    BY <1>1, <2>1, Zenon DEF IInv, Ledger
  <2> QED
    BY <2>1, <2>2, ZenonT(30)
<1> QED
  BY <1>1 DEF HandoffIsComplete

\* A step that leaves pages handed over frees and takes none.
LEMMA NothingFreedStep ==
  ASSUME IInv, IInv', [Next]_vars, handed' # {}
  PROVE  live' = live
<1>1. pc' \in Left
  BY Zenon DEF IInv, Crossed
<1>2. pc' \notin Over /\ pc' \notin {"read", "zero", "allocate", "plan_tables",
        "materialize", "tables", "describe", "buffers", "probe", "release_kernel",
        "release_probe"}
  BY <1>1 DEF Left, Over
<1>3. ASSUME NEW ok \in BOOLEAN, Checks(ok) PROVE live' = live
  BY <1>2, <1>3, Zenon DEF Checks, OpenKernel, ReadKernel, PlanTargets, ZeroTargets, CopyTargets,
     VerifyTargets, RecheckSource, MatchMetadata, ProbeOwnership, PlanTables,
     MaterializeTables, VerifyTables, ValidateCpu, ClassifyHierarchy, DescribeMemory,
     ConvertMap, ConfirmReservation, DisableWatchdog, Finalize, JumpToKernel, Check,
     Goto, Fail, pages, Over
<1>4. ~(AllocateTarget \/ AllocateStack \/ AllocateFrame \/ AllocateBuffer)
  BY <1>2, Zenon DEF AllocateTarget, AllocateStack, AllocateFrame, AllocateBuffer, Goto
<1>5. ASSUME AllocateTargetFails \/ AllocateStackFails \/ AllocateFrameFails
               \/ AllocateBufferFails
      PROVE  live' = live
  BY <1>5, ZenonT(30) DEF AllocateTargetFails, AllocateStackFails, AllocateFrameFails,
     AllocateBufferFails, pages
<1>6. ASSUME CheckCr3First \/ CheckCr3Second \/ CheckCr3Third \/ BuildExitReady
               \/ CrossExitBoundary
      PROVE  live' = live
  BY <1>6 DEF CheckCr3First, CheckCr3Second, CheckCr3Third, BuildExitReady,
     CrossExitBoundary, Check, pages
<1>7. ASSUME NEW status,
             CaptureMap(status) \/ CaptureFinalMap(status) \/ CaptureAgain(status)
               \/ AttemptExit(status)
      PROVE  live' = live
  BY <1>7, Zenon DEF CaptureMap, CaptureFinalMap, CaptureAgain, AttemptExit, pages
<1>8. ~Releases
  BY <1>2, Zenon DEF Releases, AllocateTargetMismatch, ReleaseSource, RejectStack, ReleaseInfo,
     ReleaseKernel, ProbeRelease, Goto, Fail, Over
<1>9. ~Unwind
  BY <1>2, Zenon DEF Unwind, UnwindTry, UnwindOnce, UnwindDrop, Report, WriteRollbackMarker,
     Return, Doing, Pop, Goto, Over
<1>10. ASSUME FirmwareChangesMap \/ FirmwareChangesCr3 \/ UNCHANGED vars
       PROVE  live' = live
  BY <1>10 DEF FirmwareChangesMap, FirmwareChangesCr3, vars, pages
<1> QED
  BY <1>3, <1>4, <1>5, <1>6, <1>7, <1>8, <1>9, <1>10, ZenonT(30) DEF Next, Loader, Terminated

-----------------------------------------------------------------------------
(* The theorems.                                                            *)

INSTANCE FiniteSetTheorems

LEMMA CountOf == Counting
<1> SUFFICES ASSUME NEW n \in Nat PROVE Cardinality(1..n) = n
  BY DEF Counting
<1>1. Cardinality(1..n) = IF 1 > n THEN 0 ELSE n - 1 + 1
  BY FS_Interval
<1> QED
  BY <1>1

\* The invariant the theorems rest on.
THEOREM Invariance == Spec => []IInv
<1>1. IInv /\ [Next]_vars => IInv'
  BY CountOf, NextInv, ZenonT(30)
<1> QED
  BY <1>1, InitInv, PTL DEF Spec

\* Whichever frees the firmware refuses, and for any number of segments and
\* tables: no page is freed twice, and none is left behind silently when
\* load_verify_and_release returns.
THEOREM PagesTheorem == Spec => []PagesAreAccountedFor
BY PagesFollow, Invariance, PTL

\* Every error that is returned instead of Free, success, and both rollback
\* markers are true of the pages that are left.
THEOREM ReportsTheorem == Spec => []ReportsAreTruthful
BY ReportsFollow, Invariance, PTL

\* The kernel is entered with every segment, the stack, every table and the
\* four buffers allocated and handed over, and with the CR3 that was checked.
THEOREM HandoffTheorem == Spec => []HandoffIsComplete
BY HandoffFollows, Invariance, PTL

\* Once cross_exit_boundary has disarmed the owners no step frees or takes a page.
THEOREM NothingFreedTheorem == Spec => NothingFreedAfterBoundary
<1>1. IInv /\ IInv' /\ [Next]_vars => [handed' # {} => live' = live]_vars
  BY NothingFreedStep
<1> QED
  BY <1>1, Invariance, PTL DEF Spec, NothingFreedAfterBoundary

\* The whole loader, with all its allocations, releases and error paths, keeps to
\* the exit protocol.
THEOREM BoundaryTheorem == Spec => ImplementsBoundary
<1>1. Init => Exit!Init
  BY DEF Init
<1>2. IInv /\ [Next]_vars => [Exit!Next]_(Exit!vars)
  BY BoundaryStep, ZenonT(30)
<1> QED
  BY <1>1, <1>2, Invariance, PTL DEF Spec, ImplementsBoundary, Exit!Spec

\* After the exit the bytes finalize_post_exit converts are the map of that
\* moment.
THEOREM LoaderFinalMap == Spec => []FinalMapIsCurrent
<1>1. Exit!FinalMapIsCurrent => FinalMapIsCurrent
  BY DEF FinalMapIsCurrent
<1> QED
  BY <1>1, FinalMapTheorem, BoundaryTheorem, PTL DEF ImplementsBoundary

\* The loader gives up the exit itself only when the firmware failed otherwise
\* or invalidated two keys.
THEOREM LoaderRetries == Spec => []GivesUpOnlyWhenRefused
<1>1. Exit!GivesUpOnlyWhenRefused => GivesUpOnlyWhenRefused
  BY DEF GivesUpOnlyWhenRefused
<1> QED
  BY <1>1, RetryTheorem, BoundaryTheorem, PTL DEF ImplementsBoundary

\* No allocation, release or marker of the loader comes between a capture and
\* the exit call that uses its key.
THEOREM LoaderFreshKey == Spec => KeyIsFresh
<1> QED
  BY FreshKeyTheorem, BoundaryTheorem, PTL DEF ImplementsBoundary, KeyIsFresh

=============================================================================
