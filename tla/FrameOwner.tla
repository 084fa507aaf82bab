------------------------------ MODULE FrameOwner ------------------------------
(***************************************************************************)
(* Ownership of the frames of an inactive page-table hierarchy             *)
(* (crates/memory-layout/src/frame_owner.rs).  IncompleteFrameOwner        *)
(* collects one frame per planned table; a failure rolls back in reverse   *)
(* and leaves a FrameOwnerBuildError that the caller may retry or drop.    *)
(* Success moves the frames into PageTableFrameOwner, which is released,   *)
(* transferred to the post-exit state or dropped.                          *)
(*                                                                         *)
(* The two owners are never alive together, so they share frames and len.  *)
(* Every backend call is one step, and the firmware decides its outcome:   *)
(* it may refuse an allocation, a zeroing or a free, and may return an     *)
(* address that is out of policy or already handed out.                    *)
(***************************************************************************)
EXTENDS Naturals, FiniteSets

CONSTANTS
  Addr,       \* addresses the firmware may return
  ValidAddr,  \* those PhysicalFrame::new accepts
  CAPACITY,   \* frames an owner has room for
  NoFrame,    \* contents of an array slot never written
  MaxTables   \* bound on plan.table_count()

ASSUME FrameOwnerAssumption ==
  /\ ValidAddr \subseteq Addr
  /\ NoFrame \notin Addr
  /\ CAPACITY \in Nat \ {0}
  /\ MaxTables \in Nat \ {0}

Slots == 1..CAPACITY

Stages == {"start", "allocate", "zero", "rollback", "build_error",
           "drop_error", "owned", "releasing", "drop_owner", "gone"}

VARIABLES
  planned,  \* plan.table_count()
  stage,    \* where the code is
  frames,   \* frames: [u64; CAPACITY]
  len,      \* number of frames still owned
  owned,    \* PageTableFrameOwner.owned
  root,     \* PageTableFrameOwner.root
  handed,   \* frames of TransferredPageTableFrames
  live,     \* firmware: pages it counts as allocated to this owner
  freed,    \* firmware: pages it took back
  refused,  \* firmware: pages whose last free it refused
  zeroed,   \* frames whose 4096 bytes were cleared
  faults    \* frees of a page that was not allocated

owner == <<frames, len, owned, root, handed>>
firmware == <<live, freed, refused, faults>>
vars == <<planned, stage, owner, firmware, zeroed>>

Held == {frames[i] : i \in 1..len}

Init ==
  /\ planned \in 1..MaxTables
  /\ stage = "start"
  /\ frames = [i \in Slots |-> NoFrame]
  /\ len = 0
  /\ owned = FALSE
  /\ root = NoFrame
  /\ handed = {}
  /\ live = {}
  /\ freed = {}
  /\ refused = {}
  /\ zeroed = {}
  /\ faults = {}

-----------------------------------------------------------------------------
(* The backend.                                                            *)

AllocatePages(a) ==
  /\ live' = live \cup {a}
  /\ UNCHANGED <<freed, refused, faults>>

FreePages(a, accepted) ==
  /\ live' = IF accepted THEN live \ {a} ELSE live
  /\ freed' = IF accepted THEN freed \cup {a} ELSE freed
  /\ refused' = IF accepted THEN refused \ {a} ELSE refused \cup {a}
  /\ faults' = IF a \in live THEN faults ELSE faults \cup {a}

Push(a) ==
  /\ frames' = [frames EXCEPT ![len + 1] = a]
  /\ len' = len + 1
  /\ UNCHANGED <<owned, root, handed>>

\* One iteration of a release loop: free the last recorded frame.
\* try_release keeps a frame whose free was refused, Drop forgets it.
FreeLast(accepted, keepRefused) ==
  /\ len # 0
  /\ FreePages(frames[len], accepted)
  /\ len' = IF keepRefused /\ ~accepted THEN len ELSE len - 1
  /\ UNCHANGED <<planned, frames, owned, root, handed, zeroed>>

Move(from, to) ==
  /\ stage = from
  /\ stage' = to
  /\ UNCHANGED <<planned, owner, firmware, zeroed>>

-----------------------------------------------------------------------------
(* PageTableFrameOwner::allocate                                           *)

CheckCapacity ==
  Move("start", IF planned > CAPACITY THEN "build_error" ELSE "allocate")

AllocationFails == len < planned /\ Move("allocate", "rollback")

Obtain(a) ==
  /\ stage = "allocate"
  /\ len < planned
  /\ AllocatePages(a)
  /\ UNCHANGED <<planned, zeroed>>

\* Faulty: a repeated address is recorded like any other.
AllocatesDuplicateRecorded(a) ==
  a \in Held /\ Obtain(a) /\ Push(a) /\ stage' = "rollback"

\* An address equal to an earlier one is not recorded a second time.
AllocatesDuplicate(a) ==
  a \in Held /\ Obtain(a) /\ stage' = "rollback" /\ UNCHANGED owner

\* Faulty: an address out of policy is not recorded.
AllocatesInvalidForgotten(a) ==
  a \notin Held \cup ValidAddr /\ Obtain(a) /\ stage' = "rollback" /\ UNCHANGED owner

\* An address out of policy is recorded, so that the rollback frees it too.
AllocatesInvalid(a) ==
  a \notin Held \cup ValidAddr /\ Obtain(a) /\ Push(a) /\ stage' = "rollback"

AllocatesFrame(a) ==
  a \in ValidAddr \ Held /\ Obtain(a) /\ Push(a) /\ stage' = "zero"

Zero(cleared, failed) ==
  /\ stage = "zero"
  /\ stage' = IF cleared THEN "allocate" ELSE failed
  /\ zeroed' = IF cleared THEN zeroed \cup {frames[len]} ELSE zeroed
  /\ UNCHANGED <<planned, owner, firmware>>

\* Faulty: the result of zero_frame is ignored.
ZeroFrameUnchecked(cleared) == Zero(cleared, "allocate")

ZeroFrame(cleared) == Zero(cleared, "rollback")

Build ==
  /\ stage = "allocate"
  /\ len = planned
  /\ stage' = "owned"
  /\ owned' = TRUE
  /\ root' = frames[1]
  /\ UNCHANGED <<planned, frames, len, handed, firmware, zeroed>>

-----------------------------------------------------------------------------
(* IncompleteFrameOwner and FrameOwnerBuildError                           *)

RollbackStep(accepted) ==
  /\ stage = "rollback"
  /\ FreeLast(accepted, TRUE)
  /\ stage' = IF accepted THEN stage ELSE "build_error"

RollbackDone == len = 0 /\ Move("rollback", "build_error")

\* FrameOwnerBuildError::try_release called again by the caller.
RetryRollback == Move("build_error", "rollback")

DropBuildError == Move("build_error", "drop_error")

\* Faulty: Drop goes back to try_release at the first refusal.
DropErrorStepRetries(accepted) ==
  /\ stage = "drop_error"
  /\ FreeLast(accepted, TRUE)
  /\ stage' = IF accepted THEN stage ELSE "rollback"

DropErrorStep(accepted) ==
  stage = "drop_error" /\ FreeLast(accepted, FALSE) /\ UNCHANGED stage

DropErrorDone == len = 0 /\ Move("drop_error", "gone")

-----------------------------------------------------------------------------
(* The complete owner.                                                     *)

TryRelease == Move("owned", "releasing")

\* Faulty: the owner is released in allocation order.
ReleaseStepForward(accepted) ==
  /\ stage = "releasing"
  /\ owned
  /\ len # 0
  /\ FreePages(frames[planned + 1 - len], accepted)
  /\ len' = IF accepted THEN len - 1 ELSE len
  /\ stage' = IF accepted THEN stage ELSE "owned"
  /\ UNCHANGED <<planned, frames, owned, root, handed, zeroed>>

ReleaseStep(accepted) ==
  /\ stage = "releasing"
  /\ owned
  /\ FreeLast(accepted, TRUE)
  /\ stage' = IF accepted THEN stage ELSE "owned"

ReleaseDone ==
  /\ stage = "releasing"
  /\ ~owned \/ len = 0
  /\ owned' = (owned /\ len # 0)
  /\ stage' = "owned"
  /\ UNCHANGED <<planned, frames, len, root, handed, firmware, zeroed>>

HandOver(armed) ==
  /\ stage = "owned"
  /\ owned' = armed
  /\ handed' = Held
  /\ stage' = "drop_owner"
  /\ UNCHANGED <<planned, frames, len, root, firmware, zeroed>>

\* transfer(self) copies the metadata; self is dropped when it returns.
Transfer == HandOver(FALSE)

DropOwner == Move("owned", "drop_owner")

DropOwnerStep(accepted) ==
  stage = "drop_owner" /\ owned /\ FreeLast(accepted, FALSE) /\ UNCHANGED stage

DropOwnerDone ==
  /\ stage = "drop_owner"
  /\ ~owned \/ len = 0
  /\ owned' = FALSE
  /\ stage' = "gone"
  /\ UNCHANGED <<planned, frames, len, root, handed, firmware, zeroed>>

\* Nothing is left to run once the last owner is gone.
Terminated == stage = "gone" /\ UNCHANGED vars

-----------------------------------------------------------------------------
\* Steps of a call in progress; the caller may make the other ones or not.
Running ==
  \/ CheckCapacity \/ AllocationFails \/ Build
  \/ \E a \in Addr : \/ AllocatesDuplicate(a)
                     \/ AllocatesInvalid(a)
                     \/ AllocatesFrame(a)
  \/ \E answer \in BOOLEAN : \/ ZeroFrame(answer)
                             \/ RollbackStep(answer)
                             \/ DropErrorStep(answer)
                             \/ ReleaseStep(answer)
                             \/ DropOwnerStep(answer)
  \/ RollbackDone \/ DropErrorDone \/ ReleaseDone \/ DropOwnerDone

Calls == RetryRollback \/ DropBuildError \/ TryRelease \/ Transfer \/ DropOwner

Next == Running \/ Calls \/ Terminated

Spec == Init /\ [][Next]_vars

FairSpec == Spec /\ WF_vars(Running)
-----------------------------------------------------------------------------
(* Properties.                                                             *)

\* Every variable keeps its type; in particular the frame count never
\* exceeds the capacity of the array (frame_owner.rs:58 indexes it without
\* a test of its own).
TypeOK ==
  /\ planned \in 1..MaxTables
  /\ stage \in Stages
  /\ frames \in [Slots -> Addr \cup {NoFrame}]
  /\ len \in 0..CAPACITY
  /\ owned \in BOOLEAN
  /\ root \in Addr \cup {NoFrame}
  /\ handed \subseteq Addr
  /\ live \subseteq Addr
  /\ freed \subseteq Addr
  /\ refused \subseteq Addr
  /\ zeroed \subseteq Addr
  /\ faults \subseteq Addr

\* No sequence of failed allocations, refused frees, retries and drops frees
\* a page twice, or a page that was never allocated.
FreesOnlyHeldPages == faults = {}

\* A frame that transfer put into TransferredPageTableFrames is never given
\* back to the firmware, although the transferring owner is still dropped.
HandedFramesStayHeld == handed \subseteq live

\* While the complete owner is armed its frames are valid, different, zeroed
\* and still allocated, its root is the frame of slot 0, and the hierarchy
\* has a frame for every planned table unless a release gave some back.
OwnerIsComplete ==
  owned => /\ \A i \in 1..len : frames[i] \in ValidAddr \cap zeroed \cap live
           /\ \A i, j \in 1..len : frames[i] = frames[j] => i = j
           /\ root = frames[1]
           /\ stage = "owned" /\ freed = {} => len = planned

\* When the last owner is gone, a page that is neither back with the firmware
\* nor handed over is one whose free the firmware itself refused.
NoSilentLeak == stage = "gone" => live \ handed \subseteq refused

\* Every frame is accounted for through failed allocations, refused frees,
\* retries, transfer and drop: none is freed twice, none that was handed over
\* is freed at all, and none that the firmware would take back is left behind.
FramesAreAccountedFor == FreesOnlyHeldPages /\ HandedFramesStayHeld /\ NoSilentLeak

\* The root frame goes back last: no release leaves children of a root that
\* the firmware may reuse.
RootFreedLast ==
  [][(root \in freed' /\ root \notin freed) => len' = 0]_vars

\* A drop finishes even when the firmware refuses every free, and allocate
\* returns an owner or an error.
DropFinishes ==
  /\ stage \in {"drop_error", "drop_owner"} ~> stage = "gone"
  /\ stage = "start" ~> stage \in {"owned", "build_error"}

\* Seen from outside, a page is owned from its allocation until it is given
\* back, abandoned by a drop, or handed over with all the others at once.
pageStatus ==
  [a \in Addr |-> IF a \in handed THEN "transferred"
                  ELSE IF a \in Held THEN "owned"
                  ELSE IF a \in live THEN "abandoned"
                  ELSE IF a \in freed THEN "released"
                  ELSE "unowned"]

Ownership == INSTANCE PageOwnership WITH Page <- Addr, status <- pageStatus

\* The frame owner implements the abstract page owner.
ImplementsOwnership == Ownership!Spec
=============================================================================
