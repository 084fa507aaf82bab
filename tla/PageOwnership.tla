---------------------------- MODULE PageOwnership ----------------------------
(***************************************************************************)
(* What every page owner of the loader promises, whatever its layout: a    *)
(* page is acquired from the firmware once, and then leaves the owner in   *)
(* exactly one way.  Either it is given back, or the owner is dropped      *)
(* while the firmware refuses to take it back (the page is abandoned), or  *)
(* all pages still owned are handed to the kernel in one step.  A page     *)
(* that was handed over is never touched again.                            *)
(***************************************************************************)
CONSTANT Page

VARIABLE status  \* "unowned", "owned", "released", "abandoned" or "transferred"

Init == status = [p \in Page |-> "unowned"]

Owned == {p \in Page : status[p] = "owned"}

Acquire(p) ==
  /\ status[p] = "unowned"
  /\ status' = [status EXCEPT ![p] = "owned"]

Release(p) ==
  /\ status[p] = "owned"
  /\ status' = [status EXCEPT ![p] = "released"]

Abandon(p) ==
  /\ status[p] = "owned"
  /\ status' = [status EXCEPT ![p] = "abandoned"]

TransferAll ==
  /\ Owned # {}
  /\ status' = [p \in Page |->
                 IF p \in Owned THEN "transferred" ELSE status[p]]

Next ==
  \/ \E p \in Page : Acquire(p) \/ Release(p) \/ Abandon(p)
  \/ TransferAll

Spec == Init /\ [][Next]_status
=============================================================================
