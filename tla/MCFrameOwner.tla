----------------------------- MODULE MCFrameOwner -----------------------------
(* Model values for FrameOwner: three good addresses and one out of policy, *)
(* an owner of capacity three and plans of one to four tables.               *)
EXTENDS FrameOwner

CONSTANTS a1, a2, a3, bad

MCAddr == {a1, a2, a3, bad}
MCValidAddr == {a1, a2, a3}
=============================================================================
