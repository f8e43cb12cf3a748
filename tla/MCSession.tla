----------------------------- MODULE MCSession -----------------------------
(* Instances of Session for TLC: two devices. *)
EXTENDS Session

CONSTANTS alice, bob
=============================================================================
