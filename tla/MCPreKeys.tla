----------------------------- MODULE MCPreKeys -----------------------------
(* Instances of PreKeys for TLC. *)
EXTENDS PreKeys

CONSTANT alice
=============================================================================
