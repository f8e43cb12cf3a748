------------------------------ MODULE MCDevices ------------------------------
(* Instances of Devices for TLC. *)
EXTENDS Devices

CONSTANTS a1, a2, b1

BothInvite == {<<a1, {b1}>>, <<b1, {a1, a2}>>}

AliceSends == {<<a1, {b1}>>}
=============================================================================
