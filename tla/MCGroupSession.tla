--------------------------- MODULE MCGroupSession ---------------------------
(* Instances of GroupSession for TLC. *)
EXTENDS GroupSession

CONSTANTS alice, bob, claire, claire2

OfTwo == <<alice, bob>>

AliceClaire == <<alice, claire>>

OfThree == <<alice, bob, claire>>

Nobody == {}

AddsClaire == {<<alice, <<claire>>>>}

AddsBob == {<<alice, <<bob>>>>}

TwoDevices == {<<claire2, claire>>}

RemovesBob == {<<alice, bob>>}

RemovesClaire == {<<alice, claire>>}
=============================================================================
