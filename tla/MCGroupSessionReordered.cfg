SPECIFICATION Spec
CONSTANTS
  alice = alice
  bob = bob
  claire = claire
  claire2 = claire2
  Late = {}
  Creator = alice
  Device = {alice, bob, claire}
  Founders <- OfTwo
  Adding <- AddsClaire
  Removing <- RemovesBob
  Leaving = {bob}
  Lossy = {alice, bob}
  Ordered = FALSE
  Redelivered = {"group_msg"}
  MaxSeeds = 2
  MaxCalls = 3
  MaxMsgs = 2
  MaxLost = 1
INVARIANTS NoReplay GroupKeyUsedOnce OnlyMembersRead
CHECK_DEADLOCK FALSE
