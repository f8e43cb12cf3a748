SPECIFICATION Spec
CONSTANTS
  alice = alice
  bob = bob
  claire = claire
  claire2 = claire2
  Late <- TwoDevices
  Creator = alice
  Device = {alice, bob, claire, claire2}
  Founders <- AliceClaire
  Adding <- AddsBob
  Removing <- RemovesClaire
  Leaving = {bob}
  Lossy = {}
  Ordered = TRUE
  Redelivered = {}
  MaxSeeds = 2
  MaxCalls = 3
  MaxMsgs = 1
  MaxLost = 0
INVARIANTS TypeOK InSync
CHECK_DEADLOCK FALSE
