SPECIFICATION Spec
CONSTANTS
  alice = alice
  bob = bob
  claire = claire
  claire2 = claire2
  Late = {}
  Creator = alice
  Device = {alice, bob, claire}
  Founders <- OfThree
  Adding <- Nobody
  Removing <- Nobody
  Leaving = {}
  Lossy = {}
  Ordered = FALSE
  Redelivered = {}
  MaxSeeds = 1
  MaxCalls = 0
  MaxMsgs = 0
  MaxLost = 0
INVARIANT EveryoneCanSend
CHECK_DEADLOCK FALSE
