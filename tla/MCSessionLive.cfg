SPECIFICATION FairSpec
CONSTANTS
  alice = alice
  bob = bob
  Device = {alice, bob}
  MaxInvites = 1
  MaxMsgs = 1
  MaxClock = 2
  MaxEncaps = 2
  Outcome = {"ok", "unanswered", "lost"}
  Redelivered = {}
  Inviter = {alice}
  Reinviter = {}
PROPERTIES EventuallyShared EventuallyHanded
CHECK_DEADLOCK FALSE
