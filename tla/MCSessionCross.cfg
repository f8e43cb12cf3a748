SPECIFICATION Spec
CONSTANTS
  alice = alice
  bob = bob
  Device = {alice, bob}
  MaxInvites = 2
  MaxMsgs = 1
  MaxClock = 3
  MaxEncaps = 2
  Outcome = {"ok", "lost"}
  Redelivered = {"invite"}
  Inviter = {alice, bob}
  Reinviter = {}
INVARIANTS SessionLeft
CHECK_DEADLOCK FALSE
