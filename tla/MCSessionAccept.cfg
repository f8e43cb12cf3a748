SPECIFICATION Spec
CONSTANTS
  alice = alice
  bob = bob
  Device = {alice, bob}
  MaxInvites = 1
  MaxMsgs = 2
  MaxClock = 1
  MaxEncaps = 2
  Outcome = {"ok", "unanswered"}
  Redelivered = {}
  Inviter = {alice}
  Reinviter = {}
INVARIANTS NotAhead
CHECK_DEADLOCK FALSE
