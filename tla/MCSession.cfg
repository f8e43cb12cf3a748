SPECIFICATION Spec
CONSTANTS
  alice = alice
  bob = bob
  Device = {alice, bob}
  MaxInvites = 1
  MaxMsgs = 2
  MaxClock = 2
  MaxEncaps = 2
  Outcome = {"ok", "lost", "not_found"}
  Redelivered = {"invite", "one2one"}
  Inviter = {alice}
  Reinviter = {alice}
INVARIANTS TypeOK NoReplay EncapsAgree
PROPERTY CompletionStays
CHECK_DEADLOCK FALSE
