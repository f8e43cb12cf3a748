CONSTANTS
  Alice = Alice
  Bob = Bob
  Thread = {api}
  api = api
  reader = reader
  MaxMsgs = 2
  MAX_SKIPPED_MESSAGE_KEY_NODES = 2
  Serialised = TRUE
  Crashing = TRUE
SPECIFICATION FairSpec
INVARIANTS
  NoReplay
  RootsAlternate
  KeyUsedOnce
PROPERTY EventuallyReceived
CHECK_DEADLOCK FALSE
