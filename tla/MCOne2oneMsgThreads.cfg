CONSTANTS
  Alice = Alice
  Bob = Bob
  Thread = {api, reader}
  api = api
  reader = reader
  MaxMsgs = 2
  MAX_SKIPPED_MESSAGE_KEY_NODES = 2
  Serialised = FALSE
  Crashing = FALSE
SPECIFICATION Spec
INVARIANT RootsAlternate
CHECK_DEADLOCK FALSE
