CONSTANTS
  Alice = Alice
  Bob = Bob
  Thread = {api}
  api = api
  reader = reader
  MaxMsgs = 3
  MAX_SKIPPED_MESSAGE_KEY_NODES = 1
  Serialised = TRUE
  Crashing = FALSE
SPECIFICATION Spec
INVARIANTS
  TypeOK
  NoReplay
  SkippedKeysExact
  StaysDecryptable
  RootsAlternate
  KeyUsedOnce
  ForwardSecrecy
  OldestPruned
PROPERTY ImplementsChannel
CHECK_DEADLOCK FALSE
