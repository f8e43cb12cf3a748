SPECIFICATION Spec
CONSTANTS
  alice = alice
  Account = {alice}
  ONE_TIME_PRE_KEY_INITIAL_NUM = 2
  ONE_TIME_PRE_KEY_PURGE_NUM = 1
  Outcome = {"ok", "lost"}
  MaxKeys = 8
  MaxInvites = 3
INVARIANTS TypeOK SameKeys OpkUsedOnce InviteUsable
CHECK_DEADLOCK FALSE
