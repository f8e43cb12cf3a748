SPECIFICATION FairSpec
CONSTANTS
  a1 = a1
  a2 = a2
  b1 = b1
  User = {{a1, a2}, {b1}}
  Inviting <- BothInvite
  Sending <- AliceSends
  Removable = {a2}
  MaxInvites = 1
  MaxMsgs = 1
INVARIANTS  Meshed InvitesBounded CopiedOnce KeptWhileWaiting RemovedForgotten
PROPERTIES EventuallyCopied SettlesAgain
CHECK_DEADLOCK FALSE
