SPECIFICATION OnlineSpec
CONSTANTS
  a1 = a1
  a2 = a2
  b1 = b1
  alice = alice
  bob = bob
  r1 = r1
  r2 = r2
  User = {alice, bob}
  Resource = {r1, r2}
  None = none
  Conn = {a1, a2, b1}
  MayBind <- OwnJids
  Priorities <- NoPriority
  CarbonsSet = {}
  MaySend <- Letters
  Subscribers <- Mutual
  Blockable <- AliceBlocks
  Cap = 3
  MaxMsgs = 1
  MaxWrites = 2
  Size <- SmallMessages
  BufSize = 1
  OfflineMaxMessages = 1
  OfflineMaxBytes = 2
  Faults = FALSE
INVARIANTS
  BlockedNotDelivered
CHECK_DEADLOCK FALSE
