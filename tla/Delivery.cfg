SPECIFICATION OnlineSpec
CONSTANTS
  a1 = a1
  a2 = a2
  b1 = b1
  alice = alice
  bob = bob
  r1 = r1
  r2 = r2
  User = {alice, bob}
  Resource = {r1, r2}
  None = none
  Conn = {a1, a2, b1}
  MayBind <- SharedJid
  Priorities <- NoPriority
  CarbonsSet = {}
  MaySend <- Post
  Subscribers <- Nobody
  Blockable <- BobBlocks
  Cap = 2
  MaxMsgs = 3
  MaxWrites = 2
  Size <- SmallMessages
  BufSize = 1
  OfflineMaxMessages = 2
  OfflineMaxBytes = 3
  Faults = FALSE
INVARIANTS
  ExactlyOnce
  OfflineOnlyWhenAway
  InOrder
  
CHECK_DEADLOCK FALSE
VIEW WithoutPresence
