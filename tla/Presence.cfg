SPECIFICATION FairSpec
CONSTANTS
  a1 = a1
  a2 = a2
  b1 = b1
  alice = alice
  bob = bob
  r1 = r1
  r2 = r2
  User = {alice, bob}
  Resource = {r1, r2}
  None = none
  Conn = {a1, a2, b1}
  MayBind <- OwnJids
  Priorities <- OnePriority
  CarbonsSet = {}
  MaySend <- Silence
  Subscribers <- Mutual
  Blockable <- NoBlock
  Cap = 3
  MaxMsgs = 0
  MaxWrites = 2
  Size <- SmallMessages
  BufSize = 1
  OfflineMaxMessages = 1
  OfflineMaxBytes = 2
  Faults = FALSE
INVARIANTS
  TypeOK
  NoDanglingWriter
  OneEntryPerJid
  BestIsMaximal
  
  NoGhostPresence
PROPERTIES
  ClosedIsForgotten
  ImplementsConnLife
CHECK_DEADLOCK FALSE
