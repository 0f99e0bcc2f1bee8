SPECIFICATION OneAwaySpec
CONSTANTS
  a1 = a1
  a2 = a2
  b1 = b1
  alice = alice
  bob = bob
  r1 = r1
  r2 = r2
  User = {alice, bob}
  Resource = {r1, r2}
  None = none
  Conn = {a1, a2, b1}
  MayBind <- SharedJid
  Priorities <- NoPriority
  CarbonsSet = {TRUE}
  MaySend <- Ring
  Subscribers <- Nobody
  Blockable <- NoBlock
  Cap = 2
  MaxMsgs = 2
  MaxWrites = 2
  Size <- SecondTooLarge
  BufSize = 1
  OfflineMaxMessages = 1
  OfflineMaxBytes = 2
  Faults = TRUE
INVARIANTS
  NoDanglingWriter
  OneEntryPerJid
  StoredIsKept
PROPERTIES
  EveryDeviceOnce
CHECK_DEADLOCK FALSE
VIEW WithoutPresence
