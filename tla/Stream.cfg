SPECIFICATION FairSpec
CONSTANTS
  Users = {alice, bob}
  None = none
  MaxH = 1
  Unreadable = {bob}
INVARIANTS TypeOK TlsBeforeAuth  AuthFailureCap
PROPERTIES OneIdentity StaysClosed ErrorEndsConnection ImplementsConnLife
