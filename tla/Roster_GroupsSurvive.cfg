SPECIFICATION Spec
CONSTANTS
  alice = alice
  bob = bob
  a1 = a1
  b1 = b1
  None = None
  User = {alice, bob}
  Session = {a1, b1}
  Owner <- Owners
  MayName <- EachOther
  Edits = TRUE
  DbFaults = FALSE
  VerCap = 2
PROPERTY GroupsSurvive
