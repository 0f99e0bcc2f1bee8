SPECIFICATION FairSpec
CONSTANTS
  x = x
  y = y
  Args = {x, y}
  NoArgs = NoArgs
  MaxRows = 1
  MaxCalls = 2
  MaxStmts = 31
  MaxVersion = 2
  OldVersions <- Files
  Faults = TRUE
INVARIANTS
  TypeOK
  OwnStatement
  SchemaReady
  CacheSuffices
PROPERTY CallsReturn
CHECK_DEADLOCK FALSE
