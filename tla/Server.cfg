SPECIFICATION Spec
VIEW View
CONSTANTS
  User <- Users
  Registered = {"ann"}
  Card <- Cards
  BigCard = {"photo"}
  Request <- AllRequests
  Plugin <- Plugins
  Pass = {"watch"}
  MaxHandlers = 13
  MaxRegs = 14
  MaxGen = 2
  Faults = TRUE
INVARIANTS TypeOK ExitReleases 
PROPERTIES AnsweredOnce BlockingIsWhole
