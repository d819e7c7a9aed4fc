SPECIFICATION FairSpec
CONSTANTS
  MaxFailures = 2
  MaxClients = 3
  MaxRequests = 2
  MaxReconnects = 2
INVARIANTS
  TypeOK RepairPending
PROPERTIES
  Recovers ShutdownSettles
