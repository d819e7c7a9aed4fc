SPECIFICATION FairSpec
CONSTANTS
  MaxSessions = 2
  MaxCalls = 2
  Concurrent = TRUE
  ServerIds = {}
  Faults = {"write", "exit"}
INVARIANTS
  TypeOK LoggedInOrder SessionLinked
PROPERTIES
  QueueDrains
