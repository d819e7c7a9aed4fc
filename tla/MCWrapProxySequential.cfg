SPECIFICATION FairSpec
CONSTANTS
  MaxSessions = 2
  MaxCalls = 2
  Concurrent = FALSE
  ServerIds = {9}
  Faults = {"exit"}
INVARIANTS
  LogFollowsClient LogVerifies
PROPERTIES
  ImplementsLinkedLedger AnsweredIsLogged
