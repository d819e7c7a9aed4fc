SPECIFICATION Spec
CONSTANTS
  MaxCalls = 4
  MaxBoots = 3
  RotateAfter = 2
  Trigger = "records"
  IntervalRecords = 2
  TailLines = 2
  Ops = {"record", "checkpoint", "break"}
  Forcing = {TRUE, FALSE}
  Faults = {"write", "rename", "damage"}
INVARIANTS
  ChainLinked
PROPERTIES
  ImplementsLinkedLedger
