SPECIFICATION FairSpec
CONSTANTS
  MaxCalls = 4
  MaxBoots = 1
  RotateAfter = 3
  Trigger = "whichever_first"
  IntervalRecords = 2
  TailLines = 8
  Ops = {"record", "tool_drift", "checkpoint", "break"}
  Forcing = {FALSE}
  Faults = {"write", "rename", "persist"}
INVARIANTS
  TypeOK HonestLogVerifies TruncationDetected DamageLocated CountersMatchLog
PROPERTIES
  ImplementsLedger CallsSettle
