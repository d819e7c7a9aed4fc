SPECIFICATION Spec
CONSTANTS
  MaxCalls = 4
  MaxBoots = 3
  RotateAfter = 2
  Trigger = "records"
  IntervalRecords = 2
  TailLines = 2
  Ops = {"record", "checkpoint"}
  Forcing = {FALSE}
  Faults = {"write", "torn", "rename", "crash"}
INVARIANTS
  FileLinked AcknowledgedInOrder LossBounded RestartAccepted
