SPECIFICATION Spec
CONSTANTS
  MaxCalls = 3
  MaxBoots = 2
  RotateAfter = 2
  Trigger = "off"
  IntervalRecords = 1
  TailLines = 8
  Ops = {"record"}
  Forcing = {FALSE}
  Faults = {"crash"}
INVARIANTS
  ChainLinked
