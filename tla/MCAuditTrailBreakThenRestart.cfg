SPECIFICATION Spec
CONSTANTS
  MaxCalls = 4
  MaxBoots = 2
  RotateAfter = 2
  Trigger = "off"
  IntervalRecords = 1
  TailLines = 8
  Ops = {"record", "break"}
  Forcing = {FALSE}
  Faults = {}
INVARIANTS
  RestartAccepted
