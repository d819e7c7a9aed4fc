SPECIFICATION FairSpec
CONSTANTS
  Tools = {t1, t2}
  Defs = {d1, d2}
  AtStart = {d1}
  NoDef = NoDef
  Calls = {c1, c2}
  Refreshes = {r1}
  MaxChanges = 1
  Actions = {"disabled", "record_and_block"}
  Faults = {"write", "exit"}
INVARIANTS
  TypeOK BlockExplained
PROPERTIES
  ImplementsAuditedCalls CallsAnswered DriftsGetFlagged
