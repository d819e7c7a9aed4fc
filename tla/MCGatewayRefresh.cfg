SPECIFICATION Spec
CONSTANTS
  Tools = {t1, t2}
  Defs = {d1, d2}
  AtStart = {d1}
  NoDef = NoDef
  Calls = {}
  Refreshes = {r1, r2}
  MaxChanges = 2
  Actions = {"record"}
  Faults = {"write", "exit"}
SYMMETRY Symmetry
INVARIANTS
  DriftFlagged DriftsLinked
