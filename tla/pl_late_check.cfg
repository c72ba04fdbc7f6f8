SPECIFICATION Spec
CONSTANTS
  Sig = {s1}
  Rec = {r1}
  NoTask = NoTask
  Setting <- LateCheck
  MaxLot = 3
  MaxStops = 4
  MaxExits = 1
  MaxEntries = 2
INVARIANTS Solvent
CHECK_DEADLOCK FALSE
