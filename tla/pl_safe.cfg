SPECIFICATION Spec
CONSTANTS
  Sig = {s1, s2}
  Rec = {r1, r2}
  NoTask = NoTask
  Setting <- Safe
  MaxLot = 3
  MaxStops = 8
  MaxExits = 3
  MaxEntries = 2
INVARIANTS TypeOK NeverOversold OneStop ClosedIsFlat CopiesAgree Checkpointed
SYMMETRY MCSymmetry
CHECK_DEADLOCK FALSE
