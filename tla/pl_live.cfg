SPECIFICATION FairSpec
CONSTANTS
  Sig = {s1, s2}
  Rec = {r1}
  NoTask = NoTask
  Setting <- Live
  MaxLot = 3
  MaxStops = 8
  MaxExits = 2
  MaxEntries = 2
INVARIANTS Truthful WorkingIsPending
PROPERTIES ExitsResolve EventuallyProtected ArbiterSpec
CHECK_DEADLOCK FALSE
