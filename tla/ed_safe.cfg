SPECIFICATION Spec
CONSTANTS
  s1 = s1
  s2 = s2
  t1 = t1
  t2 = t2
  p1 = p1
  p2 = p2
  Signal <- Signals
  Account = {1, 2}
  Task <- Tasks
  Pass <- Passes
  NoSignal = NoSignal
  NoAccount = NoAccount
  Nobody = Nobody
  Setting <- Safe
SYMMETRY Symmetry
INVARIANTS TypeOK AtMostOnce ReservationCovers HeldUntilKnown NeverOvercommitted BookedOnce
PROPERTY OneAccount
CHECK_DEADLOCK FALSE
