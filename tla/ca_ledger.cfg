SPECIFICATION Spec
CONSTANTS
  Key = {k1, k2}
  MaxOwned = 2
  MaxShort = 1
CONSTRAINT Bounded
INVARIANTS TypeOK ReservedIsInFlight NeverOvercommitted
PROPERTY HaltHolds
CHECK_DEADLOCK FALSE
