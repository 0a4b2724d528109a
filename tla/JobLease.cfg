CHECK_DEADLOCK FALSE
SPECIFICATION Spec
CONSTANTS
  p1 = p1
  p2 = p2
  Process <- Two
  Nobody = Nobody
  Ttl = 4
  Throttle = 1
  LockWait = 1
  MaxWork = 8
  MaxTime = 8
SYMMETRY Symmetry
INVARIANTS
  TypeOK
  LeaseInForce
  LoserFindsOut
PROPERTIES
  LeaseIsKept
