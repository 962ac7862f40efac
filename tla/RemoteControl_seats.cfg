CONSTANTS
  w1 = w1
  w2 = w2
  r1 = r1
  r2 = r2
  r3 = r3
  NoRequest = NoRequest
  Workstation <- TwoWorkstations
  Request <- TwoRequests
  Seats = 1
  Join = 1
  Limit = 2
  MaxTime = 3
SPECIFICATION Spec
SYMMETRY Symmetry2
CHECK_DEADLOCK FALSE
INVARIANTS
  TypeOK
  SeatedBound
  RevokedStaysClosed
  AlarmCovers
