CONSTANTS
  w1 = w1
  w2 = w2
  r1 = r1
  r2 = r2
  r3 = r3
  NoRequest = NoRequest
  Workstation = {w1}
  Request <- TwoRequests
  Seats = 1
  Join = 1
  Limit = 2
  MaxTime = 3
SPECIFICATION FairSpec
CHECK_DEADLOCK FALSE
PROPERTY SessionEnds
