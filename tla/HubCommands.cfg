CONSTANTS
  c1 = c1
  c2 = c2
  Client <- MCClient
  On <- MCOn
  MaxConn = 2
  MaxCommand = 2
  TTL = 2
  MaxTime = 2
SPECIFICATION Spec
CHECK_DEADLOCK FALSE
INVARIANTS
  TypeOK
  AtMostOnce
  InOrder
  AlarmCovers
