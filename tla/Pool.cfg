SPECIFICATION Spec
CONSTANTS
  Threads = {t1, t2}
  MaxConnections = 2
  MaxForks = 2
INVARIANTS
  Exclusive
  Accounted
  ParentKeepsItsSockets
PROPERTY CallsReturn
CHECK_DEADLOCK FALSE
