SPECIFICATION ElectionSpec
CONSTANTS
  Servers = {a, b, c}
  PingTimeout = 2
  MaxLaunches = 4
INVARIANTS
  OneServer
PROPERTIES
  TakesOver
CHECK_DEADLOCK FALSE
