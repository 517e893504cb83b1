SPECIFICATION SentinelSpec
CONSTANTS
  Callers = {t1, t2}
  s1 = s1
  s2 = s2
  n1 = n1
  Sentinels = {s1, s2}
  Nodes = {n1, n2, n3}
  InitialList <- MCList
  InitialMaster = n1
  MaxFailovers = 1
  MaxFaults = 1
INVARIANTS
  IdleIsCurrent
PROPERTIES
  WritesReachTheMaster
  ConnectsAgain
CHECK_DEADLOCK FALSE
