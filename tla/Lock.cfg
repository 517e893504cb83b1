SPECIFICATION Spec
CONSTANTS
  Threads = {t1, t2}
  Timeout = 1
  Additional = 1
  MaxAcquires = 2
  MaxExtends = 1
  MaxFaults = 2
INVARIANTS
  HeldIsLocked
PROPERTIES
  ReleasedByOwner
  AcquireEnds
CHECK_DEADLOCK FALSE
