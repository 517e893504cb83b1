SPECIFICATION Spec
CONSTANTS
  MaxTasks = 2
  Workers = {w1, w2}
  NoWorker = NoWorker
  Operators = {o1, o2}
  Requests = {"pending", "finished", "failed", "deleted", "clear", "restart", "dead"}
  MaxRequests = 2
SYMMETRY Interchangeable
ACTION_CONSTRAINT Confined
INVARIANTS
  NoLostWakeup
  PrePendingWaits
  InListOfItsStatus
  WithdrawnIsCommanded
PROPERTIES
  GateSpec
CHECK_DEADLOCK FALSE
