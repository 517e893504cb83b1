SPECIFICATION Spec
CONSTANTS
  MaxTasks = 1
  Workers = {w1}
  NoWorker = NoWorker
  Operators = {o1}
  Requests = {"finished"}
  MaxRequests = 1
SYMMETRY Interchangeable
PROPERTIES
  MarkFinishedGoesThrough
CHECK_DEADLOCK FALSE
