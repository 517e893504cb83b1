SPECIFICATION FairSpec
CONSTANTS
  MaxTasks = 3
  Workers = {w1, w2}
  NoWorker = NoWorker
  Operators = {}
  Requests = {}
  MaxRequests = 0
INVARIANTS
  RequirementsFirst
  SoleRunner
PROPERTIES
  MovesForward
  RunnableTaskSettles
