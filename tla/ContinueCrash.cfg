SPECIFICATION Spec
CONSTANTS
  MaxTasks = 1
  Workers = {w1}
  NoWorker = NoWorker
  Procs = {p1, p2}
  NoProc = NoProc
  Scenarios <- OneCrash
PROPERTIES
  ContinueReleases
