SPECIFICATION FairSpec
CONSTANTS
  MaxTasks = 2
  Workers = {w1}
  NoWorker = NoWorker
  Procs = {p1, p2, p3, p4}
  NoProc = NoProc
  Scenarios <- MCScenarios
INVARIANTS
  EveryProcessIsWatched
  OngoingIsAccounted
  OneProcessPerTask
PROPERTIES
  KilledStaysDead
  KillWins
  OngoingEnds
  CrashedIsReplaced
CHECK_DEADLOCK FALSE
