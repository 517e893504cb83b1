SPECIFICATION Spec
CONSTANTS
  MaxCalls = 4
  MaxTimeouts = 2
  MaxConnections = 2
  MaxBlock = 2
INVARIANTS
  RepliesOwed
  OwnReply
  EvalRunsOnce
CHECK_DEADLOCK FALSE
