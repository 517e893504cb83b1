SPECIFICATION WireSpec
CONSTANTS
  Types <- MCTypes
  Replies <- MCReplies
  Commands <- MCCommands
  BufferCutoff = 6
  MaxReplies = 2
  Overflows = {"WRAP", "SAT"}
  MaxOperations = 1
INVARIANTS
  RepliesInOrder
  NothingIsHidden
PROPERTIES
  ClosedForCause
  ReadsEnd
CHECK_DEADLOCK FALSE
