SPECIFICATION FairSpec
CONSTANTS
  MaxSockets = 2
  MaxFaults = 2
  MaxTransactions = 1
  Channels = {a}
  MaxRequests = 2
  MaxWrites = 1
INVARIANTS
  EveryIncrementCounts
  ReturnedIsExecuted
  ReleasedIsPlain
  SettledIsKnown
PROPERTY Resubscribed
CHECK_DEADLOCK FALSE
