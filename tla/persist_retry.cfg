SPECIFICATION PersistSpec
CONSTANTS
  MaxVersion = 2  MaxSessions = 2  MaxPending = 4  MaxFaults = 1
CHECK_DEADLOCK FALSE
INVARIANTS FailedIsRetried
