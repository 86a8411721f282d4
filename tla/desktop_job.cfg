SPECIFICATION FairSpec
CONSTANTS
  Outcomes = {"completed", "retryable"}
  MaxSessions = 2
  MaxRuns = 2
  MaxCalls = 2
  MaxReadingCalls = 1
  MaxDisturbances = 2
INVARIANTS ContainmentHolds MutationOnce
PROPERTIES ImplementsReceipt EveryExecutionReturns
CHECK_DEADLOCK FALSE
