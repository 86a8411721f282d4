\* Every call on one request, with a throw or a crash between two writes.
SPECIFICATION FairSpec
CONSTANTS
  N = 1
  Dependencies <- Independent
  MaxRuns = 2
  Preflights = {"ready"}
  Operations = {"start", "schedule", "pause", "resume", "retry"}
  MaxConcurrent = 1
  MaxRetries = 1
  MaxFaults = 1
INVARIANTS FailedTruthful CompletedTruthful OneRunPerRequest
PROPERTIES EveryCallReturns LinkKept
CHECK_DEADLOCK FALSE
