\* The rollback of a resume against a supervisor that is still leaving.
SPECIFICATION Spec
CONSTANTS
  N = 1
  Dependencies <- Independent
  MaxRuns = 1
  Preflights = {"ready"}
  Operations = {"start", "pause", "resume", "visit"}
  MaxConcurrent = 1
  MaxRetries = 0
  MaxFaults = 0
PROPERTY DoneIsFinal
CHECK_DEADLOCK FALSE
