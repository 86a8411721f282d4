\* Three requests and one slot, scheduled, cancelled and visited by the owner.
SPECIFICATION Spec
CONSTANTS
  N = 3
  Dependencies <- LastAfterFirst
  MaxRuns = 3
  Preflights = {"ready"}
  Operations = {"cancel", "schedule", "visit"}
  MaxConcurrent = 1
  MaxRetries = 0
  MaxFaults = 0
INVARIANTS CancelledNeverRuns DependenciesFirst SlotsRespected
CHECK_DEADLOCK FALSE
