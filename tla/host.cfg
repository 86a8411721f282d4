SPECIFICATION FairSpec
CONSTANTS
  Procs <- MCProcs
  Command <- MCCommand
  Nobody = Nobody
  starts = {a, b}
  recovers = {r}
  maintains = {m}
  Stages = 1
  Throwing = {"write", "remove"}
  MaxCrashes = 1
  MaxSignals = 1
  MaxErrors = 1
INVARIANTS ReleasedIsDown OwnershipReturned
PROPERTIES LockKept StopsEnd
CHECK_DEADLOCK FALSE
