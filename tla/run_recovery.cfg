\* A recovery interrupted between its two writes.
SPECIFICATION FairSpec
CONSTANTS
  RunModes = {"idea-lab"}
  NeedsBuild = FALSE
  MaxSteps = 3
  MaxRetries = 1
  MaxApprovals = 0
PROPERTIES RecoveryEnds
CHECK_DEADLOCK FALSE
