\* A Project Workspace or Idea Lab run with everybody who writes its record.
SPECIFICATION FairSpec
CONSTANTS
  RunModes = {"project-workspace", "idea-lab"}
  NeedsBuild = TRUE
  MaxSteps = 3
  MaxRetries = 1
  MaxApprovals = 1
INVARIANTS StagesAccounted EvidenceComplete RetryPossible  PolicyResolved
PROPERTIES  SupervisionEnds
CHECK_DEADLOCK FALSE
