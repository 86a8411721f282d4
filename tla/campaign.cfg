\* Two campaigns and one worker, with an operator, breaks, throws and restarts.
SPECIFICATION Spec
CONSTANTS
  Campaigns = {c1, c2}
  NoCampaign = NoCampaign
  Target = 1
  ProposalBudget = 2
  MaxSteps = 4
  Outcomes = {"WAITING_AGENT", "WAITING_EXTERNAL", "FAILED_RETRYABLE", "FAILED_FINAL", "DONE"}
  MaxDisturbances = 2
SYMMETRY Interchangeable
INVARIANTS CompleteTruthful ScheduledIsQueued RecoveryKept
PROPERTIES ImplementsCampaign DisposeDrains
CHECK_DEADLOCK FALSE
