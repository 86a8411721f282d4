SPECIFICATION FairSpec
CONSTANTS
  Owners <- BothOwners
  Limit = 3
  MaxTurns = 2
  MaxRecoveries = 1
  MaxRejected = 2
  MaxBackoffs = 1
  MaxProposals = 1
  MaxDisturbances <- Disturbances
INVARIANTS TypeOK  SessionsFollow RecoveriesBounded TurnsPaid
PROPERTY ExecutionEnds
CHECK_DEADLOCK FALSE
