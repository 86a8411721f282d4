SPECIFICATION FairSpec
CONSTANTS
  N = 2
  MaxBridges = 3
  MaxFaults = 1
INVARIANT OnceUnlessRefused
 
CHECK_DEADLOCK FALSE
