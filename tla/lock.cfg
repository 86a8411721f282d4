\* Callers and processes of one lock path; processes may die at any step.
SPECIFICATION FairSpec
CONSTANTS
  c1 = c1
  c2 = c2
  c3 = c3
  p1 = p1
  p2 = p2
  p3 = p3
  Callers = {c1, c2, c3}
  Processes = {p1, p2, p3}
  ProcessOf <- SharedProcess
  Mortal = {p1, p2}
  MaxCalls = 2
  MaxFaults = 1
  NoFile = NoFile
  NoOne = NoOne
 
PROPERTIES ImplementsExclusiveLock DeadOwnerReclaimed EveryCallReturns
CHECK_DEADLOCK FALSE
