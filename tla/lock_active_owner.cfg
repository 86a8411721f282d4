\* The reclaim of a dead owner's file against a new owner's file.
SPECIFICATION Spec
CONSTANTS
  c1 = c1
  c2 = c2
  c3 = c3
  p1 = p1
  p2 = p2
  p3 = p3
  Callers = {c1, c2, c3}
  Processes = {p1, p2, p3}
  ProcessOf <- OwnProcess
  Mortal = {p1}
  MaxCalls = 1
  MaxFaults = 0
  NoFile = NoFile
  NoOne = NoOne
PROPERTIES ActiveOwnerProtected
CHECK_DEADLOCK FALSE
