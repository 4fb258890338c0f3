SPECIFICATION Spec
CONSTANTS
  Machines <- MCMachines
  Initial = 2
  Null = Null
  QuarterSize = 8
  ProbedMsrs = 4
  LowSpecials = {1, 2}
  HighSpecials = {1, 2}
  MaxAdded = 2
  MaxSuspends = 1
INVARIANTS
  HighReadsExit
CHECK_DEADLOCK FALSE
