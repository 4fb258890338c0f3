SPECIFICATION Spec
CONSTANTS
  MaxProcessors = 3
  InitialProcessors = 1
  SharedIds = {s1}
  None = None
  MaxPowerEvents = 0
  Serialized = TRUE
  VmcsMayFail = FALSE
INVARIANTS
  TerminationAssert
CHECK_DEADLOCK FALSE
