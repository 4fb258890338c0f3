SPECIFICATION FairSpec
CONSTANTS
  MaxProcessors = 2
  InitialProcessors = 1
  SharedIds = {s1, s2}
  None = None
  MaxPowerEvents = 1
  Serialized = FALSE
  VmcsMayFail = FALSE
INVARIANTS
  VmxRootOwned
PROPERTIES
  DriverSettles
  CallbacksReturn
CHECK_DEADLOCK FALSE
