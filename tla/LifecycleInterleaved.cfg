SPECIFICATION Spec
CONSTANTS
  MaxProcessors = 3
  InitialProcessors = 2
  SharedIds = {s1, s2}
  None = None
  MaxPowerEvents = 2
  Serialized = FALSE
  VmcsMayFail = TRUE
SYMMETRY SharedIdsSymmetry
INVARIANTS
  RefCountExact
  VmxMutex
PROPERTIES
  VmmKeepsData
CHECK_DEADLOCK FALSE
