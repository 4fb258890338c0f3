SPECIFICATION Spec
CONSTANTS
  MaxProcessors = 3
  InitialProcessors = 2
  SharedIds = {s1, s2, s3}
  None = None
  MaxPowerEvents = 4
  Serialized = TRUE
  VmcsMayFail = TRUE
INVARIANTS
  SharedOutlivesUsers
  AllOrNothing
  VmxeCoversVmx
  GuestsNeedDriver
PROPERTIES
  SharedSpec
CHECK_DEADLOCK FALSE
