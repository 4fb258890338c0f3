SPECIFICATION Spec
CONSTANTS
  Instructions <- MCInstructions
  MaxIp = 2
  SavesDebugControls = TRUE
INVARIANTS
  VmmRunsOnHost
PROPERTIES
  GuestSpec
CHECK_DEADLOCK FALSE
