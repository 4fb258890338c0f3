SPECIFICATION Spec
CONSTANTS
  Fanout = 2
  Runs <- MCRuns
  ApicPage = 9
  Preallocated = 3
  MaxBlocks = 16
INVARIANT FreesOnlyAllocated
CHECK_DEADLOCK FALSE
