SPECIFICATION Spec
CONSTANTS
  Fanout = 2
  Runs <- MCRuns
  ApicPage = 9
  Preallocated = 3
  MaxBlocks = 16
INVARIANTS
  TypeOK
  OwnedOnce
  ExhaustedWhenAllUsed
  LeafWrittenOnce
PROPERTIES
  TerminationFreesOnce
  MapSpec
CHECK_DEADLOCK FALSE
