SPECIFICATION FairSpec
CONSTANTS
  Writers = {w1, w2}
  None = None
  MaxMessages = 1
INVARIANTS
  SetupOutlivesUsers
  TerminationReleasesAll
PROPERTIES
  LogSettles
CHECK_DEADLOCK FALSE
