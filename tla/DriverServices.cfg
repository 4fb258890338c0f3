SPECIFICATION Spec
CONSTANTS
  Processors = {0, 1, 2}
  MaxProcessors = 3
  Locations = {a, b, c}
  Null = Null
  MaxEntries = 3
  MaxMeasures <- MCMaxMeasures
  Constructors = 2
  PageSize = 2
  Memories <- MCMemories
SYMMETRY Symmetric
INVARIANTS
  ReportOmitsNothing
  DuplicatesBounded
  NothingMadeUp
  SerialIsExact
  ServicesOutliveVmms
  NothingLeft
PROPERTIES
  DestroyedInReverse
  DescribesMemory
CHECK_DEADLOCK FALSE
