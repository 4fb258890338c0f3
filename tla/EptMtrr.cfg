SPECIFICATION Spec
CONSTANTS
  FixedMsrs <- MCFixedMsrs
  Registers <- MCRegisters
  Rewritten <- MCRewritten
  EntriesSize = 9
  Addresses = {0, 3, 4, 5, 6, 7, 8, 15, 16, 31}
  MaxChanges = 1
INVARIANTS
  TypeOK
  MemoryTypeCorrect
  StrongRangesPrevail
CHECK_DEADLOCK FALSE
