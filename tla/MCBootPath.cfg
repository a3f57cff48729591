SPECIFICATION PathSpec
CONSTANTS
  PageSize = 1
  ByteBits = 32
  WordBytes = 1
  E820_MAX_ENTRIES = 3
  SizeofSize = 1
  HeapEnd = 16
  KernelEnd = 10
  IntRange = 1024
  LongRange = 4096
  MappedLimit = 60
  MultibootInfos <- MCMultibootInfos
  Requests <- MCRequests
  SuperPageSize = 8
  TableSize = 2
  PmemSize = 16
  TopFrame = 199
  GuestFrames = {9}
  Modules <- MCModules
INVARIANTS
  ModuleSurvives
  HandoverAsAssumed
  ModuleBecomesGuest
  VmmKept
CHECK_DEADLOCK FALSE
