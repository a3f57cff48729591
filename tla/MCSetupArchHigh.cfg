SPECIFICATION Spec
CONSTANTS
  PageSize = 2
  ByteBits = 8
  WordBytes = 2
  E820_MAX_ENTRIES = 3
  SizeofSize = 1
  HeapEnd = 18
  KernelEnd = 1
  IntRange = 128
  LongRange = 65536
  MappedLimit = 32
  MultibootInfos <- HighInfos
  Requests <- MCRequests
INVARIANTS
  StashElsewhere
CHECK_DEADLOCK FALSE
