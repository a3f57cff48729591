SPECIFICATION FairSpec
CONSTANTS
  PageSize = 2
  ByteBits = 2
  WordBytes = 2
  E820_MAX_ENTRIES = 3
  SizeofSize = 1
  HeapEnd = 18
  KernelEnd = 1
  IntRange = 256
  LongRange = 65536
  MappedLimit = 40
  MultibootInfos <- MCMultibootInfos
  Requests <- MCRequests
INVARIANTS
  TableIsTheArea
  FiguresFitTheMap
  BitmapInBounds
  HandedDisjoint
  HandedUsable
  PoolComplete
  StashElsewhere
PROPERTIES
  FailsOnlyWhenFull
  SetupEnds
  ImplementsFrameAllocator
CHECK_DEADLOCK FALSE
