SPECIFICATION FairSpec
CONSTANTS
  TableSize = 2
  SuperPageSize = 8
  MappedFrames = 60
  IntRange = 1024
  LongRange = 4096
  Pools <- MCPools
  Mappings = {}
  PmemSize = 16
  HeapEnd = 16
  TopFrame = 63
  Handovers <- MCHandovers
  GuestFrames = {0, 7, 8, 11, 15, 16, 63}
INVARIANTS
  TypeOK
  EveryFrameOwnedOnce
  GuestIsConfined
  GuestMemoryMapped
  VmmIntact
  GuestStarts
PROPERTIES
  FailsOnlyWithoutRoom
  BootEnds
CHECK_DEADLOCK FALSE
