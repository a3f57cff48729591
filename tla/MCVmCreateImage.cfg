SPECIFICATION Spec
CONSTANTS
  TableSize = 2
  SuperPageSize = 8
  MappedFrames = 60
  IntRange = 1024
  LongRange = 4096
  Pools <- MCPools
  Mappings = {}
  PmemSize = 16
  HeapEnd = 16
  TopFrame = 63
  Handovers <- MCHandovers
  GuestFrames = {0, 7, 8, 11, 15, 16, 63}
INVARIANT ImageSurvives
CHECK_DEADLOCK FALSE
