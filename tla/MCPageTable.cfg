SPECIFICATION FairPageSpec
CONSTANTS
  TableSize = 2
  SuperPageSize = 2
  MappedFrames = 8
  IntRange = 64
  LongRange = 4096
  Pools <- MCPools
  Mappings <- MCMappings
INVARIANTS
  TreeShape
  LookupAgrees
PROPERTIES
  MmapEnds
  ImplementsAddressMap
CHECK_DEADLOCK FALSE
