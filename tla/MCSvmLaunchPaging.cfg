SPECIFICATION LaunchSpec
CONSTANTS
  Processors <- MCProcessors
  Pools <- MCPools
  MappedFrames = 60
  Registers <- MCRegisters
  Clobbers <- MCClobbers
INVARIANT
  NestedPagingChecked
CHECK_DEADLOCK FALSE
