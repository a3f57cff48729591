SPECIFICATION FairSpec
CONSTANTS
  PageOf <- MCPageOf
  Loaders <- MCLoaders
  Processors <- MCProcessors
  Pools <- MCPools
  MappedFrames = 60
  Registers <- MCRegisters
  Clobbers <- MCClobbers
  Vmcbs <- MCVmcbs
  Starts <- MCStarts
INVARIANTS
  EveryPageTwice
  EntryContract
  RefusedForTheReasonPrinted
  VmrunIsLegal
  CalleeSavedRestored
  LaunchedIsConsistent
  RefusedForTheReasonGiven
  CreatedIsLaunched
PROPERTIES
  VmrunReached
CHECK_DEADLOCK FALSE
