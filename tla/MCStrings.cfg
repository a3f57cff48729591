SPECIFICATION Spec
CONSTANTS
  MemSize = 9
  Memories <- MCMemories
INVARIANTS
  MemmoveIsSimultaneous
  ZeroMeansEqual
  FillsAndCopiesExactly
CHECK_DEADLOCK FALSE
