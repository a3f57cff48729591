SPECIFICATION CheckSpec
CONSTANT Vmcbs <- HighBits
INVARIANTS
  LaunchedIsConsistent
CHECK_DEADLOCK FALSE
