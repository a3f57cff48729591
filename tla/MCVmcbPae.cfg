SPECIFICATION CheckSpec
CONSTANT Vmcbs <- NoPae
INVARIANTS
  LaunchedIsConsistent
CHECK_DEADLOCK FALSE
