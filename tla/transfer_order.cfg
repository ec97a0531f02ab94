CONSTANTS
  N = 2
  Cap = 1
  MaxBlocks = 3
  MaxSlots = 5
  Faults <- NoLinkWriteTimeout
SPECIFICATION Spec
INVARIANTS InOrder FinComplete EmptyBounded
PROPERTIES StreamSpec
CHECK_DEADLOCK FALSE
