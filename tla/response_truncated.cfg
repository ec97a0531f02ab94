SPECIFICATION RespSpec
CONSTANTS
  N = 2
  Cap = 1
  MaxBlocks = 2
  MaxSlots = 4
  Faults <- NoFaults
INVARIANT ResponseComplete
CHECK_DEADLOCK FALSE
