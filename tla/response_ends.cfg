SPECIFICATION RespFairSpec
CONSTANTS
  N = 2
  Cap = 1
  MaxBlocks = 4
  MaxSlots = 6
  Faults <- Breaks
INVARIANT OneLongRead
PROPERTY ResponseEnds
PROPERTY PipeSpec
CHECK_DEADLOCK FALSE
