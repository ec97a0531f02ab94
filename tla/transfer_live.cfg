CONSTANTS
  N = 2
  Cap = 1
  MaxBlocks = 3
  MaxSlots = 6
  Faults <- Closing
SPECIFICATION FairSpec
PROPERTIES Delivered EndDelivered LinkStops
CHECK_DEADLOCK FALSE
