SPECIFICATION FairSpec
CONSTANTS
  a = a
  b = b
  Sessions <- Two
  N = 2
  Cap = 1
  WireCap = 1
  MaxBlocks <- Blocks
  Ending <- OnlyB
INVARIANTS  OwnStream
CHECK_DEADLOCK FALSE
PROPERTIES SessionsFlow SessionEnds LossEndsAll
