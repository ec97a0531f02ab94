SPECIFICATION FairSpec
CONSTANTS
  N = 3
  Faults <- AllFaults
INVARIANT NoDoubleClose
INVARIANT MasterReleased
PROPERTY TransEnds
PROPERTY QueueStops
CHECK_DEADLOCK FALSE
