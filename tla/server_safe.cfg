SPECIFICATION FairSpec
CONSTANTS
  N = 3
  Faults <- AllFaults
INVARIANT NoLostStart
INVARIANT LinkSendOnce
INVARIANT NoDoubleClose
INVARIANT ReleasedInTime
INVARIANT NilNeedsClose
PROPERTY EstablishEnds
PROPERTY CloseEnds
CHECK_DEADLOCK FALSE
