SPECIFICATION Spec
CONSTANTS
  N = 2
  Faults <- NoFaults
INVARIANT SingleSender
CHECK_DEADLOCK FALSE
