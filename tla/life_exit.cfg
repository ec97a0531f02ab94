SPECIFICATION FairSpec
CONSTANTS
  a = a
  b = b
  N = 2
  Conns <- MCConns
  Faults <- AllFaults
INVARIANT InterruptWaits
PROPERTY ErrorExits
PROPERTY InterruptExits
PROPERTY NoLateAccept
PROPERTY ListenerGone
CHECK_DEADLOCK FALSE
