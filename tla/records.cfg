SPECIFICATION RecFairSpec
CONSTANTS
  x = x
  y = y
  z = z
  l = l
  m = m
  Conns <- MCConns
  Addrs <- MCAddrs
  AddrOf <- MCAddrOf
  Loggers <- MCLoggers
  Rows <- MCRows
  SizeFails = TRUE
INVARIANT CountsRight
INVARIANT TableFits
PROPERTY UpdateEnds
CHECK_DEADLOCK FALSE
