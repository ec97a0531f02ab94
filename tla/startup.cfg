SPECIFICATION FairSpec
CONSTANTS
  N = 2
  Nums <- FewNums
  VersionCode = 4
  Servers <- SomeServers
  MaxMessages = 2
INVARIANT Aligned
INVARIANT ServesCompatible
PROPERTY StartEnds
PROPERTY HubsLeave
CHECK_DEADLOCK FALSE
