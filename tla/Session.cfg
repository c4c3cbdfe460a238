SPECIFICATION FairSpec
CONSTANTS
  a = a
  b = b
  Tabs <- MCTabs
  Readers <- MCReaders
  Nothing = Nothing
  MaxPairs = 2
  MaxEvents = 2
CHECK_DEADLOCK FALSE
INVARIANTS
  SessionIsKept
PROPERTIES
  RefreshSettles
  LogoutReachesReaders
