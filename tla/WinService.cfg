SPECIFICATION FairSpec
CONSTANTS
  MaxConfChanges = 2
  MaxAddrChanges = 3
INVARIANTS
  TypeOK
  WatchersJoined
  ServiceOutlivesThreads
  ConfigChangeKept
  AddrChangeKept
  WaitsAnswered
PROPERTIES
  AddrChangesServed
  StopCompletes
  StopProgress
CHECK_DEADLOCK FALSE
