SPECIFICATION FairSpec
CONSTANTS
  MaxConfChanges = 1
  MaxAddrChanges = 0
PROPERTIES
  ConfigInEffect
CHECK_DEADLOCK FALSE
