SPECIFICATION Spec
CONSTANTS
  MaxConfChanges = 0
  MaxAddrChanges = 0
PROPERTIES
  StoppedIsFinal
CHECK_DEADLOCK FALSE
