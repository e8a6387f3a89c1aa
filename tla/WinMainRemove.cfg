SPECIFICATION Spec
CONSTANTS
  Processes = {p1, p2, p3}
  Nobody = nobody
  OsFails = FALSE
  p1 = p1
  p2 = p2
  p3 = p3
  nobody = nobody
PROPERTIES
  RemoveStops
CHECK_DEADLOCK FALSE
