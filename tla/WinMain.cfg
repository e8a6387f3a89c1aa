SPECIFICATION Spec
CONSTANTS
  Processes = {p1, p2, p3}
  Nobody = nobody
  OsFails = TRUE
  p1 = p1
  p2 = p2
  p3 = p3
  nobody = nobody
INVARIANTS
  TypeOK
  OneBrokerOneLog
  RemoveFindsStopped
CHECK_DEADLOCK FALSE
