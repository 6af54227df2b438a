SPECIFICATION Spec
CONSTANTS
  c1 = c1
  Client = {c1}
  MaxCalls = 1
  SendCap = 1
  SubCap = 1
  MaxEvents = 1
INVARIANTS
  NeverSendsOnClosed
CHECK_DEADLOCK FALSE
