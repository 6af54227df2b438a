SPECIFICATION FairSpec
CONSTANTS
  p = p
  q = q
  Request = {p, q}
  MaxSockets = 3
  MaxAttempts = 1
  AutoReconnect = TRUE
INVARIANTS
  TypeOK
  ConnectedHasSocket
  ClosedFailsFast
PROPERTIES
  EveryInvokeSettles
