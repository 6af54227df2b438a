SPECIFICATION Spec
CONSTANTS
  p = p
  Request = {p}
  MaxSockets = 3
  MaxAttempts = 1
  AutoReconnect = TRUE
INVARIANTS
  OpenMeansConnected
