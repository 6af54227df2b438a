SPECIFICATION FairSpec
CONSTANTS
  a = a
  b = b
  Caller = {a, b}
  MaxInvokes = 0
PROPERTIES
  CancelledCallReturns
