SPECIFICATION FairSpec
CONSTANTS
  a = a
  b = b
  Caller = {a, b}
  MaxInvokes = 1
INVARIANTS
  TypeOK
  NoStrayInterrupt
  WaiterWillBeAnswered
PROPERTIES
  QueueMoves
  StopEndsLoop
  StopFreesCallers
