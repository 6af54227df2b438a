SPECIFICATION FairSpec
CONSTANTS
  g1 = g1
  m1 = m1
  w1 = w1
  Routine = {g1}
  Message = {m1}
  Window = {w1}
  SubCap = 2
  MaxEmits <- MCMaxEmits
INVARIANTS
  TypeOK
  NeverSendsOnClosed
  EvalsLiveWindow
PROPERTIES
  EventsInOrder
  StopCompletes
CHECK_DEADLOCK FALSE
