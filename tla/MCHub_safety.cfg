SPECIFICATION Spec
CONSTANTS
  c1 = c1
  c2 = c2
  Client = {c1, c2}
  MaxCalls = 0
  SendCap = 1
  SubCap = 2
  MaxEvents = 2
SYMMETRY Symmetry
INVARIANTS
  TypeOK
  NeverDoubleClose
PROPERTIES
  EventsInOrder
CHECK_DEADLOCK FALSE
