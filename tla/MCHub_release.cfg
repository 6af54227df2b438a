SPECIFICATION FairSpec
CONSTANTS
  c1 = c1
  Client = {c1}
  MaxCalls = 2
  SendCap = 1
  SubCap = 1
  MaxEvents = 2
PROPERTIES
  BroadcastNeverStalls
  StopReleasesRegistered
  LeaverIsForgotten
CHECK_DEADLOCK FALSE
