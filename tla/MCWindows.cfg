SPECIFICATION FairSpec
CONSTANTS
  w1 = w1
  w2 = w2
  Window = {w1, w2}
  ExitOnClose = {w1}
INVARIANTS
  TypeOK
  UpIsManaged
  AnnouncedOnce
  OnlyLateChildOutlives
PROPERTIES
  ExitOnCloseQuits
  QuitStops
CHECK_DEADLOCK FALSE
