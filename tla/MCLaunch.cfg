SPECIFICATION FairSpec
CONSTANTS
  p1 = p1
  p2 = p2
  f = f
  Process = {p1, p2, f}
  Foreign = {f}
  MaxVersion = 3
INVARIANTS
  TypeOK
  ForwardedIsHeard
  ExecutableSurvives
PROPERTIES
  InstallsNewer
  LaunchSettles
CHECK_DEADLOCK FALSE
