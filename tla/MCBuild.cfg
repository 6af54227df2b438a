SPECIFICATION Spec
CONSTANTS
  GoleoRoot = FALSE
  HasVendor = TRUE
  UserCache = TRUE
  InitTools <- MCInitTools
  MaxRuns = 2
  MaxRev = 2
INVARIANTS
  TypeOK
  CleansUp
  SuccessIsFresh
  ReleasesAccumulate
CHECK_DEADLOCK FALSE
