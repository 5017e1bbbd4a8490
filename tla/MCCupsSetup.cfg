CONSTANTS
  Modes <- AllModes
  MaxInvocations = 2
  MaxReboots = 1
  Previous <- FreshOrExposed
  Jobs = {j1}
  WatcherRepairs = TRUE
  MaxIgnored = 1
SPECIFICATION Spec
CHECK_DEADLOCK FALSE
INVARIANTS
  TypeOK
  StoppedIsSafe
  EnabledIsWhole
  NothingWaits
