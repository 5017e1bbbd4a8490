CONSTANTS
  Modes <- OnlyEnable
  MaxInvocations = 1
  MaxReboots = 0
  Previous <- Exposed
  Jobs = {j1}
  WatcherRepairs = FALSE
  MaxIgnored = 0
SPECIFICATION Spec
CHECK_DEADLOCK FALSE
INVARIANTS
  ExposedIsVerified
