CONSTANTS
  MaxBytesPerPage = 2
  MaxTotalBytes = 3
  Documents <- GoodDocuments
  DriverOutputs <- GoodOutputs
  PipeCapacity = 1
  SubfilterTimeout = 2
  BackendTimeout = 3
  KillAfter = 1
  MaxJobTime = 3
  JobKillDelay = 1
  UsersCancel = FALSE
SPECIFICATION Spec
INVARIANT WedgeDetaches
