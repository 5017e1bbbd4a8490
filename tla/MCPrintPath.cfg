CONSTANTS
  MaxBytesPerPage = 2
  MaxTotalBytes = 3
  Documents <- MCDocuments
  DriverOutputs <- MCDriverOutputs
  PipeCapacity = 1
  SubfilterTimeout = 1
  BackendTimeout = 2
  KillAfter = 1
  MaxJobTime <- NoLimit
  JobKillDelay = 1
  UsersCancel = TRUE
SPECIFICATION FairSpec
INVARIANTS
  TypeOK
  OnlyPrintableIsSent
  AccountingIsEarned
  SuccessMeansPrinted
  RejectionLeavesNoTrace
PROPERTIES
  StuckTransferDetaches
  ImplementsPrintJob
  EveryJobEnds
