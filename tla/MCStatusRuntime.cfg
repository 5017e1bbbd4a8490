CONSTANTS
  Null = Null
  heartbeat = heartbeat
  http = http
  stream = stream
  Observers = {heartbeat, http}
  Periodic = {heartbeat}
  Recorders = {stream}
  AddressLists <- MCAddressLists
  Target <- MCTarget
  CupsAnswers <- MCCupsAnswers
  SysfsViews <- MCSysfsViews
  Messages <- MCMessages
  AutoYield = FALSE
SPECIFICATION FairSpec
INVARIANTS
  TypeOK
  EventsChain
  LogTellsStatus
  CallerAgrees
PROPERTIES
  DisconnectKeepsTheRest
  Converges
  ImplementsLog
