CONSTANTS
  Addresses = {v4, v6}
  Minting = {v6}
  Installers <- WatcherAndSetup
  InitialCovers <- AnyCovers
  InitialKeys <- KeyOrNone
  MaxChanges = 2
  MaxStops = 1
  MaxSetups = 1
  MaxCuts = 1
SPECIFICATION FairSpec
CHECK_DEADLOCK FALSE
INVARIANTS
  TypeOK
  OnePair
PROPERTIES
  PinnedStays
  ServedUnlessSplit
