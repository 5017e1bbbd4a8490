CONSTANTS
  Addresses = {v4, v6}
  Minting = {v6}
  Installers <- OnlyWatcher
  InitialCovers <- CoversNone
  InitialKeys <- WithKey
  MaxChanges = 0
  MaxStops = 0
  MaxSetups = 0
  MaxCuts = 1
SPECIFICATION FairSpec
CHECK_DEADLOCK FALSE
PROPERTY EventuallyServed
