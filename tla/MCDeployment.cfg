CONSTANTS
  Askers = {}
  MaxChanges = 1
  MaxTroubles = 2
  MaxAttempts = 2
  MaxPolls = 1
  MaxDeployments = 2
  BreaksAt <- OutsideTheWindow
SPECIFICATION Spec
CHECK_DEADLOCK FALSE
INVARIANTS
  TypeOK
  DeployedIsNew
PROPERTIES
  Noticed
  ComesBack
