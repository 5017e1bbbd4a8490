CONSTANTS
  Askers = {}
  MaxChanges = 0
  MaxTroubles = 1
  MaxAttempts = 2
  MaxPolls = 1
  MaxDeployments = 1
  BreaksAt <- Anywhere
SPECIFICATION Spec
CHECK_DEADLOCK FALSE
INVARIANTS
  DeployedIsNew
