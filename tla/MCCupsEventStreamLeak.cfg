CONSTANTS
  j1 = j1
  Jobs = {j1}
  JobSteps = 1
  MaxSubscriptions = 2
  SubscriptionIds = {1, 2, 3}
  Limits <- RefusingLimits
SPECIFICATION FairSpec
CHECK_DEADLOCK FALSE
PROPERTY KeepsReconciling
