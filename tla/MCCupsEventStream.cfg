CONSTANTS
  j1 = j1
  Jobs = {j1}
  JobSteps = 2
  MaxSubscriptions = 6
  SubscriptionIds = {1, 2, 3, 4, 5, 6}
  Limits <- MCLimits
SPECIFICATION FairSpec
INVARIANTS
  TypeOK
  NoChangeIsMissed
  EverySubscriptionIsOwed
PROPERTIES
  ImplementsFeed
  EventuallyReported
