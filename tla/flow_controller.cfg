SPECIFICATION FairSpec
CONSTANTS
  Writers = {1, 2, 3}
  Deployments <- AllDeployments
CHECK_DEADLOCK FALSE
INVARIANTS
  ListsExact
  NothingForgotten
  RoundRobinFair
  LimitHolds
PROPERTIES
  OwedIsSent
