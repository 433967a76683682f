SPECIFICATION FairSpec
CONSTANT
    Deployments <- AllDeployments
CHECK_DEADLOCK FALSE
INVARIANTS
  PayloadsExact
  ReturnedIsIntact
  NothingMissed
PROPERTIES
  PendingIsProcessed
