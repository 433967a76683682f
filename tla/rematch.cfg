SPECIFICATION Spec
CHECK_DEADLOCK FALSE
CONSTANTS
  r1 = r1
  r2 = r2
  Readers = {r1}
  Irrelevant <- NoFilter
  MayUnmatch = TRUE
  VolatileReaders = {}
  VolatileWriter = FALSE
  KeepAll = FALSE
  PushMode = TRUE
  SyncPublish = FALSE
  ManualLiveliness = FALSE
  SendMayFail = FALSE
  MaxSamples = 2
  MaxSeq = 2
  MaxHeartbeats = 2
  KeepAllReaders = {r1}
  ReaderDepth = 2
  LeaseOnly = TRUE
  MaxAcknacks = 2
INVARIANTS
  NoStall
PROPERTIES
  InOrderOnce
  ImplementsDelivery
