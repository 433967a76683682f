SPECIFICATION Spec
CHECK_DEADLOCK FALSE
CONSTANTS
  r1 = r1
  r2 = r2
  Readers = {r1}
  Irrelevant <- NoFilter
  MayUnmatch = FALSE
  VolatileReaders = {}
  VolatileWriter = FALSE
  KeepAll = TRUE
  PushMode = TRUE
  SyncPublish = TRUE
  ManualLiveliness = FALSE
  SendMayFail = FALSE
  MaxSamples = 1
  MaxSeq = 2
  MaxHeartbeats = 2
  KeepAllReaders = {r1}
  ReaderDepth = 2
  LeaseOnly = TRUE
  MaxAcknacks = 2
PROPERTIES
  RemovedIsAcked
