SPECIFICATION WritersSpec
CHECK_DEADLOCK FALSE
CONSTANTS
  r1 = r1
  Readers = {r1}
  Irrelevant = {}
  MayUnmatch = FALSE
  VolatileReaders = {r1}
  VolatileWriter = FALSE
  KeepAll = TRUE
  PushMode = FALSE
  SyncPublish = TRUE
  ManualLiveliness = TRUE
  SendMayFail = FALSE
  MaxSamples = 2
  MaxSeq = 3
  MaxHeartbeats = 4
  KeepAllReaders = {r1}
  ReaderDepth = 1
  LeaseOnly = TRUE
  MaxAcknacks = 2
INVARIANTS
  KeepAllNoLoss
  NothingStuck
PROPERTIES
  RemovedIsAcked
