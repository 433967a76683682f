SPECIFICATION Spec
CHECK_DEADLOCK FALSE
CONSTANTS
  r1 = r1
  r2 = r2
  Readers = {r1, r2}
  Irrelevant <- FirstForR1
  MayUnmatch = FALSE
  VolatileReaders = {r2}
  VolatileWriter = FALSE
  KeepAll = FALSE
  PushMode = TRUE
  SyncPublish = FALSE
  ManualLiveliness = FALSE
  SendMayFail = TRUE
  MaxSamples = 2
  MaxSeq = 2
  MaxHeartbeats = 2
  KeepAllReaders = {r1}
  ReaderDepth = 1
  LeaseOnly = TRUE
  MaxAcknacks = 1
INVARIANTS
  NoSilentSkip
  RequestAnswerable
  NoStall
