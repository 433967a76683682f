SPECIFICATION Spec
CHECK_DEADLOCK FALSE
CONSTANTS
  r1 = r1
  r2 = r2
  Readers = {r1}
  Irrelevant <- SecondForR1
  MayUnmatch = FALSE
  VolatileReaders = {}
  VolatileWriter = FALSE
  KeepAll = FALSE
  PushMode = TRUE
  SyncPublish = TRUE
  ManualLiveliness = FALSE
  SendMayFail = TRUE
  MaxSamples = 3
  MaxSeq = 3
  MaxHeartbeats = 2
  KeepAllReaders = {r1}
  ReaderDepth = 3
  LeaseOnly = TRUE
  MaxAcknacks = 2
INVARIANTS
  TypeOK
  NoSilentSkip
  AckSound
  
  NoInconsistentAcknack
