SPECIFICATION FairSpec
CONSTANTS
  MaxWrites = 3
  WriterCrashes = 1
  ReaderCrashes = 1
  MaxInFlight = 2
CHECK_DEADLOCK FALSE
INVARIANTS
  DatabaseAgrees
  NumberNotReused
  NotifiedExactlyOnce
PROPERTIES
  StoredIsNotified
  RecordNeverFalls
