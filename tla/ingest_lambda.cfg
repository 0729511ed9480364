SPECIFICATION LambdaFairSpec
CONSTANTS
  u1 = u1
  Urls = {u1}
  Zipped = {}
  Versions = {1, 2}
  Partitions <- Partitions_
  PartitionsOf <- PartitionsOf_
  IngestRequests = {i1, i2}
  ReplaceRequests = {p1}
  NoRecord = none
  None = None
  MaxActive = 2
  SearchLags = TRUE
  AnyJobId = TRUE
  MaxFaults = 1
  Mirrored = TRUE
  MaxReceives = 2
  Concurrency = 1
  WaitTillFinished = TRUE
INVARIANTS LambdaTypeOK RecordHasData OneJobUnlessIrregular TableDescribesDataUnlessIrregular
PROPERTIES EventuallyRecorded
CHECK_DEADLOCK FALSE
