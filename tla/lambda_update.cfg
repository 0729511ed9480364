SPECIFICATION LambdaSpec
CONSTANTS
  u1 = u1
  Urls = {u1}
  Zipped = {}
  Versions = {1, 2}
  Partitions <- Partitions_
  PartitionsOf <- PartitionsOf_
  IngestRequests = {i1, i2}
  ReplaceRequests = {p1}
  NoRecord = none
  None = None
  MaxActive = 2
  SearchLags = FALSE
  AnyJobId = TRUE
  MaxFaults = 0
  Mirrored = FALSE
  MaxReceives = 1
  Concurrency = 1
  WaitTillFinished = TRUE
INVARIANTS UpdatesStored
CHECK_DEADLOCK FALSE
