SPECIFICATION Spec
CONSTANTS
  u1 = u1
  u2 = u2
  i1 = i1
  i2 = i2
  p1 = p1
  p2 = p2
  none = none
  Urls = {u1}
  Zipped = {u1}
  Versions = {1, 2}
  Partitions <- Partitions_
  PartitionsOf <- PartitionsOf_
  IngestRequests = {i1}
  ReplaceRequests = {p1, p2}
  NoRecord = none
  MaxActive = 3
  SearchLags = TRUE
  AnyJobId = FALSE
  MaxFaults = 2
SYMMETRY Symmetry
INVARIANTS TypeOK RecordHasData AnswerTruthful NoStrayFile
