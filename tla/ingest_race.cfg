SPECIFICATION Spec
CONSTANTS
  u1 = u1
  u2 = u2
  i1 = i1
  i2 = i2
  p1 = p1
  p2 = p2
  none = none
  Urls = {u1}
  Zipped = {}
  Versions = {1, 2}
  Partitions <- Partitions_
  PartitionsOf <- PartitionsOf_
  IngestRequests = {i1, i2}
  ReplaceRequests = {}
  NoRecord = none
  MaxActive = 2
  SearchLags = FALSE
  AnyJobId = FALSE
  MaxFaults = 0
SYMMETRY Symmetry
INVARIANTS OneJobPerUrl
