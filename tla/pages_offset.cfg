SPECIFICATION Spec
CONSTANTS
  Rows = {1, 2, 3, 4, 5}
  Text <- Text_
  Time <- Time_
  OffFormat = {}
  Rank <- Rank_
  Digest <- Digest_
  Queries <- OffsetQueries
  MaxRemovals = 0
INVARIANTS NothingSkipped
CHECK_DEADLOCK FALSE
