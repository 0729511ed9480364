SPECIFICATION FairSpec
CONSTANTS
  Rows = {1, 2, 3, 4, 5}
  Text <- Text_
  Time <- Time_
  OffFormat = {1}
  Rank <- Rank_
  Digest <- Digest_
  Queries <- SafeQueries
  MaxRemovals = 2
INVARIANTS TypeOK NothingSkipped NothingTwice FailsAtMarker
PROPERTIES BrowsingEnds
\* The client has all it wants, and everything is ingested.
CHECK_DEADLOCK FALSE
