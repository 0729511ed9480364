SPECIFICATION FairSpec
CONSTANTS
    Files <- MCFiles
    Source <- MCSource
    Content <- MCContent
    Columns <- MCColumns
    QualityColumns = {"salinity_quality"}
    NonObservationColumns = {"depth"}
    Requests <- MCRequests
    StatisticsRequests <- MCStatisticsRequests
    None = None
    Interval = 5
    Month = 30
    Second = 2
    Missing <- MCMissing
    BucketLimit = 1
    PageSize = 2
    Unreadable = {3}
    Unparsable <- MCUnparsable
INVARIANTS
    TypeOK
    NothingMissed
    Complete
    NothingTwice
    NothingForeign
    FailuresContained
    StatisticsAgree
    StatisticsCoverMeasured
PROPERTIES
    SearchEnds
