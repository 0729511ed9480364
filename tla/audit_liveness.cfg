SPECIFICATION FairSpec
CONSTANTS
  l1 = l1
  c1 = c1
  Objects = {1, 2}
  ParquetKeys = {1, 2}
  LambdaRuns = {l1}
  CliRuns = {}
  MockS3Runs = {l1}
  FromTimes = {}
  PageSize = 1
  TicksPerSecond = 1
  MaxTime = 1
  MaxFaults = 1
INVARIANTS TypeOK CoverageInv
PROPERTIES ListTimeMonotonic RunsEnd EventuallyRepaired
