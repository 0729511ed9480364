SPECIFICATION Spec
CONSTANTS
  l1 = l1
  c1 = c1
  Objects = {1, 2}
  ParquetKeys = {1, 2}
  LambdaRuns = {l1}
  CliRuns = {c1}
  MockS3Runs = {l1}
  FromTimes = {0}
  PageSize = 1
  TicksPerSecond = 2
  MaxTime = 2
  MaxFaults = 0
INVARIANTS AuditCoverage
