SPECIFICATION FairSpec
CONSTANTS
  k1 = k1
  k2 = k2
  w1 = w1
  w2 = w2
  nothing = nothing
  testEvent = testEvent
  Objects = {k1, k2}
  Temporary = {k2}
  Escaped = {}
  NoObject = nothing
  Workers = {w1}
  BatchSize = 1
  MaxReceives = 2
  TestEvent = testEvent
  MaxFaults = 1
INVARIANTS TypeOK ExpiredOnlyIfGone
PROPERTIES EventuallyIndexed
\* Once every object has come and gone the queue stays empty for good.
CHECK_DEADLOCK FALSE
