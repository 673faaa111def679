SPECIFICATION LiveSpec
CONSTANTS
  a = a  b = b  j = j  k = k
  Executors <- TwoExecutors
  Jobs <- TwoJobs
  None = None
  LeaseSeconds = 1
  BatchSize = 2
  RetryDelay = 1
  MaxRetries = 2
  LastFault = 2
  LastMoment = 4
CHECK_DEADLOCK FALSE
INVARIANT TypeOK
INVARIANT ExclusiveHold
PROPERTY LiveLeaseProtects
PROPERTY EveryJobSettles
