SPECIFICATION LiveSpec
CONSTANTS
  Nodes = {n}
  Instances = {i}
  Jobs = {j, k, l}
  FirstJobs = {j, k}
  InstanceOf <- OneInstance
  None = None
  LeaseSeconds = 1
  MaxRetries = 2
  Budgets <- UsersOrFaults
  LastMoment = 4
INVARIANT TypeOK
INVARIANT RunsOnce
PROPERTY JobsNotDropped
PROPERTY EveryJobSettles
CHECK_DEADLOCK FALSE
