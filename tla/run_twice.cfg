SPECIFICATION Spec
CONSTANTS
  Nodes = {m, n}
  Instances = {i}
  Jobs = {j, k}
  InstanceOf <- OneInstance
  FirstJobs = {j, k}
  None = None
  LeaseSeconds = 2
  MaxRetries = 1
  Budgets <- Undisturbed
  LastMoment = 3
CHECK_DEADLOCK FALSE
INVARIANT RunsOnce
