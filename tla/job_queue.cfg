SPECIFICATION LiveSpec
CONSTANTS
  s = s  t = t  u = u  w = w
  Keys = {p}
  Models <- Versions
  Waits <- TwoTimers
  None = None
  MaxRetries = 2
  RetryDelay = 1
  MaxDeployments = 2
  MaxFaults = 2
  LastMoment = 3
INVARIANT SchedulesAreCurrent
PROPERTY MomentsFireOnce
PROPERTY EveryDueJobSettles
CHECK_DEADLOCK FALSE
