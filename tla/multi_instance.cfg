SPECIFICATION MLiveSpec
CONSTANTS
  Proc <- LoopFlows
  Loops <- LoopList
INVARIANT EveryTokenWaits
INVARIANT CountersMatch
INVARIANT InstancesAreCounted
PROPERTY LoopsKeepCount
PROPERTY InstanceEnds
CHECK_DEADLOCK FALSE
