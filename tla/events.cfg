SPECIFICATION ELiveSpec
CONSTANTS
  Proc <- EventFlows
  Events <- Heard
  MaxLines = 9
INVARIANT EventTypeOK
INVARIANT EveryTokenWaitsOrListens
INVARIANT SubscriptionsAreCurrent
INVARIANT ListenersInPlace
CHECK_DEADLOCK FALSE
PROPERTY CommandReturns
PROPERTY OnlyHeldFire
