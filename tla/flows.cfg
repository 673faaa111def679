SPECIFICATION LiveSpec
CONSTANT Proc <- Flows
INVARIANT TypeOK
INVARIANT EveryTokenWaits
INVARIANT NeverInTwoPlaces
INVARIANT WaitsAreCurrent
INVARIANT BoundariesGuardHost
INVARIANT JoinsHoldWaitingTokens
INVARIANT InterruptingTakesOver
INVARIANT SubscriptionsFollowScopes
INVARIANT CompletedIsInert
PROPERTY InstanceEnds
CHECK_DEADLOCK FALSE
