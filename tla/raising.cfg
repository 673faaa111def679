SPECIFICATION MSpec
CONSTANTS
  Proc <- Raising
  Loops <- RaisingList
INVARIANT JoinsHoldWaitingTokens
PROPERTY EndedForever
CHECK_DEADLOCK FALSE
