SPECIFICATION DLiveSpec
CONSTANTS
  Proc <- SavedFlows
  Events <- SavedEvents
  MaxLines = 5
  Retries = 2
  MaxFaults = 3
INVARIANT StoredTokensWait
INVARIANT RestartForgetsNothing
PROPERTY CommandsAreTransactions
CHECK_DEADLOCK FALSE
PROPERTY EndsOrDeadLetter
