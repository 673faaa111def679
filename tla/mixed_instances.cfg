SPECIFICATION MSpec
CONSTANTS
  Proc <- PairFlows
  Loops <- PairList
CHECK_DEADLOCK FALSE
INVARIANT JoinsStayInside
