SPECIFICATION Spec
CONSTANTS
  Tables <- Decided
  Environments <- Given
  Spelling <- Spelled
  None = None
INVARIANT RulesHitAsTheySay
INVARIANT PoliciesAgree
CHECK_DEADLOCK FALSE
