SPECIFICATION Spec
CONSTANTS
  None = None
  Attempts = 2
  Chain <- MCChain
INVARIANT Non2xxIsStatusError
CHECK_DEADLOCK FALSE
