SPECIFICATION Spec
CONSTANTS
  None = None
  Requests = {r1, r2}
  IDs = {idA, idB}
  Chains <- MCChains
INVARIANT OnlyLastLoggerWins
CHECK_DEADLOCK FALSE
