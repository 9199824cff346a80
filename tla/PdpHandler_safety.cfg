SPECIFICATION Spec
CONSTANTS
  None = None
  Requests = {r1, r2}
  IDs = {idA, idB}
  Chains <- MCChains
INVARIANTS TypeOK HooksSeeTheWire EchoIsOwnID StatusTellsWhatHappened
CHECK_DEADLOCK FALSE
