SPECIFICATION Spec
CONSTANTS
  None = None
  Attempts = 2
  Chain <- MCChain
INVARIANTS TypeOK PermitIsReal VerdictReachesPEP
PROPERTIES DecisionIsLogged ImplementsAccessDecision
CHECK_DEADLOCK FALSE
