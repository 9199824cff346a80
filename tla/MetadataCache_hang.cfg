SPECIFICATION Spec
CONSTANTS
  c1 = c1
  c2 = c2
  Callers = {c1, c2}
  None = None
  BaseURL <- MCBaseURL
  Claims <- MCForeignClaim
  Relaxed <- MCRelaxedMixUp
  Headers <- MCHeaders
  DefaultTTL <- MCRelaxedTTL
  Second = 2
  WordHalf = 8
  MaxTime = 1
  MaxVersion = 0
PROPERTIES LocalProgress LifetimeFromOwnResponse
