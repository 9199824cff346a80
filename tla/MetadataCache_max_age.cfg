SPECIFICATION Spec
CONSTANTS
  c1 = c1
  c2 = c2
  Callers = {c1}
  None = None
  BaseURL <- MCBaseURL
  Claims <- MCTwoClaims
  Relaxed <- MCStrictMixUp
  Headers <- MCHeaders
  DefaultTTL <- MCStrictTTL
  Second = 2
  WordHalf = 8
  MaxTime = 2
  MaxVersion = 0
PROPERTIES MaxAgeAlwaysWins
