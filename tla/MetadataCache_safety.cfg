SPECIFICATION Spec
CONSTANTS
  c1 = c1
  c2 = c2
  Callers = {c1, c2}
  None = None
  BaseURL <- MCBaseURL
  Claims <- MCTwoClaims
  Relaxed <- MCStrictMixUp
  Headers <- MCOverlapHeaders
  DefaultTTL <- MCStrictTTL
  Second = 2
  WordHalf = 8
  MaxTime = 4
  MaxVersion = 1
SYMMETRY Symmetry
INVARIANTS TypeOK NoForeignDocument
PROPERTIES RegressOnlyUnderOverlap ImplementsService
