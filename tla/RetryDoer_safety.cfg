SPECIFICATION Spec
CONSTANTS
  None = None
  MaxAttempts = {0, 1, 4}
  BaseDelay = 2
  MaxDelay = 6
  Statuses = {200, 500, 503}
  WordHalf = 16
INVARIANTS TypeOK ReturnsLastAnswer RetriesOnlyTransient EveryAttemptCarriesBody
PROPERTIES BackoffGrowsToCap CancelEnds
CHECK_DEADLOCK FALSE
