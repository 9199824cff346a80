SPECIFICATION SpecCancelledInPause
CONSTANTS
  None = None
  MaxAttempts = {0, 1, 4}
  BaseDelay = 2
  MaxDelay = 6
  Statuses = {200, 500, 503}
  WordHalf = 16
PROPERTIES CancelReturnsContextError
CHECK_DEADLOCK FALSE
