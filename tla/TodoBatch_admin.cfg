SPECIFICATION Spec
CONSTANTS
  None = None
  Batches <- MCBatches
INVARIANT AdminMayEverything
CHECK_DEADLOCK FALSE
