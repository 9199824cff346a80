SPECIFICATION Spec
CONSTANTS
  None = None
  Batches <- MCBatches
INVARIANTS TypeOK DecidesWhatWasChecked PdpsAgree AllOrNothing
CHECK_DEADLOCK FALSE
