SPECIFICATION Spec
CONSTANTS
  Attempts = {a1}
  Calls <- AllCalls
  MaxRetries = 2
  WaitInterrupts = TRUE
INVARIANTS SuccessOnlyByFace
CHECK_DEADLOCK FALSE
