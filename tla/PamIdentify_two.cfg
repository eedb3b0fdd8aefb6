SPECIFICATION Spec
CONSTANTS
  Attempts = {a1, a2}
  Calls <- SharedMarkerCalls
  MaxRetries = 0
  WaitInterrupts = FALSE
INVARIANTS SuccessOnlyByFace CallLeavesClean MarkerHasCause
PROPERTIES SuccessForgives
CHECK_DEADLOCK FALSE
