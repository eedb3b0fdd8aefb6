SPECIFICATION ThreadSpec
CONSTANTS
  Attempts = {a1}
  Calls <- AllCalls
  MaxRetries = 2
  WaitInterrupts = TRUE
INVARIANTS TypeOK
PROPERTIES ImplementsOutcome PasswordEndsCall FaceEndsCall OrphanStops
CHECK_DEADLOCK FALSE
