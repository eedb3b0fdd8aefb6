SPECIFICATION SealSpec
CONSTANTS
  j1 = j1
  j2 = j2
  j3 = j3
  Jobs <- ThreeJobs
  Passwords = {1, 2}
  Overlap = FALSE
INVARIANTS SealTypeOK
PROPERTIES ReportsHold LossesHaveCause KeysStand
SYMMETRY JobSymmetry
CHECK_DEADLOCK FALSE
