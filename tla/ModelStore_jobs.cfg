SPECIFICATION FairSpec
CONSTANTS
  j1 = j1
  j2 = j2
  j3 = j3
  Jobs <- ThreeJobs
  MaxFrames = 2
  Steps = 2
  StepSamples = 1
  MaxSamples = 2
INVARIANTS StoreInv TornHasCause
PROPERTIES LossesExplained EnrolmentEnds
CHECK_DEADLOCK FALSE
