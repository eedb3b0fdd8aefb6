SPECIFICATION ConfigSpec
CONSTANTS
  w1 = w1
  w2 = w2
  w3 = w3
  Writers <- ThreeWriters
  Chosen <- SomeTasks
INVARIANTS WriterInv LevelsAndNodAgree
PROPERTIES ChangedByIntentOrStale
SYMMETRY WriterSymmetry
CHECK_DEADLOCK FALSE
