SPECIFICATION FairSpec
CONSTANTS
  RuleSets <- SomeRules
  Positions = {0, 1, 2}
  MinDistance = 1
  MinDirections = 2
  Ticks = 2
INVARIANTS RulesInv VerdictsEarned
PROPERTIES ChecksEnd
CHECK_DEADLOCK FALSE
