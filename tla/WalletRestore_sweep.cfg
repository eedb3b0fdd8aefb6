SPECIFICATION FairSpec
CONSTANTS
  Names <- ThreeNames
  Homes <- SomeHomes
  Passwords = {1, 2}
  Removers = {"prerm", "script", "hand"}
  Budget = 24
  MaxChanges = 1
INVARIANTS SweepInv
PROPERTIES OkMeansOpened RemovalEnds
CHECK_DEADLOCK FALSE
