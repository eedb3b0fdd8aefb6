SPECIFICATION FairSpec
CONSTANTS
  Setups <- SignalSetups
  Timeout = 2
  Acquisition = 2
  Confirmations = 2
  TurnMax = 2
  MaxFailures = 3
  MaxSignals = 2
INVARIANTS CodesInv CardTellsOutcome
PROPERTIES DecisionStands ScanEnds ImplementsLife
CHECK_DEADLOCK FALSE
