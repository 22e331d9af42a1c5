SPECIFICATION FairSpec
CONSTANTS
  StartStates = {5, 9}
  MaxCommands = 1
  MaxPresses = 1
  MaxRemovals = 1
  MaxInputs = 1
  MaxCrashes = 1
  MaxEvents = 3
CHECK_DEADLOCK FALSE
INVARIANTS
  ModesInv
PROPERTIES
  RemovalKept
  ProductionEnds
  TransitionsEnd
