SPECIFICATION FairSpec
CONSTANTS
  NoMessage = NoMessage
  StartStates = {"pause"}
  Lossy = FALSE
  Operator = FALSE
  MaxCommands = 1
  MaxInputs = 1
  MaxStops = 0
  MaxLedTicks = 1
  MaxCrashes = 1
CHECK_DEADLOCK FALSE
INVARIANTS
  MarkerKept
PROPERTIES
  HardFaultWins
